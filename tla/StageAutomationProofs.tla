-------------------------- MODULE StageAutomationProofs --------------------------
(***************************************************************************)
(* Theorems about StageAutomation, for any stages, calendars, slots,       *)
(* requests and attempts, and any number of edits and faults.              *)
(***************************************************************************)
EXTENDS StageAutomation, TLAPS

Chain     == [known : {FALSE}] \cup [known : {TRUE}, doc : StageDoc]

\* Schedules for one of the given times: one that waits has an attempt left.
AnyJob(D) == [state : {"none", "armed", "stranded", "dead"} \cup RUNNING, runAt : D,
              attempts : 0 .. Attempts, failures : 0 .. Attempts - 1,
              by : Checkers \cup {Nobody}, chain : Chain]
Jobs(D)   == {j \in AnyJob(D) : j.state \in {"armed", "stranded"} => j.attempts < Attempts}
Job       == Jobs(Date)

Idling    == [pc : {"idle"}]
Finding   == [pc : {"find"}, stageId : Stages, now : Times]
Updating  == [pc : {"update", "refresh"}, stageId : Stages, now : Times, previous : StageDoc,
              newStatus : STAGE_STATUS]
Following == [pc : {"sideEffects"}, stageId : Stages, now : Times, previous : StageDoc,
              newStatus : STAGE_STATUS, refreshed : StageDoc]
Ending    == [pc : {"reject", "complete"}, stageId : Stages]
Check     == Idling \cup Finding \cup Updating \cup Following \cup Ending
Asking    == [pc : {"idle", "done", "failed"}] \cup [pc : {"cancel"}, stageId : Stages]
               \cup [pc : {"schedule"}, stageId : Stages, runAt : Times]

TypeInv ==
  /\ now \in Times
  /\ stage \in [Stages -> StageDoc]
  /\ job \in [Stages -> Job]
  /\ check \in [Checkers -> Check]
  /\ request \in [Requests -> Asking]
  /\ edits \in 0 .. MaxEdits /\ faults \in 0 .. MaxFaults

\* A step with any slot, any invocation, and any slots at their last call when
\* the process dies.
AnyStep ==
  \/ \E w \in Checkers : StartCheck(w) \/ CheckStep(w) \/ CancelFails(w) \/ ChainFails(w)
                          \/ CheckFails(w)
  \/ \E r \in Requests : FindRequested(r) \/ FindFails(r) \/ RequestStep(r) \/ RequestFails(r)
  \/ \E s \in Stages : ClaimFails(s) \/ Repair(s) \/ MarkedLate(s)
  \/ \E W \in SUBSET Checkers : Crash(W)
  \/ Edit \/ Tick \/ Idle

\* Every step is one of these.
LEMMA NextIsAny == Next => AnyStep
BY DEF Next, AnyStep, AnyOf, IdleSlots, Unmade

-----------------------------------------------------------------------------
\* The bounds are natural numbers, and a job has at least one attempt.
LEMMA BoundsFacts ==
  /\ MaxTime \in Nat /\ MaxEdits \in Nat /\ MaxFaults \in Nat /\ Attempts \in Nat /\ Attempts >= 1
  /\ Timetables \subseteq [DATES -> Date]
  /\ Off \in Int /\ Times \subseteq Int /\ Date \subseteq Int
  /\ Off \notin Times /\ Epoch \notin Times /\ Times \subseteq Date /\ Off \in Date
<1>1. Timetables \subseteq [DATES -> Date]
  BY StageAssumption DEF Timetables
<1>2. QED
  BY <1>1, StageAssumption DEF Off, Epoch, Times, Date

\* A draft is a document.
LEMMA DraftType == Drafts \subseteq StageDoc
<1>1. SUFFICES ASSUME NEW d \in Drafts
               PROVE  d \in StageDoc
  OBVIOUS
<1>2. d \in [status : {"UPCOMING"}, dates : [DATES -> Date],
             isPreRegistrationAllowed : BOOLEAN, full : {FALSE}, pending : {FALSE}]
  BY StageAssumption
<1>3. d.dates \in Timetables
  BY DEF Timetables
<1>4. QED
  BY <1>2, <1>3 DEF StageDoc, STAGE_STATUS

\* What a check may read and write, by how far it is.
LEMMA CheckShape ==
  ASSUME NEW c \in Check
  PROVE  /\ c.pc \in {"idle", "find", "update", "refresh", "sideEffects", "reject", "complete"}
         /\ c.pc # "idle" => c.stageId \in Stages
         /\ c.pc = "find" => c \in Finding
         /\ c.pc \in {"update", "refresh"} => c \in Updating
         /\ c.pc = "sideEffects" => c \in Following
         /\ c.pc \in {"reject", "complete"} => c \in Ending
BY DEF Check, Idling, Finding, Updating, Following, Ending

\* Every date of a document is one, or missing.
LEMMA DocFacts ==
  ASSUME NEW d \in StageDoc
  PROVE  /\ d.dates \in [DATES -> Date] /\ d.status \in STAGE_STATUS
         /\ Boundaries(d) \subseteq Times
BY BoundsFacts DEF StageDoc, Boundaries, Date

\* A derived status is a status.
LEMMA DeriveType ==
  ASSUME NEW d, NEW t
  PROVE  DeriveStageStatus(d, t) \in STAGE_STATUS
BY DEF DeriveStageStatus, RegistrationStatus, STAGE_STATUS

-----------------------------------------------------------------------------
(* The next boundary                                                       *)

HasLeast(S) == S = {} \/ \E b \in S : \A o \in S : b <= o

\* One more date leaves a set of dates with a least element.
LEMMA AddLeast ==
  ASSUME NEW S \in SUBSET Int, HasLeast(S), NEW T \in SUBSET Int, NEW x, T \subseteq {x}
  PROVE  S \cup T \in SUBSET Int /\ HasLeast(S \cup T)
<1>1. CASE T = {} \/ S = {}
  BY <1>1 DEF HasLeast
<1>2. CASE T # {} /\ S # {}
  <2>1. T = {x} /\ x \in Int
    BY <1>2
  <2>2. PICK b \in S : \A o \in S : b <= o
    BY <1>2 DEF HasLeast
  <2>3. CASE b <= x
    BY <2>1, <2>2, <2>3 DEF HasLeast
  <2>4. CASE ~(b <= x)
    <3>1. x \in S \cup T /\ \A o \in S \cup T : x <= o
      BY <2>1, <2>2, <2>4
    <3>2. QED
      BY <3>1 DEF HasLeast
  <2>5. QED
    BY <2>3, <2>4
<1>3. QED
  BY <1>1, <1>2

(* The next check is at the first boundary of those more than the window    *)
(* away, when there is one.                                                 *)
LEMMA NextIsLeast ==
  ASSUME NEW d \in StageDoc, NEW t \in Times
  PROVE  /\ GetNextStageRunAt(d, t) \in Date
         /\ GetNextStageRunAt(d, t) # Off =>
              \A b \in Boundaries(d) : b > t + WINDOW => GetNextStageRunAt(d, t) <= b
<1> DEFINE later == {b \in Boundaries(d) : b > t + WINDOW}
           one(n) == {b \in {d.dates[n]} : b \in Times /\ b > t + WINDOW}
<1>1. \A n \in DATES : one(n) \in SUBSET Int /\ one(n) \subseteq {d.dates[n]}
  BY DocFacts, BoundsFacts
<1>2. later = UNION {one(n) : n \in DATES}
  BY DEF Boundaries
<1> DEFINE a == one("preRegistrationWindowStart")
           b == one("preRegistrationWindowEnd")
           c == one("registrationWindowStart")
           e == one("registrationWindowEnd")
           f == one("startDate")
           g == one("endDate")
<1>3. later = ((((a \cup b) \cup c) \cup e) \cup f) \cup g
  <2>1. \A x : (\E n \in DATES : x \in one(n)) <=>
                 (x \in a \/ x \in b \/ x \in c \/ x \in e \/ x \in f \/ x \in g)
    BY DEF DATES
  <2>2. \A x : x \in later <=> \E n \in DATES : x \in one(n)
    BY <1>2
  <2> HIDE DEF later, one, a, b, c, e, f, g
  <2>3. QED
    BY <2>1, <2>2
<1>4. /\ a \in SUBSET Int /\ a \subseteq {d.dates["preRegistrationWindowStart"]}
      /\ b \in SUBSET Int /\ b \subseteq {d.dates["preRegistrationWindowEnd"]}
      /\ c \in SUBSET Int /\ c \subseteq {d.dates["registrationWindowStart"]}
      /\ e \in SUBSET Int /\ e \subseteq {d.dates["registrationWindowEnd"]}
      /\ f \in SUBSET Int /\ f \subseteq {d.dates["startDate"]}
      /\ g \in SUBSET Int /\ g \subseteq {d.dates["endDate"]}
  BY <1>1 DEF DATES
<1> HIDE DEF a, b, c, e, f, g
<1>5. a \in SUBSET Int /\ HasLeast(a)
  <2>1. {} \in SUBSET Int /\ HasLeast({})
    BY DEF HasLeast
  <2>2. HasLeast({} \cup a)
    BY <1>4, <2>1, AddLeast
  <2>3. QED
    BY <1>4, <2>2
<1>6. (a \cup b) \in SUBSET Int /\ HasLeast(a \cup b)
  BY <1>4, <1>5, AddLeast
<1>7. ((a \cup b) \cup c) \in SUBSET Int /\ HasLeast((a \cup b) \cup c)
  BY <1>4, <1>6, AddLeast
<1>8. (((a \cup b) \cup c) \cup e) \in SUBSET Int /\ HasLeast(((a \cup b) \cup c) \cup e)
  BY <1>4, <1>7, AddLeast
<1>9. /\ ((((a \cup b) \cup c) \cup e) \cup f) \in SUBSET Int
      /\ HasLeast((((a \cup b) \cup c) \cup e) \cup f)
  BY <1>4, <1>8, AddLeast
<1>10. HasLeast(later)
  BY <1>3, <1>4, <1>9, AddLeast
<1>11. GetNextStageRunAt(d, t) =
         IF later = {} THEN Off ELSE CHOOSE m \in later : \A o \in later : m <= o
  BY DEF GetNextStageRunAt
<1>12. later \subseteq Times
  BY DocFacts
<1>13. CASE later = {}
  BY <1>11, <1>13 DEF Date
<1>14. CASE later # {}
  <2> HIDE DEF later
  <2>1. \E m \in later : \A o \in later : m <= o
    BY <1>10, <1>14 DEF HasLeast
  <2>2. GetNextStageRunAt(d, t) \in later /\ \A o \in later : GetNextStageRunAt(d, t) <= o
    BY <1>11, <1>14, <2>1
  <2>3. GetNextStageRunAt(d, t) \in Date
    BY <1>12, <2>2 DEF Date
  <2>4. \A m \in Boundaries(d) : m > t + WINDOW => m \in later
    BY DEF later
  <2>5. QED
    BY <2>2, <2>3, <2>4
<1>15. QED
  BY <1>13, <1>14
-----------------------------------------------------------------------------
(* Types                                                                   *)

\* A new schedule, or none, has the type of a schedule.
LEMMA SchedulesFor ==
  ASSUME NEW D, Off \in D
  PROVE  /\ NoJob \in Jobs(D) /\ Dead \in Jobs(D)
         /\ \A t \in D, chain \in Chain : Armed(t, chain) \in Jobs(D)
         /\ NoChain \in Chain /\ \A d \in StageDoc : Chained(d) \in Chain
<1>1. 0 \in 0 .. Attempts /\ 0 \in 0 .. Attempts - 1 /\ 0 < Attempts
  BY BoundsFacts
<1>2. NoChain \in Chain /\ \A d \in StageDoc : Chained(d) \in Chain
  BY DEF NoChain, Chained, Chain
<1>3. NoJob \in AnyJob(D) /\ NoJob.attempts = 0 /\ NoJob.state = "none"
  BY <1>1, <1>2 DEF NoJob, Jobs, AnyJob
<1>4. Dead \in AnyJob(D) /\ Dead.state = "dead"
  BY <1>3 DEF Dead, AnyJob
<1>5. ASSUME NEW t \in D, NEW chain \in Chain
      PROVE  Armed(t, chain) \in AnyJob(D) /\ Armed(t, chain).attempts = 0
  BY <1>3 DEF Armed, AnyJob
<1>6. QED
  BY <1>1, <1>2, <1>3, <1>4, <1>5 DEF Jobs

\* That of a stage is for a date.
LEMMA ScheduleTypes ==
  /\ NoJob \in Job /\ Dead \in Job
  /\ \A t \in Date, chain \in Chain : Armed(t, chain) \in Job
  /\ NoChain \in Chain /\ \A d \in StageDoc : Chained(d) \in Chain
BY BoundsFacts, SchedulesFor DEF Job

\* A schedule that waits, for its time or for a reconciliation, has an attempt left.
LEMMA WaitingType ==
  ASSUME NEW D, Off \in D, NEW j \in Jobs(D), NEW f \in 0 .. Attempts - 1
  PROVE  Stranded(j, f) \in Jobs(D) /\ (j.attempts < Attempts => Again(j, f) \in Jobs(D))
<1>1. j \in AnyJob(D)
  BY DEF Jobs
<1>2. ASSUME j.attempts < Attempts, NEW state \in {"armed", "stranded"}
      PROVE  [j EXCEPT !.state = state, !.failures = f, !.by = Nobody] \in Jobs(D)
  BY <1>1, <1>2 DEF Jobs, AnyJob
<1>3. QED
  BY <1>2, SchedulesFor DEF Stranded, Again

\* Whatever the end of a check, a failure or a crash makes of a schedule is one.
LEMMA OutcomesFor ==
  ASSUME NEW D, Off \in D, NEW j \in Jobs(D)
  PROVE  /\ AfterFailure(j) \in Jobs(D) /\ AfterError(j) \subseteq Jobs(D)
         /\ AfterSuccess(j) \in Jobs(D)
         /\ j.state = "armed" => NotClaimed(j) \in Jobs(D)
         /\ j.state = "stranded" => Again(j, j.failures) \in Jobs(D)
         /\ j.state = "running" => [j EXCEPT !.state = "queued"] \in Jobs(D)
         /\ HalfCancelled(j) \subseteq Jobs(D) /\ CutOff(j) \subseteq Jobs(D)
         /\ \A new \in Jobs(D) : Rejected(j, new) \subseteq Jobs(D)
<1>1. /\ j \in AnyJob(D) /\ j.failures \in 0 .. Attempts - 1 /\ 0 \in 0 .. Attempts - 1
      /\ j.state \in {"armed", "stranded"} => j.attempts < Attempts
      /\ j.failures + 1 < Attempts => j.failures + 1 \in 0 .. Attempts - 1
  BY BoundsFacts DEF Jobs, AnyJob
<1>2. AfterFailure(j) \in Jobs(D)
  BY <1>1, WaitingType, SchedulesFor DEF AfterFailure
<1>3. AfterError(j) \subseteq Jobs(D) /\ AfterSuccess(j) \in Jobs(D)
  BY <1>1, <1>2, WaitingType, SchedulesFor DEF AfterError, AfterSuccess
<1>4. j.state = "armed" => NotClaimed(j) \in Jobs(D)
  BY <1>1, WaitingType DEF NotClaimed
<1>5. j.state = "stranded" => Again(j, j.failures) \in Jobs(D)
  BY <1>1, WaitingType
<1>6. j.state = "running" => [j EXCEPT !.state = "queued"] \in Jobs(D)
  BY <1>1 DEF Jobs, AnyJob, RUNNING
<1>7. HalfCancelled(j) \subseteq Jobs(D)
  BY <1>1, WaitingType DEF HalfCancelled
<1>8. CutOff(j) \subseteq Jobs(D)
  BY <1>1, WaitingType DEF CutOff
<1>9. \A new \in Jobs(D) : Rejected(j, new) \subseteq Jobs(D)
  BY <1>1, <1>7, WaitingType DEF Rejected
<1>10. QED
  BY <1>2, <1>3, <1>4, <1>5, <1>6, <1>7, <1>8, <1>9

\* So with a stage's schedule.
LEMMA OutcomesType ==
  ASSUME NEW j \in Job
  PROVE  /\ AfterFailure(j) \in Job /\ AfterError(j) \subseteq Job /\ AfterSuccess(j) \in Job
         /\ j.state = "armed" => NotClaimed(j) \in Job
         /\ j.state = "stranded" => Again(j, j.failures) \in Job
         /\ j.state = "running" => [j EXCEPT !.state = "queued"] \in Job
         /\ HalfCancelled(j) \subseteq Job /\ CutOff(j) \subseteq Job
         /\ \A new \in Job : Rejected(j, new) \subseteq Job
<1>1. Off \in Date
  BY BoundsFacts
<1>2. QED
  BY <1>1, OutcomesFor DEF Job

\* A slot that takes a waiting schedule counts an attempt.
LEMMA ClaimedFor ==
  ASSUME NEW D, Off \in D, NEW j \in Jobs(D), j.state = "armed", NEW w \in Checkers
  PROVE  [NoJob EXCEPT !.state = "running", !.by = w, !.attempts = j.attempts + 1,
                       !.failures = j.failures] \in Jobs(D)
<1>1. j \in AnyJob(D) /\ NoJob \in AnyJob(D) /\ j.attempts < Attempts
  BY SchedulesFor DEF Jobs
<1>2. j.attempts + 1 \in 0 .. Attempts /\ j.failures \in 0 .. Attempts - 1
  BY <1>1, BoundsFacts DEF AnyJob
<1>3. QED
  BY <1>1, <1>2 DEF Jobs, AnyJob, RUNNING

\* The check and the job that an ended check leaves.
LEMMA EndCheckType ==
  ASSUME job \in [Stages -> Job], check \in [Checkers -> Check], NEW w \in Checkers,
         NEW s \in Stages, NEW j \in Job, EndCheck(w, s, j)
  PROVE  job' \in [Stages -> Job] /\ check' \in [Checkers -> Check]
BY DEF EndCheck, IdleCheck, Check, Idling

\* The check and the job that the side effects leave.
LEMMA AfterSideEffectsType ==
  ASSUME job \in [Stages -> Job], check \in [Checkers -> Check], NEW w \in Checkers,
         check[w] \in Following, NEW j \in Job, AfterSideEffects(w, j)
  PROVE  job' \in [Stages -> Job] /\ check' \in [Checkers -> Check]
<1>1. check[w].stageId \in Stages
  BY DEF Following
<1>2. \A pc \in {"reject", "complete"} : [pc |-> pc, stageId |-> check[w].stageId] \in Check
  BY <1>1 DEF Check, Ending
<1>3. QED
  BY <1>2 DEF AfterSideEffects

\* What the side effects may leave as the stage's schedule.
LEMMA ChainsType ==
  ASSUME NEW d \in StageDoc, NEW t \in Times, NEW chain \in Chain
  PROVE  Armed(GetNextStageRunAt(d, t), chain) \in Job
BY NextIsLeast, ScheduleTypes

\* Every step of a check keeps the types.
LEMMA CheckStepType ==
  ASSUME TypeInv, NEW w \in Checkers,
         StartCheck(w) \/ CheckStep(w) \/ CancelFails(w) \/ ChainFails(w) \/ CheckFails(w)
  PROVE  TypeInv'
<1>0. /\ now \in Times /\ stage \in [Stages -> StageDoc] /\ job \in [Stages -> Job]
      /\ check \in [Checkers -> Check] /\ faults \in 0 .. MaxFaults /\ check[w] \in Check
  BY DEF TypeInv
<1> DEFINE Kept == stage' \in [Stages -> StageDoc] /\ job' \in [Stages -> Job]
                     /\ check' \in [Checkers -> Check]
<1>1. ASSUME Kept, UNCHANGED <<now, request, edits>>, UNCHANGED faults \/ Fault
      PROVE  TypeInv'
  BY <1>0, <1>1, BoundsFacts DEF TypeInv, Fault
<1>2. CASE StartCheck(w)
  <2>1. PICK s \in Stages :
          /\ job[s].state = "armed"
          /\ job' = [job EXCEPT ![s] = [NoJob EXCEPT !.state = "running", !.by = w,
                                                      !.attempts = job[s].attempts + 1,
                                                      !.failures = job[s].failures]]
          /\ check' = [check EXCEPT ![w] = [pc |-> "find", stageId |-> s, now |-> now]]
    BY <1>2 DEF StartCheck
  <2>2. [NoJob EXCEPT !.state = "running", !.by = w, !.attempts = job[s].attempts + 1,
                      !.failures = job[s].failures] \in Job
    <3>1. Off \in Date /\ job[s] \in Jobs(Date) /\ job[s].state = "armed"
      BY <1>0, <2>1, BoundsFacts DEF Job
    <3>2. QED
      BY <3>1, ClaimedFor DEF Job
  <2>3. [pc |-> "find", stageId |-> s, now |-> now] \in Check
    BY <1>0 DEF Check, Finding
  <2>4. QED
    BY <1>0, <1>1, <1>2, <2>1, <2>2, <2>3 DEF StartCheck
<1>3. CASE FindStage(w)
  <2> DEFINE s == check[w].stageId
             newStatus == DeriveStageStatus(stage[s], check[w].now)
  <2>1. check[w] \in Finding
    BY <1>0, <1>3, CheckShape DEF FindStage
  <2>2. s \in Stages /\ check[w].now \in Times /\ newStatus \in STAGE_STATUS
    BY <2>1, DeriveType DEF Finding
  <2>3. /\ [pc |-> "complete", stageId |-> s] \in Check
        /\ [pc |-> "update", stageId |-> s, now |-> check[w].now,
            previous |-> stage[s], newStatus |-> newStatus] \in Check
    BY <1>0, <2>2 DEF Check, Ending, Updating
  <2>4. check' \in [Checkers -> Check]
    BY <1>0, <1>3, <2>3 DEF FindStage
  <2>5. QED
    BY <1>0, <1>1, <1>3, <2>4 DEF FindStage
<1>4. CASE UpdateStage(w)
  <2>1. check[w] \in Updating
    BY <1>0, <1>4, CheckShape DEF UpdateStage
  <2>2. [check[w] EXCEPT !.pc = "refresh"] \in Updating
    BY <2>1 DEF Updating
  <2>3. stage' \in [Stages -> StageDoc]
    BY <1>0, <1>4, <2>1 DEF UpdateStage, Updating, StageDoc
  <2>4. QED
    BY <1>0, <1>1, <1>4, <2>2, <2>3 DEF UpdateStage, Check
<1>5. CASE RefreshStage(w)
  <2>1. check[w] \in Updating
    BY <1>0, <1>5, CheckShape DEF RefreshStage
  <2>2. [pc |-> "sideEffects", stageId |-> check[w].stageId, now |-> check[w].now,
         previous |-> check[w].previous, newStatus |-> check[w].newStatus,
         refreshed |-> stage[check[w].stageId]] \in Following
    BY <1>0, <2>1 DEF Updating, Following
  <2>3. QED
    BY <1>0, <1>1, <1>5, <2>2 DEF RefreshStage, Check
<1>6. CASE RunStageSideEffects(w) \/ CancelFails(w)
  <2>1. check[w] \in Following
    BY <1>0, <1>6, CheckShape DEF RunStageSideEffects, CancelFails
  <2>2. check[w].refreshed \in StageDoc /\ job[check[w].stageId] \in Job
    BY <1>0, <2>1 DEF Following
  <2>3. \E j \in Job : AfterSideEffects(w, j)
    <3>1. CASE CancelFails(w)
      BY <2>2, <3>1, OutcomesType DEF CancelFails
    <3>2. CASE RunStageSideEffects(w)
      <4> DEFINE d == check[w].refreshed
                 chain == IF /\ d = [check[w].previous EXCEPT !.status = check[w].newStatus]
                             /\ ~Missed(d, check[w].now, now)
                            THEN Chained(d) ELSE NoChain
      <4>1. chain \in Chain
        BY <2>2, ScheduleTypes
      <4>2. Armed(GetNextStageRunAt(d, now), chain) \in Job
        BY <1>0, <2>2, <4>1, ChainsType
      <4>3. \/ AfterSideEffects(w, NoJob)
            \/ AfterSideEffects(w, Armed(GetNextStageRunAt(d, now), chain))
            \/ AfterSideEffects(w, job[check[w].stageId])
        BY <3>2 DEF RunStageSideEffects, NextCheck
      <4> HIDE DEF d, chain
      <4>4. QED
        BY <2>2, <4>2, <4>3, ScheduleTypes
    <3>3. QED
      BY <1>6, <3>1, <3>2
  <2>4. job' \in [Stages -> Job] /\ check' \in [Checkers -> Check]
    BY <1>0, <2>1, <2>3, AfterSideEffectsType
  <2>5. QED
    BY <1>0, <1>1, <1>6, <2>4 DEF RunStageSideEffects, CancelFails
<1>7. CASE RejectPending(w)
  <2>1. check[w] \in Ending /\ check[w].stageId \in Stages
    BY <1>0, <1>7, CheckShape DEF RejectPending
  <2>2. stage' \in [Stages -> StageDoc]
    BY <1>0, <1>7, <2>1 DEF RejectPending, StageDoc
  <2>3. [check[w] EXCEPT !.pc = "complete"] \in Check
    BY <2>1 DEF Ending, Check
  <2>4. check' \in [Checkers -> Check]
    BY <1>0, <1>7, <2>3 DEF RejectPending
  <2>5. QED
    BY <1>0, <1>1, <1>7, <2>2, <2>4 DEF RejectPending
<1>8. CASE ChainFails(w)
  <2>1. check' \in [Checkers -> Check]
    BY <1>0, <1>8 DEF ChainFails, IdleCheck, Check, Idling
  <2>2. check[w] \in Following
    BY <1>0, <1>8, CheckShape DEF ChainFails
  <2>3. job[check[w].stageId] \in Job /\ NextCheck(w, NoChain) \in Job
    BY <1>0, <2>2, ChainsType, ScheduleTypes DEF Following, NextCheck
  <2>4. PICK k \in Rejected(job[check[w].stageId], NextCheck(w, NoChain)) :
          \E j \in (IF k.by = w THEN AfterError(k) ELSE {k}) :
            job' = [job EXCEPT ![check[w].stageId] = j]
    BY <1>8 DEF ChainFails
  <2>5. PICK j \in (IF k.by = w THEN AfterError(k) ELSE {k}) :
          job' = [job EXCEPT ![check[w].stageId] = j]
    BY <2>4
  <2>6. k \in Job
    BY <2>3, <2>4, OutcomesType
  <2>7. j \in Job
    BY <2>5, <2>6, OutcomesType
  <2>8. QED
    BY <1>0, <1>1, <1>8, <2>1, <2>5, <2>7 DEF ChainFails
<1>9. CASE CheckFails(w) \/ CompleteCheck(w)
  <2>1. check[w].stageId \in Stages
    BY <1>0, <1>9, CheckShape DEF CheckFails, CompleteCheck
  <2>2. /\ AfterError(job[check[w].stageId]) \subseteq Job
        /\ AfterSuccess(job[check[w].stageId]) \in Job
    BY <1>0, <2>1, OutcomesType
  <2>3. \E j \in Job : EndCheck(w, check[w].stageId, j)
    BY <1>9, <2>2 DEF CheckFails, CompleteCheck
  <2>4. QED
    BY <1>0, <1>1, <1>9, <2>1, <2>3, EndCheckType DEF CheckFails, CompleteCheck
<1>10. QED
  BY <1>2, <1>3, <1>4, <1>5, <1>6, <1>7, <1>8, <1>9 DEF CheckStep

\* Every step of a request keeps the types.
LEMMA RequestStepType ==
  ASSUME TypeInv, NEW r \in Requests,
         FindRequested(r) \/ FindFails(r) \/ RequestStep(r) \/ RequestFails(r)
  PROVE  TypeInv'
<1>0. /\ now \in Times /\ stage \in [Stages -> StageDoc] /\ job \in [Stages -> Job]
      /\ request \in [Requests -> Asking] /\ faults \in 0 .. MaxFaults /\ request[r] \in Asking
  BY DEF TypeInv
<1>1. ASSUME job' \in [Stages -> Job], request' \in [Requests -> Asking],
             UNCHANGED <<now, stage, check, edits>>, UNCHANGED faults \/ Fault
      PROVE  TypeInv'
  BY <1>0, <1>1, BoundsFacts DEF TypeInv, Fault
<1>2. /\ request[r].pc \in {"schedule", "cancel"} => request[r].stageId \in Stages
      /\ request[r].pc = "schedule" => request[r].runAt \in Times
  BY <1>0 DEF Asking
<1>3. [pc |-> "done"] \in Asking /\ [pc |-> "failed"] \in Asking
  BY DEF Asking
<1>4. CASE FindRequested(r)
  <2>1. PICK s \in Stages, delay \in Delays : now + delay \in Times /\ FindFor(r, s, now + delay)
    BY <1>4 DEF FindRequested
  <2>2. [pc |-> "cancel", stageId |-> s] \in Asking
        /\ [pc |-> "schedule", stageId |-> s, runAt |-> now + delay] \in Asking
    BY <2>1 DEF Asking
  <2>3. QED
    BY <1>0, <1>1, <2>1, <2>2 DEF FindFor
<1>5. CASE ScheduleRequested(r)
  <2>1. Armed(request[r].runAt, NoChain) \in Job
    BY <1>2, <1>5, ScheduleTypes DEF ScheduleRequested, Date
  <2>2. QED
    BY <1>0, <1>1, <1>3, <1>5, <2>1 DEF ScheduleRequested
<1>6. CASE CancelRequested(r)
  BY <1>0, <1>1, <1>3, <1>6, ScheduleTypes DEF CancelRequested
<1>7. CASE RequestFails(r)
  <2> DEFINE j == job[request[r].stageId]
  <2>1. PICK k \in (IF request[r].pc = "cancel" THEN HalfCancelled(j)
                     ELSE Rejected(j, Armed(request[r].runAt, NoChain))) :
          job' = [job EXCEPT ![request[r].stageId] = k]
    BY <1>7 DEF RequestFails
  <2>2. j \in Job /\ (request[r].pc = "schedule" => Armed(request[r].runAt, NoChain) \in Job)
    BY <1>0, <1>2, <1>7, ScheduleTypes, BoundsFacts DEF RequestFails
  <2>3. k \in Job
    BY <1>7, <2>1, <2>2, OutcomesType DEF RequestFails
  <2>4. QED
    BY <1>0, <1>1, <1>3, <1>7, <2>1, <2>3 DEF RequestFails
<1>8. CASE FindFails(r)
  BY <1>0, <1>1, <1>3, <1>8 DEF FindFails
<1>9. QED
  BY <1>4, <1>5, <1>6, <1>7, <1>8 DEF RequestStep

\* What the death of the process, with slots W at their last call, may leave of the
\* schedule of s: what is left of it, or of one that a call under way put in its
\* place.
LEMMA CrashLeaves ==
  ASSUME TypeInv, NEW s \in Stages, NEW W \in SUBSET Checkers, NEW k \in LeftByCrash(s, W)
  PROVE  \E j : /\ k \in CutOff(j)
                /\ \/ j \in HalfCancelled(job[s])
                   \/ \E t \in Date : j \in Rejected(job[s], Armed(t, NoChain))
<1>1. job[s] \in HalfCancelled(job[s])
  BY DEF HalfCancelled
<1>2. PICK j : /\ k \in CutOff(j)
               /\ \/ j = job[s] \/ j \in HalfCancelled(job[s])
                  \/ \E new \in Scheduling(s, W) : j \in Rejected(job[s], new)
  BY DEF LeftByCrash
<1>3. ASSUME NEW new \in Scheduling(s, W)
      PROVE  \E t \in Date : new = Armed(t, NoChain)
  <2>1. CASE \E r \in Requests : request[r].pc = "schedule" /\ new = Armed(request[r].runAt, NoChain)
    <3>1. PICK r \in Requests : request[r].pc = "schedule" /\ new = Armed(request[r].runAt, NoChain)
      BY <2>1
    <3>2. request[r].runAt \in Times
      BY <3>1 DEF TypeInv, Asking
    <3>3. QED
      BY <3>1, <3>2, BoundsFacts
  <2>2. CASE \E w \in W : check[w].pc = "sideEffects" /\ new = NextCheck(w, NoChain)
    <3>1. PICK w \in W : check[w].pc = "sideEffects" /\ new = NextCheck(w, NoChain)
      BY <2>2
    <3>2. check[w] \in Following /\ now \in Times
      BY <3>1, CheckShape DEF TypeInv
    <3>3. GetNextStageRunAt(check[w].refreshed, now) \in Date
      BY <3>2, NextIsLeast DEF Following
    <3>4. QED
      BY <3>1, <3>3 DEF NextCheck
  <2>3. QED
    BY <2>1, <2>2 DEF Scheduling
<1>4. QED
  BY <1>1, <1>2, <1>3

\* Crashes, reconciliations and late updates keep the types.
LEMMA ServerStepType ==
  ASSUME TypeInv, (\E s \in Stages : ClaimFails(s) \/ Repair(s) \/ MarkedLate(s))
                    \/ (\E W \in SUBSET Checkers : Crash(W))
  PROVE  TypeInv'
<1>0. /\ job \in [Stages -> Job] /\ check \in [Checkers -> Check]
      /\ request \in [Requests -> Asking] /\ faults \in 0 .. MaxFaults
  BY DEF TypeInv
<1>1. ASSUME UNCHANGED faults \/ Fault
      PROVE  faults' \in 0 .. MaxFaults
  BY <1>0, <1>1, BoundsFacts DEF Fault
<1>2. ASSUME NEW s \in Stages, ClaimFails(s) \/ Repair(s) \/ MarkedLate(s)
      PROVE  TypeInv'
  <2>1. job[s] \in Job
    BY <1>0
  <2>2. \E j \in Job : job' = [job EXCEPT ![s] = j]
    <3>1. CASE ClaimFails(s)
      BY <2>1, <3>1, OutcomesType DEF ClaimFails
    <3>2. CASE Repair(s)
      BY <2>1, <3>2, OutcomesType DEF Repair
    <3>3. CASE MarkedLate(s)
      <4>1. job' = [job EXCEPT ![s] = [job[s] EXCEPT !.state = "queued"]]
        BY <1>0, <3>3 DEF MarkedLate
      <4>2. QED
        BY <2>1, <3>3, <4>1, OutcomesType DEF MarkedLate
    <3>4. QED
      BY <1>2, <3>1, <3>2, <3>3
  <2>3. job' \in [Stages -> Job]
    BY <1>0, <2>2
  <2>4. UNCHANGED <<now, stage, check, request, edits>> /\ (UNCHANGED faults \/ Fault)
    BY <1>2 DEF ClaimFails, Repair, MarkedLate
  <2>5. QED
    BY <1>1, <2>3, <2>4 DEF TypeInv
<1>3. ASSUME NEW W \in SUBSET Checkers, Crash(W)
      PROVE  TypeInv'
  <2>1. \A s \in Stages : LeftByCrash(s, W) \subseteq Job
    <3>1. SUFFICES ASSUME NEW s \in Stages, NEW k \in LeftByCrash(s, W)
                   PROVE  k \in Job
      OBVIOUS
    <3>2. PICK j : /\ k \in CutOff(j)
                   /\ \/ j \in HalfCancelled(job[s])
                      \/ \E t \in Date : j \in Rejected(job[s], Armed(t, NoChain))
      BY CrashLeaves
    <3>3. job[s] \in Job /\ \A t \in Date : Armed(t, NoChain) \in Job
      BY <1>0, ScheduleTypes
    <3>4. j \in Job
      BY <3>2, <3>3, OutcomesType
    <3>5. QED
      BY <3>2, <3>4, OutcomesType
  <2>2. job' \in [Stages -> Job]
    BY <1>3, <2>1 DEF Crash
  <2>3. check' \in [Checkers -> Check] /\ request' \in [Requests -> Asking]
    BY <1>0, <1>3 DEF Crash, IdleCheck, Check, Idling, Asking
  <2>4. QED
    BY <1>1, <1>3, <2>2, <2>3 DEF Crash, TypeInv
<1>4. QED
  BY <1>2, <1>3

\* The admin backend keeps the documents documents.
LEMMA EditType ==
  ASSUME TypeInv, Edit
  PROVE  TypeInv'
<1>0. stage \in [Stages -> StageDoc] /\ edits \in 0 .. MaxEdits
  BY DEF TypeInv
<1>1. edits' \in 0 .. MaxEdits
  BY <1>0, BoundsFacts DEF Edit
<1>2. PICK s \in Stages :
        \/ \E full \in BOOLEAN : stage' = [stage EXCEPT ![s].full = full, ![s].pending = TRUE]
        \/ \E status \in {"POSTPONED", "DELETED"} : stage' = [stage EXCEPT ![s].status = status]
        \/ \E dates \in Timetables : stage' = [stage EXCEPT ![s].dates = dates]
  BY DEF Edit
<1>3. CASE \E full \in BOOLEAN : stage' = [stage EXCEPT ![s].full = full, ![s].pending = TRUE]
  <2>1. PICK full \in BOOLEAN : stage' = [stage EXCEPT ![s].full = full, ![s].pending = TRUE]
    BY <1>3
  <2>2. [stage[s] EXCEPT !.full = full, !.pending = TRUE] \in StageDoc
    BY <1>0 DEF StageDoc
  <2>3. stage' = [stage EXCEPT ![s] = [stage[s] EXCEPT !.full = full, !.pending = TRUE]]
    BY <1>0, <2>1
  <2>4. stage' \in [Stages -> StageDoc]
    BY <1>0, <2>2, <2>3
  <2>5. QED
    BY <1>1, <2>4 DEF TypeInv, Edit
<1>4. CASE \E status \in {"POSTPONED", "DELETED"} : stage' = [stage EXCEPT ![s].status = status]
  <2>1. stage' \in [Stages -> StageDoc]
    BY <1>0, <1>4 DEF StageDoc, STAGE_STATUS
  <2>2. QED
    BY <1>1, <2>1 DEF TypeInv, Edit
<1>5. CASE \E dates \in Timetables : stage' = [stage EXCEPT ![s].dates = dates]
  <2>1. stage' \in [Stages -> StageDoc]
    BY <1>0, <1>5 DEF StageDoc
  <2>2. QED
    BY <1>1, <2>1 DEF TypeInv, Edit
<1>6. QED
  BY <1>2, <1>3, <1>4, <1>5

\* Every step keeps the types.
LEMMA TypeStep == TypeInv /\ [AnyStep]_vars => TypeInv'
<1> SUFFICES ASSUME TypeInv, [AnyStep]_vars
             PROVE  TypeInv'
  OBVIOUS
<1>1. CASE Tick
  <2>1. now' \in Times
    BY <1>1, BoundsFacts DEF TypeInv, Tick, Times
  <2>2. QED
    BY <1>1, <2>1 DEF TypeInv, Tick
<1>2. CASE UNCHANGED vars
  BY <1>2 DEF TypeInv, vars
<1>3. QED
  BY <1>1, <1>2, CheckStepType, RequestStepType, ServerStepType, EditType DEF AnyStep, Idle

\* The initial states have the types.
LEMMA InitType == Init => TypeInv
<1> SUFFICES ASSUME Init
             PROVE  TypeInv
  OBVIOUS
<1>1. stage \in [Stages -> StageDoc]
  BY DraftType DEF Init
<1>2. check \in [Checkers -> Check] /\ request \in [Requests -> Asking]
  BY DEF Init, IdleCheck, NoRequest, Check, Idling, Asking
<1>3. now \in Times /\ edits \in 0 .. MaxEdits /\ faults \in 0 .. MaxFaults
  BY BoundsFacts DEF Init, Times
<1>4. QED
  BY <1>1, <1>2, <1>3, ScheduleTypes DEF Init, TypeInv

\* The type invariant of the runs follows.
LEMMA TypeInvImplies == TypeInv => StageTypeOK
<1> SUFFICES ASSUME TypeInv
             PROVE  StageTypeOK
  OBVIOUS
<1>1. \A s \in Stages : /\ job[s].state \in {"none", "armed", "stranded", "dead"} \cup RUNNING
                        /\ job[s].runAt \in Date
                        /\ job[s].attempts \in 0 .. Attempts
                        /\ job[s].state \in {"armed", "stranded"} => job[s].attempts < Attempts
                        /\ job[s].failures \in 0 .. Attempts - 1
                        /\ job[s].by \in Checkers \cup {Nobody}
  BY DEF TypeInv, Job, Jobs, AnyJob
<1>2. \A w \in Checkers :
        /\ check[w].pc \in {"idle", "find", "update", "refresh", "sideEffects", "reject", "complete"}
        /\ check[w].pc # "idle" => check[w].stageId \in Stages
        /\ check[w].pc \notin {"idle", "reject", "complete"} => check[w].now \in Times
        /\ check[w].pc \in {"update", "refresh", "sideEffects"} => check[w].newStatus \in STAGE_STATUS
  <2>1. SUFFICES ASSUME NEW c \in Check
                 PROVE  /\ c.pc \in {"idle", "find", "update", "refresh", "sideEffects", "reject", "complete"}
                        /\ c.pc # "idle" => c.stageId \in Stages
                        /\ c.pc \notin {"idle", "reject", "complete"} => c.now \in Times
                        /\ c.pc \in {"update", "refresh", "sideEffects"} => c.newStatus \in STAGE_STATUS
    BY DEF TypeInv
  <2>2. QED
    BY DEF Check, Idling, Finding, Updating, Following, Ending
<1>3. \A r \in Requests : request[r].pc \in {"idle", "schedule", "cancel", "done", "failed"}
  BY DEF TypeInv, Asking
<1>4. QED
  BY <1>1, <1>2, <1>3 DEF StageTypeOK, TypeInv

(* Every variable keeps its type, and a document of a stage stays one       *)
(* whoever writes it.                                                       *)
THEOREM StageTypeCorrect == Spec => []StageTypeOK
BY InitType, NextIsAny, TypeStep, TypeInvImplies, PTL DEF Spec
-----------------------------------------------------------------------------
(* The chain of checks                                                     *)

\* Time t is on the same side as from of every date, for whoever derives a status.
SameSide(d, from, t) ==
  \A b \in DATES : \/ d.dates[b] \in {Off, Epoch}
                   \/ d.dates[b] > from /\ d.dates[b] > t
                   \/ d.dates[b] < from /\ d.dates[b] < t
                   \/ b \notin ENDS /\ d.dates[b] <= from /\ d.dates[b] <= t

(* A status that was derived at from, and written, is derived again at any  *)
(* time that no boundary separates from it.                                 *)
LEMMA DeriveAgain ==
  ASSUME NEW p \in StageDoc, NEW d \in StageDoc, NEW from \in Times, NEW t \in Times,
         d = [p EXCEPT !.status = DeriveStageStatus(p, from)], SameSide(p, from, t)
  PROVE  DeriveStageStatus(d, t) = d.status
<1>1. /\ d.dates = p.dates /\ d.full = p.full
      /\ d.isPreRegistrationAllowed = p.isPreRegistrationAllowed
      /\ d.status = DeriveStageStatus(p, from)
  BY DEF StageDoc
<1>2. p.dates \in [DATES -> Date] /\ \A m \in Times : m > Epoch
  BY DocFacts, StageAssumption DEF Times, Epoch
<1> DEFINE preStart == p.dates["preRegistrationWindowStart"]
           preEnd   == p.dates["preRegistrationWindowEnd"]
           regStart == p.dates["registrationWindowStart"]
           regEnd   == p.dates["registrationWindowEnd"]
           start    == p.dates["startDate"]
           end      == p.dates["endDate"]
<1>3. /\ preStart \in Int /\ preEnd \in Int /\ regStart \in Int /\ regEnd \in Int
      /\ start \in Int /\ end \in Int /\ from \in Int /\ t \in Int
      /\ from > Epoch /\ t > Epoch /\ Epoch \in Int /\ Off # Epoch
  BY <1>2, BoundsFacts DEF DATES, Epoch, Off
<1>4. /\ After(t, end) <=> After(from, end)
      /\ Within(t, start, end) <=> Within(from, start, end)
      /\ Before(t, start) <=> Before(from, start)
  BY <1>3 DEF SameSide, DATES, ENDS, After, Before, Within
<1>5. /\ Within(t, regStart, regEnd) <=> Within(from, regStart, regEnd)
      /\ Within(t, preStart, preEnd) <=> Within(from, preStart, preEnd)
      /\ After(t, preEnd) <=> After(from, preEnd)
      /\ Before(t, regStart) <=> Before(from, regStart)
  BY <1>3 DEF SameSide, DATES, ENDS, After, Before, Within
<1>6. RegistrationStatus(d, t) = RegistrationStatus(p, from) /\ RegistrationStatus(d, t) # "FILLED"
  BY <1>1, <1>5 DEF RegistrationStatus
<1>7. QED
  BY <1>1, <1>4, <1>6 DEF DeriveStageStatus

\* Stage p after the update to status.
Updated(p, status) == [p EXCEPT !.status = status]

(* The chained check comes in time: from its schedule on, until it is due,  *)
(* no boundary is passed that the last check has not seen.                  *)
LEMMA NextIsSoonEnough ==
  ASSUME NEW p \in StageDoc, NEW d \in StageDoc, NEW from \in Times, NEW at \in Times, from <= at,
         d = Updated(p, DeriveStageStatus(p, from)), ~Missed(d, from, at),
         GetNextStageRunAt(d, at) # Off,
         NEW t \in Times, at <= t, t < GetNextStageRunAt(d, at)
  PROVE  d.status = DeriveStageStatus(d, t)
<1>1. d.dates = p.dates /\ d.dates \in [DATES -> Date]
  BY DocFacts DEF StageDoc, Updated
<1>2. ASSUME NEW b \in DATES, d.dates[b] \notin {Off, Epoch}
      PROVE  \/ d.dates[b] > from /\ d.dates[b] > t
             \/ d.dates[b] < from /\ d.dates[b] < t
             \/ b \notin ENDS /\ d.dates[b] <= from /\ d.dates[b] <= t
  <2>1. d.dates[b] \in Boundaries(d) /\ d.dates[b] \in Times
    BY <1>1, <1>2 DEF Boundaries, Date
  <2>2. d.dates[b] \in Int /\ from \in Int /\ at \in Int /\ t \in Int /\ GetNextStageRunAt(d, at) \in Int
    BY <1>1, <1>2, NextIsLeast, BoundsFacts
  <2>3. CASE d.dates[b] > at + WINDOW
    <3>1. GetNextStageRunAt(d, at) <= d.dates[b]
      BY <2>1, <2>3, NextIsLeast
    <3>2. QED
      BY <2>2, <2>3, <3>1 DEF WINDOW
  <2>4. CASE d.dates[b] <= at + WINDOW
    <3>1. ~(from < d.dates[b] \/ (b \in ENDS /\ from = d.dates[b]))
      BY <2>1, <2>4 DEF Missed
    <3>2. QED
      BY <2>2, <3>1
  <2>5. QED
    BY <2>2, <2>3, <2>4 DEF WINDOW
<1>3. SameSide(p, from, t)
  BY <1>1, <1>2 DEF SameSide
<1>4. QED
  BY <1>3, DeriveAgain DEF Updated

\* A check derived its new status from the document it read, at a time that is past.
CheckSound(c) ==
  /\ c.pc \in {"find", "update", "refresh", "sideEffects"} => c.now <= now
  /\ c.pc \in {"update", "refresh", "sideEffects"} =>
       c.newStatus = DeriveStageStatus(c.previous, c.now)

\* Until a chained job is due, the document it was scheduled for is up to date.
ChainSound(j) ==
  j.chain.known =>
    \A t \in Times : now <= t /\ t < j.runAt => j.chain.doc.status = DeriveStageStatus(j.chain.doc, t)

ChainInv ==
  /\ \A w \in Checkers : CheckSound(check[w])
  /\ \A s \in Stages : ChainSound(job[s])

\* A schedule that no check has chained owes nothing.
LEMMA UnchainedSound ==
  /\ ChainSound(NoJob) /\ ChainSound(Dead)
  /\ \A t : ChainSound(Armed(t, NoChain))
<1>1. NoChain.known = FALSE
  BY DEF NoChain
<1>2. /\ NoJob.chain = NoChain /\ Dead.chain = NoChain
      /\ \A t : Armed(t, NoChain).chain = NoChain
  BY DEF NoJob, Dead, Armed
<1>3. QED
  BY <1>1, <1>2 DEF ChainSound

\* Whatever befalls a schedule, it owes what it did, or nothing.
LEMMA OutcomesSound ==
  ASSUME NEW j \in Job, ChainSound(j)
  PROVE  /\ \A k \in AfterError(j) : ChainSound(k)
         /\ ChainSound(AfterSuccess(j)) /\ ChainSound(NotClaimed(j))
         /\ \A f : ChainSound(Again(j, f))
         /\ \A state : ChainSound([j EXCEPT !.state = state])
         /\ \A k \in HalfCancelled(j) : ChainSound(k)
         /\ \A k \in CutOff(j) : ChainSound(k)
         /\ \A new \in Job : ChainSound(new) => \A k \in Rejected(j, new) : ChainSound(k)
<1>1. ASSUME NEW i \in Job, ChainSound(i), NEW f
      PROVE  ChainSound(Stranded(i, f)) /\ ChainSound(Again(i, f))
  <2>1. /\ Again(i, f).chain = i.chain /\ Again(i, f).runAt = i.runAt
        /\ \/ Stranded(i, f) = Dead
           \/ Stranded(i, f).chain = i.chain /\ Stranded(i, f).runAt = i.runAt
    BY DEF Stranded, Again, Job, Jobs, AnyJob
  <2>2. QED
    BY <1>1, <2>1, UnchainedSound DEF ChainSound
<1>2. ASSUME NEW state
      PROVE  ChainSound([j EXCEPT !.state = state])
  <2>1. [j EXCEPT !.state = state].chain = j.chain /\ [j EXCEPT !.state = state].runAt = j.runAt
    BY DEF Job, Jobs, AnyJob
  <2>2. QED
    BY <2>1 DEF ChainSound
<1>3. ChainSound(AfterFailure(j))
  BY <1>1, UnchainedSound DEF AfterFailure
<1>4. (\A k \in AfterError(j) : ChainSound(k)) /\ ChainSound(AfterSuccess(j)) /\ ChainSound(NotClaimed(j))
  BY <1>1, <1>3, UnchainedSound DEF AfterError, AfterSuccess, NotClaimed
<1>5. \A k \in HalfCancelled(j) : ChainSound(k)
  BY <1>1 DEF HalfCancelled
<1>6. \A k \in CutOff(j) : ChainSound(k)
  BY <1>1 DEF CutOff
<1>7. \A new \in Job : ChainSound(new) => \A k \in Rejected(j, new) : ChainSound(k)
  BY <1>1, <1>5 DEF Rejected
<1>8. QED
  BY <1>1, <1>2, <1>4, <1>5, <1>6, <1>7

\* A check that ends leaves sound checks and schedules behind.
LEMMA EndCheckSound ==
  ASSUME TypeInv, ChainInv, UNCHANGED now, NEW w \in Checkers, NEW s \in Stages, NEW j,
         ChainSound(j), EndCheck(w, s, j)
  PROVE  ChainInv'
<1>1. /\ \A v \in Checkers : check'[v] = check[v] \/ check'[v] = IdleCheck
      /\ \A q \in Stages : job'[q] = job[q] \/ job'[q] = j
  BY DEF EndCheck, TypeInv
<1>2. CheckSound(IdleCheck)
  BY DEF CheckSound, IdleCheck
<1>3. (\A v \in Checkers : CheckSound(check'[v])) /\ (\A q \in Stages : ChainSound(job'[q]))
  BY <1>1, <1>2 DEF ChainInv
<1>4. QED
  BY <1>3 DEF ChainInv, CheckSound, ChainSound

\* So do the side effects, if the schedule they make is sound.
LEMMA AfterSideEffectsSound ==
  ASSUME TypeInv, ChainInv, UNCHANGED now, NEW w \in Checkers, NEW j, ChainSound(j),
         AfterSideEffects(w, j)
  PROVE  ChainInv'
<1> DEFINE ending(pc) == [pc |-> pc, stageId |-> check[w].stageId]
<1>1. /\ \A v \in Checkers : check'[v] \in {check[v], ending("complete"), ending("reject")}
      /\ \A q \in Stages : job'[q] \in {job[q], j}
  BY DEF AfterSideEffects, TypeInv
<1>2. CheckSound(ending("complete")) /\ CheckSound(ending("reject"))
  BY DEF CheckSound
<1>3. (\A v \in Checkers : CheckSound(check'[v])) /\ (\A q \in Stages : ChainSound(job'[q]))
  BY <1>1, <1>2 DEF ChainInv
<1>4. QED
  BY <1>3 DEF ChainInv, CheckSound, ChainSound

\* One slot goes on to check c, and the schedules stay or become unchained.
LEMMA MoveSound ==
  ASSUME TypeInv, ChainInv, UNCHANGED now, NEW w \in Checkers, NEW c, CheckSound(c),
         check' = [check EXCEPT ![w] = c],
         \A q \in Stages : ChainSound(job'[q])
  PROVE  ChainInv'
<1>1. \A v \in Checkers : check'[v] = check[v] \/ check'[v] = c
  BY DEF TypeInv
<1>2. \A v \in Checkers : CheckSound(check'[v])
  BY <1>1 DEF ChainInv
<1>3. QED
  BY <1>2 DEF ChainInv, CheckSound, ChainSound

\* Every step of a check keeps the chain sound.
LEMMA CheckStepChain ==
  ASSUME TypeInv, ChainInv, NEW w \in Checkers,
         StartCheck(w) \/ CheckStep(w) \/ CancelFails(w) \/ ChainFails(w) \/ CheckFails(w)
  PROVE  ChainInv'
<1>0. /\ now \in Times /\ stage \in [Stages -> StageDoc] /\ job \in [Stages -> Job]
      /\ check \in [Checkers -> Check] /\ check[w] \in Check
      /\ CheckSound(check[w]) /\ \A q \in Stages : ChainSound(job[q])
  BY DEF TypeInv, ChainInv
<1>t. now <= now
  BY <1>0, BoundsFacts
<1>1. CASE StartCheck(w)
  <2>1. PICK s \in Stages :
          /\ job' = [job EXCEPT ![s] = [NoJob EXCEPT !.state = "running", !.by = w,
                                                      !.attempts = job[s].attempts + 1,
                                                      !.failures = job[s].failures]]
          /\ check' = [check EXCEPT ![w] = [pc |-> "find", stageId |-> s, now |-> now]]
    BY <1>1 DEF StartCheck
  <2> DEFINE running == [NoJob EXCEPT !.state = "running", !.by = w,
                                      !.attempts = job[s].attempts + 1, !.failures = job[s].failures]
  <2>2. running.chain = NoChain
    BY DEF NoJob
  <2>3. ChainSound(running)
    BY <2>2 DEF ChainSound, NoChain
  <2>4. \A q \in Stages : job'[q] = job[q] \/ job'[q] = running
    BY <1>0, <2>1
  <2> HIDE DEF running
  <2>5. CheckSound([pc |-> "find", stageId |-> s, now |-> now])
    BY <1>t DEF CheckSound
  <2>6. QED
    BY <1>0, <1>1, <2>1, <2>3, <2>4, <2>5, MoveSound DEF StartCheck
<1>2. CASE FindStage(w)
  <2> DEFINE s == check[w].stageId
             newStatus == DeriveStageStatus(stage[s], check[w].now)
             found == [pc |-> "update", stageId |-> s, now |-> check[w].now,
                       previous |-> stage[s], newStatus |-> newStatus]
             over  == [pc |-> "complete", stageId |-> s]
  <2>1. UNCHANGED <<now, job>>
    BY <1>2 DEF FindStage
  <2>2. CheckSound(found) /\ CheckSound(over)
    BY <1>0, <1>2 DEF CheckSound, FindStage
  <2>3. check' = [check EXCEPT ![w] = found] \/ check' = [check EXCEPT ![w] = over]
    BY <1>2 DEF FindStage
  <2> HIDE DEF found, over
  <2>4. QED
    BY <1>0, <2>1, <2>2, <2>3, MoveSound
<1>3. CASE UpdateStage(w)
  <2>1. check[w] \in Updating
    BY <1>0, <1>3, CheckShape DEF UpdateStage
  <2>2. CheckSound([check[w] EXCEPT !.pc = "refresh"])
    BY <1>0, <1>3, <2>1 DEF CheckSound, UpdateStage, Updating
  <2>3. check' = [check EXCEPT ![w] = [check[w] EXCEPT !.pc = "refresh"]] /\ UNCHANGED <<now, job>>
    BY <1>0, <1>3 DEF UpdateStage
  <2>4. QED
    BY <1>0, <2>2, <2>3, MoveSound
<1>4. CASE RefreshStage(w)
  <2> DEFINE following == [pc |-> "sideEffects", stageId |-> check[w].stageId, now |-> check[w].now,
                           previous |-> check[w].previous, newStatus |-> check[w].newStatus,
                           refreshed |-> stage[check[w].stageId]]
  <2>1. check' = [check EXCEPT ![w] = following] /\ UNCHANGED <<now, job>>
    BY <1>4 DEF RefreshStage
  <2>2. CheckSound(following)
    BY <1>0, <1>4 DEF CheckSound, RefreshStage
  <2> HIDE DEF following
  <2>3. QED
    BY <1>0, <2>1, <2>2, MoveSound
<1>5. CASE RunStageSideEffects(w)
  <2> DEFINE d == check[w].refreshed
             p == check[w].previous
             chain == IF /\ d = [p EXCEPT !.status = check[w].newStatus]
                         /\ ~Missed(d, check[w].now, now)
                        THEN Chained(d) ELSE NoChain
             next == GetNextStageRunAt(d, now)
  <2>1. check[w] \in Following
    BY <1>0, <1>5, CheckShape DEF RunStageSideEffects
  <2>2. /\ p \in StageDoc /\ d \in StageDoc /\ check[w].now \in Times /\ check[w].stageId \in Stages
        /\ check[w].now <= now /\ check[w].newStatus = DeriveStageStatus(p, check[w].now)
    BY <1>0, <2>1 DEF Following, CheckSound
  <2>3. ASSUME next # Off
        PROVE  ChainSound(Armed(next, chain))
    <3>1. Armed(next, chain).chain = chain /\ Armed(next, chain).runAt = next
      BY DEF Armed, NoJob
    <3>2. CASE d = [p EXCEPT !.status = check[w].newStatus] /\ ~Missed(d, check[w].now, now)
      <4>0. chain = Chained(d)
        BY <3>2
      <4>1. chain.doc = d
        <5> HIDE DEF d, chain
        <5>1. QED
          BY <4>0 DEF Chained
      <4>2. \A t \in Times : now <= t /\ t < next => d.status = DeriveStageStatus(d, t)
        <5>1. next = GetNextStageRunAt(d, now) /\ now \in Times
          BY <1>0 DEF TypeInv
        <5> HIDE DEF d, p, chain, next
        <5>2. d = Updated(p, DeriveStageStatus(p, check[w].now)) /\ ~Missed(d, check[w].now, now)
          BY <2>2, <3>2 DEF Updated
        <5>3. GetNextStageRunAt(d, now) # Off
          BY <2>3, <5>1
        <5>4. ASSUME NEW t \in Times, now <= t, t < GetNextStageRunAt(d, now)
              PROVE  d.status = DeriveStageStatus(d, t)
          BY <2>2, <5>1, <5>2, <5>3, <5>4, NextIsSoonEnough
        <5>5. QED
          BY <5>1, <5>4
      <4> HIDE DEF d, chain, next
      <4>3. QED
        BY <3>1, <4>1, <4>2 DEF ChainSound
    <3>3. CASE ~(d = [p EXCEPT !.status = check[w].newStatus] /\ ~Missed(d, check[w].now, now))
      <4>1. chain = NoChain
        BY <3>3
      <4>2. QED
        BY <3>1, <4>1 DEF ChainSound, NoChain
    <3>4. QED
      BY <3>2, <3>3
  <2>4. \/ AfterSideEffects(w, NoJob)
        \/ next # Off /\ AfterSideEffects(w, Armed(next, chain))
        \/ AfterSideEffects(w, job[check[w].stageId])
    BY <1>5 DEF RunStageSideEffects, Chains, NextCheck
  <2>5. UNCHANGED now
    BY <1>5 DEF RunStageSideEffects
  <2> HIDE DEF d, p, chain, next
  <2>6. QED
    BY <1>0, <2>2, <2>3, <2>4, <2>5, AfterSideEffectsSound, UnchainedSound
<1>6. CASE CancelFails(w)
  <2>1. check[w].stageId \in Stages
    BY <1>0, <1>6, CheckShape DEF CancelFails
  <2>2. \A j \in HalfCancelled(job[check[w].stageId]) : ChainSound(j)
    BY <1>0, <2>1, OutcomesSound
  <2>3. QED
    BY <1>6, <2>2, AfterSideEffectsSound DEF CancelFails
<1>7. CASE RejectPending(w)
  <2>1. check[w] \in Ending
    BY <1>0, <1>7, CheckShape DEF RejectPending
  <2>2. CheckSound([check[w] EXCEPT !.pc = "complete"])
    BY <2>1 DEF CheckSound, Ending
  <2>3. check' = [check EXCEPT ![w] = [check[w] EXCEPT !.pc = "complete"]] /\ UNCHANGED <<now, job>>
    BY <1>0, <1>7 DEF RejectPending
  <2>4. QED
    BY <1>0, <2>2, <2>3, MoveSound
<1>8. CASE ChainFails(w)
  <2>1. check[w] \in Following
    BY <1>0, <1>8, CheckShape DEF ChainFails
  <2>2. /\ job[check[w].stageId] \in Job /\ ChainSound(job[check[w].stageId])
        /\ NextCheck(w, NoChain) \in Job /\ ChainSound(NextCheck(w, NoChain))
    BY <1>0, <2>1, ChainsType, ScheduleTypes, UnchainedSound DEF Following, NextCheck
  <2>3. PICK k \in Rejected(job[check[w].stageId], NextCheck(w, NoChain)) :
          \E j \in (IF k.by = w THEN AfterError(k) ELSE {k}) :
            job' = [job EXCEPT ![check[w].stageId] = j]
    BY <1>8 DEF ChainFails
  <2>4. PICK j \in (IF k.by = w THEN AfterError(k) ELSE {k}) :
          job' = [job EXCEPT ![check[w].stageId] = j]
    BY <2>3
  <2>5. k \in Job /\ ChainSound(k)
    BY <2>2, <2>3, OutcomesType, OutcomesSound
  <2>6. ChainSound(j)
    BY <2>4, <2>5, OutcomesSound
  <2>7. \A q \in Stages : ChainSound(job'[q])
    BY <1>0, <2>4, <2>6
  <2>8. CheckSound(IdleCheck)
    BY DEF CheckSound, IdleCheck
  <2>9. QED
    BY <1>8, <2>7, <2>8, MoveSound DEF ChainFails
<1>9. CASE CheckFails(w) \/ CompleteCheck(w)
  <2>1. check[w].stageId \in Stages
    BY <1>0, <1>9, CheckShape DEF CheckFails, CompleteCheck
  <2>2. /\ \A j \in AfterError(job[check[w].stageId]) : ChainSound(j)
        /\ ChainSound(AfterSuccess(job[check[w].stageId]))
    BY <1>0, <2>1, OutcomesSound
  <2>3. \E j : ChainSound(j) /\ EndCheck(w, check[w].stageId, j)
    BY <1>9, <2>2 DEF CheckFails, CompleteCheck
  <2>4. UNCHANGED now
    BY <1>9 DEF CheckFails, CompleteCheck
  <2>5. QED
    BY <2>1, <2>3, <2>4, EndCheckSound
<1>10. QED
  BY <1>1, <1>2, <1>3, <1>4, <1>5, <1>6, <1>7, <1>8, <1>9 DEF CheckStep

\* So does every step of a request.
LEMMA RequestStepChain ==
  ASSUME TypeInv, ChainInv, NEW r \in Requests,
         FindRequested(r) \/ FindFails(r) \/ RequestStep(r) \/ RequestFails(r)
  PROVE  ChainInv'
<1>1. UNCHANGED <<now, check>>
  BY DEF FindRequested, FindFor, FindFails, RequestStep, ScheduleRequested, CancelRequested,
         RequestFails
<1>2. \A s \in Stages : job[s] \in Job /\ ChainSound(job[s])
  BY DEF TypeInv, ChainInv
<1>3. \A s \in Stages : ChainSound(job'[s])
  <2>1. CASE FindRequested(r) \/ FindFails(r)
    BY <1>2, <2>1 DEF FindRequested, FindFor, FindFails
  <2>2. CASE RequestStep(r)
    BY <1>2, <2>2, UnchainedSound DEF TypeInv, RequestStep, ScheduleRequested, CancelRequested
  <2>3. CASE RequestFails(r)
    <3> DEFINE j == job[request[r].stageId]
    <3>1. PICK k \in (IF request[r].pc = "cancel" THEN HalfCancelled(j)
                       ELSE Rejected(j, Armed(request[r].runAt, NoChain))) :
            job' = [job EXCEPT ![request[r].stageId] = k]
      BY <2>3 DEF RequestFails
    <3>2. /\ request[r].stageId \in Stages
          /\ request[r].pc # "cancel" => request[r].runAt \in Times
      BY <2>3 DEF RequestFails, TypeInv, Asking
    <3>3. request[r].pc # "cancel" =>
            Armed(request[r].runAt, NoChain) \in Job /\ ChainSound(Armed(request[r].runAt, NoChain))
      BY <3>2, ScheduleTypes, UnchainedSound, BoundsFacts
    <3>4. ChainSound(k)
      BY <1>2, <3>1, <3>2, <3>3, OutcomesSound
    <3>5. QED
      BY <1>2, <3>1, <3>4 DEF TypeInv
  <2>4. QED
    BY <2>1, <2>2, <2>3
<1>4. QED
  BY <1>1, <1>3 DEF ChainInv, CheckSound, ChainSound

\* So do crashes, reconciliations and late updates.
LEMMA ServerStepChain ==
  ASSUME TypeInv, ChainInv, (\E s \in Stages : ClaimFails(s) \/ Repair(s) \/ MarkedLate(s))
                              \/ (\E W \in SUBSET Checkers : Crash(W))
  PROVE  ChainInv'
<1>1. \A s \in Stages : job[s] \in Job /\ ChainSound(job[s])
  BY DEF TypeInv, ChainInv
<1>2. ASSUME NEW s \in Stages, ClaimFails(s) \/ Repair(s) \/ MarkedLate(s)
      PROVE  ChainInv'
  <2>1. UNCHANGED <<now, check>> /\ job \in [Stages -> Job]
    BY <1>2 DEF TypeInv, ClaimFails, Repair, MarkedLate
  <2>2. \E j : ChainSound(j) /\ job' = [job EXCEPT ![s] = j]
    <3>1. CASE MarkedLate(s)
      <4>1. job' = [job EXCEPT ![s] = [job[s] EXCEPT !.state = "queued"]]
        BY <2>1, <3>1 DEF MarkedLate
      <4>2. QED
        BY <1>1, <4>1, OutcomesSound
    <3>2. CASE ClaimFails(s) \/ Repair(s)
      BY <1>1, <3>2, OutcomesSound DEF ClaimFails, Repair
    <3>3. QED
      BY <1>2, <3>1, <3>2
  <2>3. \A q \in Stages : ChainSound(job'[q])
    BY <1>1, <2>1, <2>2
  <2>4. QED
    BY <2>1, <2>3 DEF ChainInv, CheckSound, ChainSound
<1>3. ASSUME NEW W \in SUBSET Checkers, Crash(W)
      PROVE  ChainInv'
  <2>1. \A s \in Stages : ChainSound(job'[s])
    <3>1. SUFFICES ASSUME NEW s \in Stages
                   PROVE  ChainSound(job'[s])
      OBVIOUS
    <3>2. job'[s] \in LeftByCrash(s, W)
      BY <1>3 DEF Crash
    <3>3. PICK j : /\ job'[s] \in CutOff(j)
                   /\ \/ j \in HalfCancelled(job[s])
                      \/ \E t \in Date : j \in Rejected(job[s], Armed(t, NoChain))
      BY <3>2, CrashLeaves
    <3>4. \A t \in Date : Armed(t, NoChain) \in Job /\ ChainSound(Armed(t, NoChain))
      BY ScheduleTypes, UnchainedSound
    <3>5. j \in Job /\ ChainSound(j)
      BY <1>1, <3>3, <3>4, OutcomesType, OutcomesSound
    <3>6. QED
      BY <3>3, <3>5, OutcomesSound
  <2>2. UNCHANGED now /\ \A w \in Checkers : CheckSound(check'[w])
    BY <1>3 DEF Crash, CheckSound, IdleCheck
  <2>3. QED
    BY <2>1, <2>2 DEF ChainInv, CheckSound, ChainSound
<1>4. QED
  BY <1>2, <1>3

\* Every step leaves the chain sound.
LEMMA ChainStep == TypeInv /\ ChainInv /\ [AnyStep]_vars => ChainInv'
<1> SUFFICES ASSUME TypeInv, ChainInv, [AnyStep]_vars
             PROVE  ChainInv'
  OBVIOUS
<1>2. CASE Edit \/ UNCHANGED vars
  <2>1. UNCHANGED <<now, check, job>>
    BY <1>2 DEF Edit, vars
  <2>2. QED
    BY <2>1 DEF ChainInv, CheckSound, ChainSound
<1>3. CASE Tick
  <2>1. /\ UNCHANGED <<check, job>> /\ now' = now + 1
        /\ \A t \in Times : (now' <= t => now <= t) /\ (t <= now => t <= now')
    BY <1>3, BoundsFacts DEF Tick, TypeInv
  <2>2. \A w \in Checkers : CheckSound(check[w])'
    <3>1. SUFFICES ASSUME NEW w \in Checkers
                   PROVE  CheckSound(check[w])'
      OBVIOUS
    <3>2. check[w] \in Check /\ CheckSound(check[w])
      BY DEF TypeInv, ChainInv
    <3>3. check[w].pc \in {"find", "update", "refresh", "sideEffects"} => check[w].now \in Times
      BY <3>2 DEF Check, Idling, Finding, Updating, Following, Ending
    <3>4. QED
      BY <2>1, <3>2, <3>3 DEF CheckSound
  <2>3. \A s \in Stages : ChainSound(job[s])'
    BY <2>1 DEF ChainInv, ChainSound
  <2>4. QED
    BY <2>2, <2>3 DEF ChainInv
<1>4. QED
  BY <1>2, <1>3, CheckStepChain, RequestStepChain, ServerStepChain DEF AnyStep, Idle

(* As long as nobody changes a stage, its chained check comes before its    *)
(* status is out of date, whatever overlaps with the check that chained it. *)
THEOREM ChainSkipsNothingHolds == Spec => []ChainSkipsNothing
<1>1. Init => ChainInv
  <2>1. SUFFICES ASSUME Init
                 PROVE  ChainInv
    OBVIOUS
  <2>2. CheckSound(IdleCheck)
    BY DEF CheckSound, IdleCheck
  <2>3. QED
    BY <2>1, <2>2, UnchainedSound DEF Init, ChainInv
<1>2. TypeInv /\ ChainInv => ChainSkipsNothing
  <2>1. SUFFICES ASSUME TypeInv, ChainInv, NEW s \in Stages, job[s].chain.known,
                        job[s].chain.doc = stage[s], now < job[s].runAt
                 PROVE  stage[s].status = DeriveStageStatus(stage[s], now)
    BY DEF ChainSkipsNothing
  <2>2. now \in Times /\ now <= now
    BY <2>1, BoundsFacts DEF TypeInv
  <2>3. QED
    BY <2>1, <2>2 DEF ChainInv, ChainSound
<1>3. QED
  BY <1>1, <1>2, InitType, NextIsAny, TypeStep, ChainStep, PTL DEF Spec

-----------------------------------------------------------------------------
(* Scheduled checks                                                        *)

\* A schedule that waits to be delivered belongs to no slot: that is how a
\* check that ends knows that its own schedule has been replaced.
Free(j) == j.state = "armed" => j.by = Nobody
ArmedFree == \A s \in Stages : Free(job[s])

\* Whatever is put in a schedule's place is free.
LEMMA NewJobsFree ==
  /\ Free(NoJob) /\ Free(Dead)
  /\ \A t, chain : Armed(t, chain).state = "armed" /\ Free(Armed(t, chain))
<1>1. /\ NoJob.by = Nobody /\ Dead.by = Nobody
      /\ \A t, chain : Armed(t, chain).by = Nobody /\ Armed(t, chain).state = "armed"
  BY DEF NoJob, Dead, Armed
<1>2. QED
  BY <1>1 DEF Free

\* So is whatever befalls a schedule.
LEMMA OutcomesFreeFor ==
  ASSUME NEW D, NEW j \in Jobs(D), Free(j)
  PROVE  /\ \A k \in AfterError(j) : Free(k)
         /\ Free(AfterSuccess(j)) /\ Free(NotClaimed(j)) /\ \A f : Free(Again(j, f))
         /\ Free([j EXCEPT !.state = "queued"])
         /\ \A k \in HalfCancelled(j) : Free(k)
         /\ \A k \in CutOff(j) : Free(k)
         /\ \A new \in Jobs(D) : Free(new) => \A k \in Rejected(j, new) : Free(k)
<1>1. ASSUME NEW i \in Jobs(D), NEW f
      PROVE  Free(Stranded(i, f)) /\ Free(Again(i, f))
  <2>1. Again(i, f).by = Nobody /\ (Stranded(i, f) = Dead \/ Stranded(i, f).by = Nobody)
    BY DEF Stranded, Again, Jobs, AnyJob
  <2>2. QED
    BY <2>1, NewJobsFree DEF Free
<1>2. [j EXCEPT !.state = "queued"].state = "queued"
  BY DEF Jobs, AnyJob
<1>3. Free(AfterFailure(j)) /\ Free([j EXCEPT !.state = "queued"])
  BY <1>1, <1>2, NewJobsFree DEF AfterFailure, Free
<1>4. (\A k \in AfterError(j) : Free(k)) /\ Free(AfterSuccess(j)) /\ Free(NotClaimed(j))
  BY <1>1, <1>3, NewJobsFree DEF AfterError, AfterSuccess, NotClaimed
<1>5. \A k \in HalfCancelled(j) : Free(k)
  BY <1>1 DEF HalfCancelled
<1>6. \A k \in CutOff(j) : Free(k)
  BY <1>1 DEF CutOff
<1>7. \A new \in Jobs(D) : Free(new) => \A k \in Rejected(j, new) : Free(k)
  BY <1>1, <1>5 DEF Rejected
<1>8. QED
  BY <1>1, <1>3, <1>4, <1>5, <1>6, <1>7

\* So with a stage's schedule.
LEMMA OutcomesFree ==
  ASSUME NEW j \in Job, Free(j)
  PROVE  /\ \A k \in AfterError(j) : Free(k)
         /\ Free(AfterSuccess(j)) /\ Free(NotClaimed(j)) /\ \A f : Free(Again(j, f))
         /\ Free([j EXCEPT !.state = "queued"])
         /\ \A k \in HalfCancelled(j) : Free(k)
         /\ \A k \in CutOff(j) : Free(k)
         /\ \A new \in Job : Free(new) => \A k \in Rejected(j, new) : Free(k)
BY OutcomesFreeFor DEF Job

\* What the side effects may leave as the stage's schedule.
LEMMA SideEffectsLeave ==
  ASSUME NEW w \in Checkers, RunStageSideEffects(w)
  PROVE  \/ AfterSideEffects(w, NoJob) /\ check[w].refreshed.status \in OUT_OF_TOURNAMENT
         \/ \E t, chain : AfterSideEffects(w, Armed(t, chain))
         \/ AfterSideEffects(w, job[check[w].stageId])
<1> DEFINE d == check[w].refreshed
           chain == IF /\ d = [check[w].previous EXCEPT !.status = check[w].newStatus]
                       /\ ~Missed(d, check[w].now, now)
                      THEN Chained(d) ELSE NoChain
<1>1. \/ d.status \in OUT_OF_TOURNAMENT /\ AfterSideEffects(w, NoJob)
      \/ AfterSideEffects(w, Armed(GetNextStageRunAt(d, now), chain))
      \/ AfterSideEffects(w, job[check[w].stageId])
  BY DEF RunStageSideEffects, Cancels, NextCheck
<1> HIDE DEF chain
<1>2. QED
  BY <1>1

\* A check touches its own stage and that stage's schedule only.
LEMMA OwnStage ==
  ASSUME TypeInv, NEW w \in Checkers,
         CheckStep(w) \/ CancelFails(w) \/ ChainFails(w) \/ CheckFails(w)
  PROVE  /\ check[w].pc # "idle" /\ check[w].stageId \in Stages /\ UNCHANGED request
         /\ \A s \in Stages : s # check[w].stageId => stage'[s] = stage[s] /\ job'[s] = job[s]
         /\ \A i \in Checkers : i # w => check'[i] = check[i]
         /\ check'[w].pc # "idle" => check'[w].stageId = check[w].stageId
<1>0. /\ stage \in [Stages -> StageDoc] /\ job \in [Stages -> Job] /\ check \in [Checkers -> Check]
      /\ check[w] \in Check
  BY DEF TypeInv
<1>1. ASSUME NEW c, check' = [check EXCEPT ![w] = c], c.pc # "idle" => c.stageId = check[w].stageId
      PROVE  /\ \A i \in Checkers : i # w => check'[i] = check[i]
             /\ check'[w].pc # "idle" => check'[w].stageId = check[w].stageId
  BY <1>0, <1>1
<1>2. IdleCheck.pc = "idle"
  BY DEF IdleCheck
<1>3. check[w].pc # "idle" /\ check[w].stageId \in Stages /\ UNCHANGED request
  BY <1>0, CheckShape
  DEF CheckStep, FindStage, UpdateStage, RefreshStage, RunStageSideEffects, RejectPending,
      CompleteCheck, CancelFails, ChainFails, CheckFails
<1>4. ASSUME NEW j, EndCheck(w, check[w].stageId, j)
      PROVE  /\ check' = [check EXCEPT ![w] = IdleCheck]
             /\ \A s \in Stages : s # check[w].stageId => job'[s] = job[s]
  BY <1>0, <1>4 DEF EndCheck
<1>5. ASSUME NEW j, AfterSideEffects(w, j)
      PROVE  /\ \A i \in Checkers : i # w => check'[i] = check[i]
             /\ check'[w].pc # "idle" => check'[w].stageId = check[w].stageId
             /\ \A s \in Stages : s # check[w].stageId => job'[s] = job[s]
  BY <1>0, <1>2, <1>5 DEF AfterSideEffects
<1>6. CASE FindStage(w)
  <2> DEFINE c == [pc |-> "update", stageId |-> check[w].stageId, now |-> check[w].now,
                   previous |-> stage[check[w].stageId],
                   newStatus |-> DeriveStageStatus(stage[check[w].stageId], check[w].now)]
  <2> DEFINE e == [pc |-> "complete", stageId |-> check[w].stageId]
  <2>1. /\ UNCHANGED <<stage, job>>
        /\ check' = [check EXCEPT ![w] = c] \/ check' = [check EXCEPT ![w] = e]
    BY <1>6 DEF FindStage
  <2>2. c.stageId = check[w].stageId /\ e.stageId = check[w].stageId
    OBVIOUS
  <2> HIDE DEF c, e
  <2>3. QED
    BY <1>1, <1>3, <2>1, <2>2
<1>7. CASE UpdateStage(w)
  <2>1. check[w] \in Updating
    BY <1>0, <1>7, CheckShape DEF UpdateStage
  <2>2. [check[w] EXCEPT !.pc = "refresh"].stageId = check[w].stageId
    BY <2>1 DEF Updating
  <2>3. check' = [check EXCEPT ![w] = [check[w] EXCEPT !.pc = "refresh"]] /\ UNCHANGED job
    BY <1>0, <1>7 DEF UpdateStage
  <2>4. \A s \in Stages : s # check[w].stageId => stage'[s] = stage[s]
    BY <1>0, <1>7 DEF UpdateStage
  <2>5. QED
    BY <1>1, <1>3, <2>2, <2>3, <2>4
<1>8. CASE RefreshStage(w)
  BY <1>0, <1>3, <1>8 DEF RefreshStage
<1>9. CASE RunStageSideEffects(w)
  <2>1. UNCHANGED stage /\ \E j : AfterSideEffects(w, j)
    BY <1>9, SideEffectsLeave DEF RunStageSideEffects
  <2>2. QED
    BY <1>3, <1>5, <2>1
<1>10. CASE CancelFails(w)
  BY <1>3, <1>5, <1>10 DEF CancelFails
<1>11. CASE CheckFails(w) \/ CompleteCheck(w)
  <2>1. UNCHANGED stage /\ \E j : EndCheck(w, check[w].stageId, j)
    BY <1>11 DEF CheckFails, CompleteCheck
  <2>2. QED
    BY <1>1, <1>2, <1>3, <1>4, <2>1
<1>12. CASE ChainFails(w)
  BY <1>0, <1>1, <1>2, <1>3, <1>12 DEF ChainFails
<1>13. CASE RejectPending(w)
  <2>1. check[w] \in Ending
    BY <1>0, <1>13, CheckShape DEF RejectPending
  <2>2. [check[w] EXCEPT !.pc = "complete"].stageId = check[w].stageId
    BY <2>1 DEF Ending
  <2>3. check' = [check EXCEPT ![w] = [check[w] EXCEPT !.pc = "complete"]] /\ UNCHANGED job
    BY <1>0, <1>13 DEF RejectPending
  <2>4. \A s \in Stages : s # check[w].stageId => stage'[s] = stage[s]
    BY <1>0, <1>13 DEF RejectPending
  <2>5. QED
    BY <1>1, <1>3, <2>2, <2>3, <2>4
<1>14. QED
  BY <1>6, <1>7, <1>8, <1>9, <1>10, <1>11, <1>12, <1>13 DEF CheckStep

\* Every step of a check leaves the waiting schedules free.
LEMMA CheckStepFree ==
  ASSUME TypeInv, ArmedFree, NEW w \in Checkers,
         StartCheck(w) \/ CheckStep(w) \/ CancelFails(w) \/ ChainFails(w) \/ CheckFails(w)
  PROVE  ArmedFree'
<1>0. job \in [Stages -> Job] /\ \A s \in Stages : Free(job[s])
  BY DEF TypeInv, ArmedFree
<1>1. SUFFICES ASSUME NEW s \in Stages
               PROVE  Free(job'[s])
  BY DEF ArmedFree, Free
<1>2. ASSUME NEW q \in Stages, NEW j, Free(j), EndCheck(w, q, j)
      PROVE  Free(job'[s])
  BY <1>0, <1>2 DEF EndCheck
<1>3. ASSUME NEW j, Free(j), AfterSideEffects(w, j)
      PROVE  Free(job'[s])
  BY <1>0, <1>3, NewJobsFree DEF AfterSideEffects
<1>4. check[w].pc # "idle" => check[w].stageId \in Stages
  BY CheckShape DEF TypeInv
<1>5. CASE StartCheck(w)
  <2>1. PICK q \in Stages :
          job' = [job EXCEPT ![q] = [NoJob EXCEPT !.state = "running", !.by = w,
                                                  !.attempts = job[q].attempts + 1,
                                                  !.failures = job[q].failures]]
    BY <1>5 DEF StartCheck
  <2> DEFINE running == [NoJob EXCEPT !.state = "running", !.by = w,
                                      !.attempts = job[q].attempts + 1, !.failures = job[q].failures]
  <2>2. running.state = "running"
    BY DEF NoJob
  <2>3. job' = [job EXCEPT ![q] = running]
    BY <2>1
  <2> HIDE DEF running
  <2>4. Free(running)
    BY <2>2 DEF Free
  <2>5. QED
    BY <1>0, <2>3, <2>4
<1>6. CASE RunStageSideEffects(w) \/ CancelFails(w)
  <2>1. job[check[w].stageId] \in Job /\ Free(job[check[w].stageId])
    BY <1>0, <1>4, <1>6 DEF RunStageSideEffects, CancelFails
  <2>2. \E j : Free(j) /\ AfterSideEffects(w, j)
    BY <1>6, <2>1, NewJobsFree, OutcomesFree, SideEffectsLeave DEF CancelFails
  <2>3. QED
    BY <1>3, <2>2
<1>7. CASE CheckFails(w) \/ CompleteCheck(w)
  <2>1. job[check[w].stageId] \in Job /\ Free(job[check[w].stageId]) /\ check[w].stageId \in Stages
    BY <1>0, <1>4, <1>7 DEF CheckFails, CompleteCheck
  <2>2. \E j : Free(j) /\ EndCheck(w, check[w].stageId, j)
    BY <1>7, <2>1, OutcomesFree DEF CheckFails, CompleteCheck
  <2>3. QED
    BY <1>2, <2>1, <2>2
<1>8. CASE FindStage(w) \/ UpdateStage(w) \/ RefreshStage(w) \/ RejectPending(w)
  BY <1>0, <1>8 DEF FindStage, UpdateStage, RefreshStage, RejectPending
<1>9. CASE ChainFails(w)
  <2>1. check[w] \in Following
    BY <1>9, CheckShape DEF ChainFails, TypeInv
  <2>2. /\ job[check[w].stageId] \in Job /\ Free(job[check[w].stageId])
        /\ NextCheck(w, NoChain) \in Job /\ Free(NextCheck(w, NoChain))
    BY <1>0, <2>1, ChainsType, ScheduleTypes, NewJobsFree DEF Following, NextCheck, TypeInv
  <2>3. PICK k \in Rejected(job[check[w].stageId], NextCheck(w, NoChain)) :
          \E j \in (IF k.by = w THEN AfterError(k) ELSE {k}) :
            job' = [job EXCEPT ![check[w].stageId] = j]
    BY <1>9 DEF ChainFails
  <2>4. PICK j \in (IF k.by = w THEN AfterError(k) ELSE {k}) :
          job' = [job EXCEPT ![check[w].stageId] = j]
    BY <2>3
  <2>5. k \in Job /\ Free(k)
    BY <2>2, <2>3, OutcomesType, OutcomesFree
  <2>6. Free(j)
    BY <2>4, <2>5, OutcomesFree
  <2>7. QED
    BY <1>0, <2>4, <2>6
<1>10. QED
  BY <1>5, <1>6, <1>7, <1>8, <1>9 DEF CheckStep

\* So does every step of a request.
LEMMA RequestStepFree ==
  ASSUME TypeInv, ArmedFree, NEW r \in Requests,
         FindRequested(r) \/ FindFails(r) \/ RequestStep(r) \/ RequestFails(r)
  PROVE  ArmedFree'
<1>1. \A s \in Stages : job[s] \in Job /\ Free(job[s])
  BY DEF TypeInv, ArmedFree
<1>2. \A s \in Stages : Free(job'[s])
  <2>1. CASE FindRequested(r) \/ FindFails(r)
    BY <1>1, <2>1 DEF FindRequested, FindFor, FindFails
  <2>2. CASE RequestStep(r)
    BY <1>1, <2>2, NewJobsFree DEF TypeInv, RequestStep, ScheduleRequested, CancelRequested
  <2>3. CASE RequestFails(r)
    <3> DEFINE j == job[request[r].stageId]
    <3>1. PICK k \in (IF request[r].pc = "cancel" THEN HalfCancelled(j)
                       ELSE Rejected(j, Armed(request[r].runAt, NoChain))) :
            job' = [job EXCEPT ![request[r].stageId] = k]
      BY <2>3 DEF RequestFails
    <3>2. /\ request[r].stageId \in Stages
          /\ request[r].pc # "cancel" => request[r].runAt \in Times
      BY <2>3 DEF RequestFails, TypeInv, Asking
    <3>3. request[r].pc # "cancel" =>
            Armed(request[r].runAt, NoChain) \in Job /\ Free(Armed(request[r].runAt, NoChain))
      BY <3>2, ScheduleTypes, NewJobsFree, BoundsFacts
    <3>4. Free(k)
      BY <1>1, <3>1, <3>2, <3>3, OutcomesFree
    <3>5. QED
      BY <1>1, <3>1, <3>4 DEF TypeInv
  <2>4. QED
    BY <2>1, <2>2, <2>3
<1>3. QED
  BY <1>2 DEF ArmedFree, Free

\* So do crashes, reconciliations and late updates.
LEMMA ServerStepFree ==
  ASSUME TypeInv, ArmedFree, (\E s \in Stages : ClaimFails(s) \/ Repair(s) \/ MarkedLate(s))
                               \/ (\E W \in SUBSET Checkers : Crash(W))
  PROVE  ArmedFree'
<1>1. \A s \in Stages : job[s] \in Job /\ Free(job[s])
  BY DEF TypeInv, ArmedFree
<1>2. ASSUME NEW s \in Stages, ClaimFails(s) \/ Repair(s) \/ MarkedLate(s)
      PROVE  \A q \in Stages : Free(job'[q])
  <2>1. job \in [Stages -> Job]
    BY DEF TypeInv
  <2>2. \E j : Free(j) /\ job' = [job EXCEPT ![s] = j]
    <3>1. CASE MarkedLate(s)
      <4>1. job' = [job EXCEPT ![s] = [job[s] EXCEPT !.state = "queued"]]
        BY <2>1, <3>1 DEF MarkedLate
      <4>2. QED
        BY <1>1, <4>1, OutcomesFree
    <3>2. CASE ClaimFails(s) \/ Repair(s)
      BY <1>1, <3>2, OutcomesFree DEF ClaimFails, Repair
    <3>3. QED
      BY <1>2, <3>1, <3>2
  <2>3. QED
    BY <1>1, <2>1, <2>2
<1>3. ASSUME NEW W \in SUBSET Checkers, Crash(W), NEW s \in Stages
      PROVE  Free(job'[s])
  <2>1. job'[s] \in LeftByCrash(s, W)
    BY <1>3 DEF Crash
  <2>2. PICK j : /\ job'[s] \in CutOff(j)
                 /\ \/ j \in HalfCancelled(job[s])
                    \/ \E t \in Date : j \in Rejected(job[s], Armed(t, NoChain))
    BY <2>1, CrashLeaves
  <2>3. \A t \in Date : Armed(t, NoChain) \in Job /\ Free(Armed(t, NoChain))
    BY ScheduleTypes, NewJobsFree
  <2>4. j \in Job /\ Free(j)
    BY <1>1, <2>2, <2>3, OutcomesType, OutcomesFree
  <2>5. QED
    BY <2>2, <2>4, OutcomesFree
<1>4. QED
  BY <1>2, <1>3 DEF ArmedFree, Free

\* So does every step.
LEMMA FreeStep == TypeInv /\ ArmedFree /\ [AnyStep]_vars => ArmedFree'
<1> SUFFICES ASSUME TypeInv, ArmedFree, [AnyStep]_vars
             PROVE  ArmedFree'
  OBVIOUS
<1>1. CASE Edit \/ Tick \/ Idle \/ UNCHANGED vars
  BY <1>1 DEF Edit, Tick, Idle, vars, ArmedFree, Free
<1>2. QED
  BY <1>1, CheckStepFree, RequestStepFree, ServerStepFree DEF AnyStep

\* A schedule that waits is not ended by a check, but by one that cancels it.
LEMMA ArmedStays ==
  ASSUME TypeInv, ArmedFree, NEW w \in Checkers, CheckStep(w), NEW s \in Stages,
         job[s].state = "armed", job'[s].state # "armed"
  PROVE  CancelUnderWay(s)
<1>0. job \in [Stages -> Job] /\ job[s].by # w
  BY NobodyAssumption DEF TypeInv, ArmedFree, Free
<1>1. s = check[w].stageId
  BY OwnStage
<1>2. ~CompleteCheck(w)
  BY <1>0, <1>1 DEF CompleteCheck, EndCheck
<1>3. RunStageSideEffects(w)
  BY <1>2 DEF CheckStep, FindStage, UpdateStage, RefreshStage, RejectPending
<1>4. ~AfterSideEffects(w, job[check[w].stageId])
  BY <1>0, <1>1 DEF AfterSideEffects
<1>5. ASSUME NEW t, NEW chain
      PROVE  ~AfterSideEffects(w, Armed(t, chain))
  <2>1. Armed(t, chain).state = "armed" /\ Armed(t, chain).by # w
    BY NewJobsFree, NobodyAssumption DEF Free
  <2>2. QED
    BY <1>0, <1>1, <2>1 DEF AfterSideEffects
<1>6. check[w].refreshed.status \in OUT_OF_TOURNAMENT
  BY <1>3, <1>4, <1>5, SideEffectsLeave
<1>7. QED
  BY <1>1, <1>3, <1>6 DEF CancelUnderWay, Cancelling, Cancels, RunStageSideEffects

\* What may cost stage s the check that is scheduled for it.
CheckExcused(s) == \/ \E w \in Checkers : StartCheck(w) /\ check'[w].stageId = s
                   \/ CancelUnderWay(s) \/ Fault

\* A schedule that waits comes to its check, or is lost for one of the reasons.
LEMMA ScheduledStep ==
  ASSUME TypeInv, ArmedFree, [AnyStep]_vars, NEW s \in Stages,
         job[s].state = "armed", job'[s].state # "armed"
  PROVE  CheckExcused(s)
<1>0. job \in [Stages -> Job] /\ check \in [Checkers -> Check]
  BY DEF TypeInv
<1>1. ASSUME NEW w \in Checkers, StartCheck(w)
      PROVE  CheckExcused(s)
  <2>1. PICK q \in Stages :
          /\ job' = [job EXCEPT ![q] = [NoJob EXCEPT !.state = "running", !.by = w,
                                                      !.attempts = job[q].attempts + 1,
                                                      !.failures = job[q].failures]]
          /\ check' = [check EXCEPT ![w] = [pc |-> "find", stageId |-> q, now |-> now]]
    BY <1>1 DEF StartCheck
  <2>2. q # s => job'[s] = job[s]
    BY <1>0, <2>1
  <2>3. q = s
    BY <2>2
  <2>4. check'[w].stageId = s
    BY <1>0, <2>1, <2>3
  <2>5. QED
    BY <1>1, <2>4 DEF CheckExcused
<1>2. ASSUME NEW w \in Checkers, CheckStep(w)
      PROVE  CheckExcused(s)
  BY <1>2, ArmedStays DEF CheckExcused
<1>3. ASSUME NEW w \in Checkers, CancelFails(w) \/ ChainFails(w) \/ CheckFails(w)
      PROVE  CheckExcused(s)
  BY <1>3 DEF CheckExcused, CancelFails, ChainFails, CheckFails
<1>4. ASSUME NEW r \in Requests, RequestStep(r)
      PROVE  CheckExcused(s)
  <2>1. CASE ScheduleRequested(r)
    BY <1>0, <2>1, NewJobsFree DEF ScheduleRequested
  <2>2. CASE CancelRequested(r)
    BY <1>0, <2>2 DEF CheckExcused, CancelRequested, CancelUnderWay, Cancelling
  <2>3. QED
    BY <1>4, <2>1, <2>2 DEF RequestStep
<1>5. ASSUME NEW r \in Requests, RequestFails(r)
      PROVE  CheckExcused(s)
  BY <1>5 DEF CheckExcused, RequestFails
<1>6. CASE \/ \E r \in Requests : FindRequested(r) \/ FindFails(r)
           \/ Edit \/ Tick \/ Idle \/ UNCHANGED vars
  BY <1>6 DEF FindRequested, FindFor, FindFails, Edit, Tick, Idle, vars
<1>7. ASSUME NEW q \in Stages, Repair(q)
      PROVE  CheckExcused(s)
  <2>1. q # s => job'[s] = job[s]
    BY <1>0, <1>7 DEF Repair
  <2>2. QED
    BY <1>7, <2>1 DEF Repair
<1>8. CASE \/ \E q \in Stages : ClaimFails(q) \/ MarkedLate(q)
           \/ \E W \in SUBSET Checkers : Crash(W)
  BY <1>8 DEF CheckExcused, ClaimFails, MarkedLate, Crash
<1>9. QED
  BY <1>1, <1>2, <1>3, <1>4, <1>5, <1>6, <1>7, <1>8 DEF AnyStep

(* A check of a stage that is scheduled is made, however checks, retries    *)
(* and requests overlap: only a fault costs it, or somebody who saw the     *)
(* stage out of the tournament.                                             *)
THEOREM ScheduledCheckIsMadeHolds == Spec => ScheduledCheckIsMade
<1>1. Init => ArmedFree
  BY NewJobsFree DEF Init, ArmedFree
<1>2. TypeInv /\ ArmedFree /\ [AnyStep]_vars =>
        [\A s \in Stages : job[s].state = "armed" /\ job'[s].state # "armed" => CheckExcused(s)]_vars
  BY ScheduledStep
<1>3. QED
  BY <1>1, <1>2, InitType, NextIsAny, TypeStep, FreeStep, PTL DEF Spec, ScheduledCheckIsMade, CheckExcused

-----------------------------------------------------------------------------
(* Retired stages                                                          *)

\* The death of the process leaves nothing to check of a stage that nobody checks or
\* is about to.
LEMMA CrashSpares ==
  ASSUME TypeInv, NEW W \in SUBSET Checkers, Crash(W), NEW s \in Stages, Retired(s)
  PROVE  job'[s] = job[s]
<1>1. Scheduling(s, W) = {}
  BY DEF Retired, Scheduling
<1>2. HalfCancelled(job[s]) = {job[s]} /\ CutOff(job[s]) = {job[s]}
  BY DEF Retired, HalfCancelled, CutOff, RUNNING
<1>3. LeftByCrash(s, W) = {job[s]}
  BY <1>1, <1>2 DEF LeftByCrash
<1>4. job'[s] \in LeftByCrash(s, W)
  BY DEF Crash
<1>5. QED
  BY <1>3, <1>4

\* A stage that is out of the tournament and that nobody checks or is about to
\* check is not put back.
LEMMA RetiredStep ==
  ASSUME TypeInv, [AnyStep]_vars, NEW s \in Stages, Retired(s)
  PROVE  Retired(s)'
<1>0. /\ stage \in [Stages -> StageDoc] /\ job \in [Stages -> Job] /\ check \in [Checkers -> Check]
      /\ request \in [Requests -> Asking]
  BY DEF TypeInv
<1>1. /\ stage[s].status \in OUT_OF_TOURNAMENT /\ job[s].state \in {"none", "dead"}
      /\ \A i \in Checkers : check[i].pc # "idle" => check[i].stageId # s
      /\ \A i \in Requests : request[i].pc = "schedule" => request[i].stageId # s
  BY DEF Retired
<1>2. ASSUME NEW w \in Checkers, StartCheck(w)
      PROVE  Retired(s)'
  <2>1. PICK q \in Stages :
          /\ job[q].state = "armed"
          /\ job' = [job EXCEPT ![q] = [NoJob EXCEPT !.state = "running", !.by = w,
                                                      !.attempts = job[q].attempts + 1,
                                                      !.failures = job[q].failures]]
          /\ check' = [check EXCEPT ![w] = [pc |-> "find", stageId |-> q, now |-> now]]
    BY <1>2 DEF StartCheck
  <2>2. q # s /\ UNCHANGED <<stage, request>>
    BY <1>1, <1>2, <2>1 DEF StartCheck
  <2>3. job'[s] = job[s]
    BY <1>0, <2>1, <2>2
  <2>4. \A i \in Checkers : check'[i].pc # "idle" => check'[i].stageId # s
    BY <1>0, <1>1, <2>1, <2>2
  <2>5. QED
    BY <1>1, <2>2, <2>3, <2>4 DEF Retired
<1>3. ASSUME NEW w \in Checkers,
             CheckStep(w) \/ CancelFails(w) \/ ChainFails(w) \/ CheckFails(w)
      PROVE  Retired(s)'
  <2>1. /\ check[w].pc # "idle" /\ UNCHANGED request
        /\ \A q \in Stages : q # check[w].stageId => stage'[q] = stage[q] /\ job'[q] = job[q]
        /\ \A i \in Checkers : i # w => check'[i] = check[i]
        /\ check'[w].pc # "idle" => check'[w].stageId = check[w].stageId
    BY <1>3, OwnStage
  <2>2. stage'[s] = stage[s] /\ job'[s] = job[s]
    BY <1>1, <2>1
  <2>3. \A i \in Checkers : check'[i].pc # "idle" => check'[i].stageId # s
    BY <1>1, <2>1
  <2>4. QED
    BY <1>1, <2>1, <2>2, <2>3 DEF Retired
<1>4. ASSUME NEW r \in Requests, FindRequested(r) \/ FindFails(r)
      PROVE  Retired(s)'
  <2>0. CASE FindFails(r)
    BY <1>0, <1>1, <2>0 DEF FindFails, Retired
  <2> SUFFICES ASSUME FindRequested(r)
               PROVE  Retired(s)'
    BY <1>4, <2>0
  <2>1. PICK q \in Stages, delay \in Delays : FindFor(r, q, now + delay)
    BY DEF FindRequested
  <2>2. \A i \in Requests : request'[i].pc = "schedule" => request'[i].stageId # s
    BY <1>0, <1>1, <2>1 DEF FindFor
  <2>3. QED
    BY <1>1, <2>1, <2>2 DEF FindFor, Retired
<1>5. ASSUME NEW r \in Requests, RequestStep(r) \/ RequestFails(r)
      PROVE  Retired(s)'
  <2>1. \A i \in Requests : request'[i] = request[i] \/ request'[i].pc # "schedule"
    BY <1>0, <1>5 DEF RequestStep, ScheduleRequested, CancelRequested, RequestFails
  <2>2. UNCHANGED <<stage, check>>
    BY <1>5 DEF RequestStep, ScheduleRequested, CancelRequested, RequestFails
  <2>3. job'[s].state \in {"none", "dead"}
    <3>1. NoJob.state = "none"
      BY DEF NoJob
    <3>2. CASE ScheduleRequested(r)
      BY <1>0, <1>1, <3>2 DEF ScheduleRequested
    <3>3. CASE CancelRequested(r)
      BY <1>0, <1>1, <3>1, <3>3 DEF CancelRequested
    <3>4. CASE RequestFails(r)
      <4>1. CASE request[r].stageId = s
        <5>1. request[r].pc = "cancel" /\ HalfCancelled(job[s]) = {job[s]}
          BY <1>1, <3>4, <4>1 DEF RequestFails, HalfCancelled
        <5>2. QED
          BY <1>0, <1>1, <3>4, <4>1, <5>1 DEF RequestFails
      <4>2. CASE request[r].stageId # s
        BY <1>0, <1>1, <3>4, <4>2 DEF RequestFails
      <4>3. QED
        BY <4>1, <4>2
    <3>5. QED
      BY <1>5, <3>2, <3>3, <3>4 DEF RequestStep
  <2>4. QED
    BY <1>1, <2>1, <2>2, <2>3 DEF Retired
<1>6. CASE Edit
  <2>1. PICK q \in Stages :
          \/ \E full \in BOOLEAN : stage' = [stage EXCEPT ![q].full = full, ![q].pending = TRUE]
          \/ \E status \in {"POSTPONED", "DELETED"} : stage' = [stage EXCEPT ![q].status = status]
          \/ \E dates \in Timetables : stage' = [stage EXCEPT ![q].dates = dates]
    BY <1>6 DEF Edit
  <2>2. stage'[s].status \in {"POSTPONED", "DELETED", stage[s].status}
    <3>1. ASSUME NEW full \in BOOLEAN, stage' = [stage EXCEPT ![q].full = full, ![q].pending = TRUE]
          PROVE  stage'[s].status = stage[s].status
      BY <1>0, <3>1 DEF StageDoc
    <3>2. ASSUME NEW status \in {"POSTPONED", "DELETED"}, stage' = [stage EXCEPT ![q].status = status]
          PROVE  stage'[s].status \in {status, stage[s].status}
      BY <1>0, <3>2 DEF StageDoc
    <3>3. ASSUME NEW dates \in Timetables, stage' = [stage EXCEPT ![q].dates = dates]
          PROVE  stage'[s].status = stage[s].status
      BY <1>0, <3>3 DEF StageDoc
    <3>4. QED
      BY <2>1, <3>1, <3>2, <3>3
  <2>3. stage'[s].status \in OUT_OF_TOURNAMENT
    BY <1>1, <2>2 DEF OUT_OF_TOURNAMENT
  <2>4. QED
    BY <1>1, <1>6, <2>3 DEF Edit, Retired
<1>7. CASE Tick \/ Idle \/ UNCHANGED vars
  BY <1>1, <1>7 DEF Tick, Idle, vars, Retired
<1>8. ASSUME NEW q \in Stages, ClaimFails(q) \/ Repair(q) \/ MarkedLate(q)
      PROVE  Retired(s)'
  <2>1. q # s /\ UNCHANGED <<stage, check, request>>
    BY <1>1, <1>8 DEF ClaimFails, Repair, MarkedLate
  <2>2. job'[s] = job[s]
    BY <1>0, <1>8, <2>1 DEF ClaimFails, Repair, MarkedLate
  <2>3. QED
    BY <1>1, <2>1, <2>2 DEF Retired
<1>9. ASSUME NEW W \in SUBSET Checkers, Crash(W)
      PROVE  Retired(s)'
  <2>1. job'[s] = job[s]
    BY <1>9, CrashSpares
  <2>2. /\ UNCHANGED stage /\ \A i \in Checkers : check'[i].pc = "idle"
        /\ \A i \in Requests : request'[i].pc = "schedule" => request'[i].stageId # s
    BY <1>0, <1>1, <1>9 DEF Crash, IdleCheck
  <2>3. QED
    BY <1>1, <2>1, <2>2 DEF Retired
<1>10. QED
  BY <1>2, <1>3, <1>4, <1>5, <1>6, <1>7, <1>8, <1>9 DEF AnyStep

(* A postponed, deleted or completed stage that no check, request or        *)
(* schedule of before is left for stays out of the tournament and is not    *)
(* checked any more, crashes and reconciliations included.                  *)
THEOREM RetiredForGoodHolds == Spec => RetiredForGood
<1>1. TypeInv /\ [AnyStep]_vars => [\A s \in Stages : Retired(s) => Retired(s)']_vars
  BY RetiredStep
<1>2. QED
  BY <1>1, InitType, NextIsAny, TypeStep, PTL DEF Spec, RetiredForGood
=============================================================================
