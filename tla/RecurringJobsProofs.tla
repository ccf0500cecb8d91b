--------------------------- MODULE RecurringJobsProofs ---------------------------
(***************************************************************************)
(* Theorems about RecurringJobs, for every list of jobs, every period,     *)
(* number of slots and attempts, and any number of exits and faults.       *)
(***************************************************************************)
EXTENDS RecurringJobs, SequenceTheorems, TLAPS

Processes == {"down", "starting", "setup", "up"}
States    == OPEN \cup {"none", "completed", "dead_letter", "cancelled"}
Job       == [state : States, runAt : Times, attempts : 0 .. Attempts,
              failures : 0 .. Attempts - 1, by : Slots \cup {Nobody}]
Slot      == [pc : {"idle", "handler", "complete"}, job : JobIds]
Spent     == [exits : 0 .. MaxExits, faults : 0 .. MaxFaults, cancels : 0 .. MaxCancels]

(* A schedule that waits for its delivery has an attempt left; the slot     *)
(* that a running one names runs it; and a run whose handler has succeeded  *)
(* has its next occurrence under way, or the error of it logged.            *)
ArmedHasAttempts == \A r \in JobIds : job[r].state = "armed" => job[r].attempts < Attempts
RunnersRun ==
  \A r \in JobIds, w \in Slots :
    job[r].by = w => /\ job[r].state \in {"running", "queued"}
                     /\ slot[w].pc # "idle" /\ slot[w].job = r
SuccessIsChained ==
  \A w \in Slots : slot[w].pc = "complete" /\ job[slot[w].job].by = w =>
                     Chaining(slot[w].job) \/ slot[w].job \in gaveUp

TypeInv == RecurringTypeOK /\ ArmedHasAttempts
GapInv  == RunnersRun /\ SuccessIsChained /\ ChainHasNoGap

-----------------------------------------------------------------------------
\* The bounds are natural numbers, and a job has at least one attempt.
LEMMA BoundsFacts ==
  /\ MaxTime \in Nat /\ MaxExits \in Nat /\ MaxFaults \in Nat /\ MaxCancels \in Nat
  /\ Period \in Nat /\ Period >= 1 /\ Attempts \in Nat /\ Attempts >= 1
BY RecurringAssumption

(* The next occurrence is later than the second that follows, and no more   *)
(* than a period away from it.                                              *)
LEMMA NextRunAtBounds ==
  ASSUME NEW t \in 0 .. MaxTime
  PROVE  NextRunAt(t) \in Times /\ NextRunAt(t) > t + 1
<1>1. t + 1 \in Nat /\ Period \in Nat /\ Period > 0 /\ MaxTime \in Nat
  BY BoundsFacts
<1> DEFINE q == (t + 1) \div Period
           m == (t + 1) % Period
<1>2. q \in Int /\ m \in 0 .. Period - 1 /\ t + 1 = Period * q + m
  BY <1>1
<1> HIDE DEF q, m
<1>3. (q + 1) * Period = Period * q + Period
  BY <1>1, <1>2
<1>4. Period * q \in Int
  BY <1>1, <1>2
<1>5. NextRunAt(t) = Period * q + Period
  BY <1>3 DEF NextRunAt, q
<1>6. QED
  BY <1>1, <1>2, <1>4, <1>5 DEF Times

\* A schedule that is armed for an occurrence has the type of a job.
LEMMA ArmedType ==
  ASSUME NEW t \in Times
  PROVE  /\ Armed(t) \in Job /\ Stranded(Armed(t)) \in Job
         /\ Armed(t).state = "armed" /\ Armed(t).attempts < Attempts /\ Armed(t).by = Nobody
         /\ Stranded(Armed(t)).state = "stranded" /\ Stranded(Armed(t)).by = Nobody
<1>1. 0 \in 0 .. Attempts /\ 0 \in 0 .. Attempts - 1 /\ 0 < Attempts
  BY BoundsFacts
<1>2. QED
  BY <1>1 DEF Armed, NoJob, Stranded, Job, States, OPEN

\* A run that fails leaves a job that nobody runs, an armed one with attempts left.
LEMMA AfterFailureType ==
  ASSUME NEW j \in Job
  PROVE  /\ AfterFailure(j) \in Job /\ AfterFailure(j).by = Nobody
         /\ AfterFailure(j).state \in {"armed", "stranded", "dead_letter"}
         /\ AfterFailure(j).state = "armed" => AfterFailure(j).attempts < Attempts
         /\ Stranded(j) \in Job /\ Stranded(j).state = "stranded" /\ Stranded(j).by = Nobody
<1>1. 0 \in 0 .. Attempts - 1
  BY BoundsFacts
<1>2. Stranded(j) \in Job /\ Stranded(j).state = "stranded" /\ Stranded(j).by = Nobody
  BY <1>1 DEF Stranded, Job, States, OPEN
<1>3. CASE j.failures + 1 < Attempts
  <2>1. j.failures + 1 \in 0 .. Attempts - 1
    BY <1>3, BoundsFacts DEF Job
  <2>2. QED
    BY <1>2, <1>3, <2>1 DEF AfterFailure, Job, States, OPEN
<1>4. CASE ~(j.failures + 1 < Attempts)
  BY <1>1, <1>2, <1>4 DEF AfterFailure, Job, States, OPEN
<1>5. QED
  BY <1>3, <1>4

\* A delivery that markRunning did not claim is made again or leaves its job.
LEMMA NotClaimedType ==
  ASSUME NEW j \in Job, j.state = "armed"
  PROVE  /\ NotClaimed(j) \in Job
         /\ NotClaimed(j).state \in {"armed", "stranded"}
         /\ NotClaimed(j).attempts = j.attempts
         /\ j.by = Nobody => NotClaimed(j).by = Nobody
<1>1. CASE j.failures + 1 < Attempts
  <2>1. j.failures + 1 \in 0 .. Attempts - 1
    BY <1>1, BoundsFacts DEF Job
  <2>2. QED
    BY <1>1, <2>1 DEF NotClaimed, Job
<1>2. CASE ~(j.failures + 1 < Attempts)
  BY <1>2, AfterFailureType DEF NotClaimed, Stranded, Job
<1>3. QED
  BY <1>1, <1>2

\* A run that succeeds leaves a completed job, or one that a late markQueued left open.
LEMMA AfterSuccessType ==
  ASSUME NEW j \in Job
  PROVE  /\ AfterSuccess(j) \in Job /\ AfterSuccess(j).by = Nobody
         /\ AfterSuccess(j).state = IF j.state = "queued" THEN "stranded" ELSE "completed"
BY AfterFailureType DEF AfterSuccess, Job, States

\* A rejected schedule() leaves the job it found, or one that nobody runs.
LEMMA RejectedType ==
  ASSUME NEW j \in Job, NEW t \in Times, NEW k \in Rejected(j, t)
  PROVE  /\ k \in Job
         /\ k = j \/ (k.state \in {"armed", "stranded"} /\ k.by = Nobody)
         /\ k.state = "armed" => k = j \/ k.attempts < Attempts
BY ArmedType, AfterFailureType DEF Rejected

\* The reconciliation leaves a job to the slot that runs it, and opens none.
LEMMA ReconciledType ==
  ASSUME NEW j \in Job, NEW k \in Reconciled(j)
  PROVE  /\ k \in Job /\ k.by = j.by
         /\ k = j \/ j.by = Nobody \/ k.state = "queued"
         /\ k.state = "armed" => k = j \/ k.attempts < Attempts
         /\ k.state \in OPEN => j.state \in OPEN
<1>1. 0 \in 0 .. Attempts - 1
  BY BoundsFacts
<1>2. CASE k = j
  BY <1>2
<1>3. CASE Repairable(j) /\ k \in Repaired(j)
  BY <1>1, <1>3 DEF Repairable, Repaired, Job, States, OPEN
<1>4. CASE j.state = "running" /\ k = [j EXCEPT !.state = "queued"]
  BY <1>4 DEF Job, States, OPEN
<1>5. QED
  BY <1>2, <1>3, <1>4 DEF Reconciled

\* A crash leaves nobody running a job, and opens none.
LEMMA CutOffType ==
  ASSUME NEW j \in Job, NEW recovered \in BOOLEAN
  PROVE  LET k == CutOff(j, recovered) IN
         /\ k \in Job /\ k.by = Nobody /\ k.attempts = j.attempts
         /\ k.state = "armed" => recovered \/ j.state = "armed"
BY AfterFailureType DEF CutOff, Stranded, Job, States, OPEN

\* Every configured job waits for its setup when it begins.
LEMMA ConfiguredFacts ==
  Configured \in Seq(JobIds) /\ \A r \in JobIds : \E i \in DOMAIN Configured : Configured[i] = r
BY ConfiguredAssumption DEF JobIds

\* Whoever waits and is not the first waits on.
LEMMA TailKeeps ==
  ASSUME NEW s \in Seq(JobIds), s # <<>>
  PROVE  /\ Head(s) \in JobIds /\ Tail(s) \in Seq(JobIds)
         /\ \A i \in DOMAIN s : s[i] = Head(s) \/ \E k \in DOMAIN Tail(s) : Tail(s)[k] = s[i]
<1>1. /\ Head(s) \in JobIds /\ Tail(s) \in Seq(JobIds) /\ Len(Tail(s)) = Len(s) - 1
      /\ \A k \in 1 .. Len(s) - 1 : Tail(s)[k] = s[k + 1]
  BY HeadTailProperties
<1>2. ASSUME NEW i \in DOMAIN s, i # 1
      PROVE  i - 1 \in DOMAIN Tail(s) /\ Tail(s)[i - 1] = s[i]
  BY <1>1, <1>2
<1>3. s[1] = Head(s)
  OBVIOUS
<1>4. QED
  BY <1>1, <1>2, <1>3
-----------------------------------------------------------------------------

\* The parts of the type invariant that a step has to keep.
LEMMA TypeParts ==
  RecurringTypeOK <=>
    /\ now \in 0 .. MaxTime /\ process \in Processes /\ stopping \in BOOLEAN /\ todo \in Seq(JobIds)
    /\ job \in [JobIds -> Job] /\ slot \in [Slots -> Slot]
    /\ chain \subseteq [job : JobIds, runAt : Times] /\ gaveUp \subseteq JobIds
    /\ spent \in Spent
BY DEF RecurringTypeOK, Processes, Job, States, Slot, Spent

\* Exits, faults and cancellations stay within their bounds.
LEMMA SpendType ==
  ASSUME spent \in Spent,
         Spend("exits", MaxExits) \/ Fault \/ Spend("cancels", MaxCancels) \/ UNCHANGED spent
  PROVE  spent' \in Spent
BY BoundsFacts DEF Spend, Fault, Spent

\* Giving one job a new document with attempts for its deliveries.
LEMMA JobUpdate ==
  ASSUME job \in [JobIds -> Job], ArmedHasAttempts, NEW r \in JobIds, NEW j \in Job,
         j.state = "armed" => j.attempts < Attempts, job' = [job EXCEPT ![r] = j]
  PROVE  job' \in [JobIds -> Job] /\ ArmedHasAttempts'
BY DEF ArmedHasAttempts

\* A slot that settles leaves jobs and slots of their types.
LEMMA SettleType ==
  ASSUME job \in [JobIds -> Job], ArmedHasAttempts, slot \in [Slots -> Slot],
         NEW w \in Slots, NEW j \in Job, j.state = "armed" => j.attempts < Attempts, Settle(w, j)
  PROVE  job' \in [JobIds -> Job] /\ ArmedHasAttempts' /\ slot' \in [Slots -> Slot]
<1>1. slot[w].job \in JobIds
  BY DEF Slot
<1>2. job' = [job EXCEPT ![slot[w].job] = j] \/ job' = job
  BY <1>1 DEF Settle
<1>3. slot' \in [Slots -> Slot]
  BY DEF Settle, Slot
<1>4. QED
  BY <1>1, <1>2, <1>3, JobUpdate DEF ArmedHasAttempts

\* Every step keeps the types, and an attempt for every delivery.
LEMMA TypeStep == TypeInv /\ [Next]_vars => TypeInv'
<1> SUFFICES ASSUME TypeInv, [Next]_vars
             PROVE  TypeInv'
  OBVIOUS
<1>0. /\ now \in 0 .. MaxTime /\ process \in Processes /\ stopping \in BOOLEAN /\ todo \in Seq(JobIds)
      /\ job \in [JobIds -> Job] /\ slot \in [Slots -> Slot]
      /\ chain \subseteq [job : JobIds, runAt : Times] /\ gaveUp \subseteq JobIds
      /\ spent \in Spent /\ ArmedHasAttempts /\ NextRunAt(now) \in Times
  BY TypeParts, NextRunAtBounds DEF TypeInv
<1> DEFINE Goal ==
      /\ now' \in 0 .. MaxTime /\ process' \in Processes /\ stopping' \in BOOLEAN /\ todo' \in Seq(JobIds)
      /\ job' \in [JobIds -> Job] /\ slot' \in [Slots -> Slot]
      /\ chain' \subseteq [job : JobIds, runAt : Times] /\ gaveUp' \subseteq JobIds
      /\ spent' \in Spent /\ ArmedHasAttempts'
<1>1. SUFFICES Goal
  BY TypeParts DEF TypeInv, RecurringTypeOK, Processes, Job, States, Slot, Spent
<1>2. CASE Start \/ Listen
  BY <1>0, <1>2 DEF Start, Listen, Processes, ArmedHasAttempts
<1>3. CASE Reconcile
  <2>1. DOMAIN job' = JobIds /\ job' = [r \in JobIds |-> job'[r]]
        /\ \A r \in JobIds : job'[r] \in Reconciled(job[r])
    BY <1>3 DEF Reconcile
  <2>2. job' \in [JobIds -> Job]
    BY <1>0, <2>1, ReconciledType
  <2>3. ArmedHasAttempts'
    BY <1>0, <2>1, ReconciledType DEF ArmedHasAttempts
  <2>4. QED
    BY <1>0, <1>3, <2>2, <2>3, ConfiguredFacts DEF Reconcile, Processes
<1>4. CASE SetUp
  <2>1. Head(todo) \in JobIds /\ Tail(todo) \in Seq(JobIds)
    BY <1>0, <1>4, TailKeeps DEF SetUp
  <2>2. job' \in [JobIds -> Job] /\ ArmedHasAttempts'
    BY <1>0, <1>4, <2>1, ArmedType, JobUpdate DEF SetUp
  <2>3. QED
    BY <1>0, <1>4, <2>1, <2>2 DEF SetUp
<1>5. CASE SetUpFails
  <2>1. Head(todo) \in JobIds
    BY <1>0, <1>5, TailKeeps DEF SetUpFails
  <2>2. PICK j \in Rejected(job[Head(todo)], NextRunAt(now)) : job' = [job EXCEPT ![Head(todo)] = j]
    BY <1>5 DEF SetUpFails
  <2>3. j \in Job /\ (j.state = "armed" => j.attempts < Attempts)
    BY <1>0, <2>1, <2>2, RejectedType DEF ArmedHasAttempts
  <2>4. job' \in [JobIds -> Job] /\ ArmedHasAttempts'
    BY <1>0, <2>1, <2>2, <2>3, JobUpdate
  <2>5. \A i \in DOMAIN todo : todo[i] \in JobIds
    BY <1>0
  <2>6. <<>> \in Seq(JobIds)
    OBVIOUS
  <2>7. QED
    BY <1>0, <1>5, <2>4, <2>5, <2>6, SpendType DEF SetUpFails, Rejects
<1>6. ASSUME NEW w \in Slots, Deliver(w)
      PROVE  Goal
  <2>1. PICK r \in JobIds :
          /\ job[r].state = "armed"
          /\ job' = [job EXCEPT ![r].state = "running", ![r].by = w, ![r].attempts = @ + 1]
          /\ slot' = [slot EXCEPT ![w] = [pc |-> "handler", job |-> r]]
    BY <1>6 DEF Deliver
  <2>2. job[r].attempts + 1 \in 0 .. Attempts
    BY <1>0, <2>1, BoundsFacts DEF ArmedHasAttempts, Job
  <2>3. job' = [job EXCEPT ![r] = [job[r] EXCEPT !.state = "running", !.by = w,
                                                  !.attempts = job[r].attempts + 1]]
    BY <1>0, <2>1
  <2>4. [job[r] EXCEPT !.state = "running", !.by = w, !.attempts = job[r].attempts + 1] \in Job
    BY <1>0, <2>2 DEF Job, States, OPEN
  <2>5. [job[r] EXCEPT !.state = "running", !.by = w, !.attempts = job[r].attempts + 1].state = "running"
    BY <1>0 DEF Job
  <2>6. job' \in [JobIds -> Job] /\ ArmedHasAttempts'
    BY <1>0, <2>3, <2>4, <2>5, JobUpdate
  <2>7. slot' \in [Slots -> Slot]
    BY <1>0, <2>1 DEF Slot
  <2>8. QED
    BY <1>0, <1>6, <2>6, <2>7 DEF Deliver
<1>7. ASSUME NEW w \in Slots, HandlerReturns(w)
      PROVE  Goal
  <2>1. slot[w].job \in JobIds /\ slot' \in [Slots -> Slot]
    BY <1>0, <1>7 DEF HandlerReturns, Slot
  <2>2. QED
    BY <1>0, <1>7, <2>1 DEF HandlerReturns, ArmedHasAttempts
<1>8. ASSUME NEW w \in Slots, HandlerThrows(w) \/ Complete(w)
      PROVE  Goal
  <2>1. slot[w].job \in JobIds
    BY <1>0 DEF Slot
  <2>2. CASE HandlerThrows(w)
    BY <1>0, <2>1, <2>2, AfterFailureType, SettleType DEF HandlerThrows
  <2>3. CASE Complete(w)
    BY <1>0, <2>1, <2>3, AfterSuccessType, SettleType DEF Complete
  <2>4. QED
    BY <1>8, <2>2, <2>3
<1>9. ASSUME NEW w \in Slots, UpdateFails(w)
      PROVE  Goal
  <2>1. slot[w].job \in JobIds
    BY <1>0 DEF Slot
  <2>2. \/ Settle(w, AfterFailure(job[slot[w].job]))
        \/ Settle(w, Stranded(job[slot[w].job]))
    BY <1>9 DEF UpdateFails
  <2>3. job' \in [JobIds -> Job] /\ ArmedHasAttempts' /\ slot' \in [Slots -> Slot]
    BY <1>0, <2>1, <2>2, AfterFailureType, SettleType
  <2>4. QED
    BY <1>0, <1>9, <2>3, SpendType DEF UpdateFails
<1>10. CASE ChainScheduled
  <2>1. PICK c \in chain : /\ chain' = chain \ {c} /\ job' = [job EXCEPT ![c.job] = Armed(c.runAt)]
                           /\ gaveUp' = gaveUp \ {c.job}
                           /\ UNCHANGED <<now, process, stopping, todo, slot, spent>>
    BY <1>10 DEF ChainScheduled
  <2>2. c.job \in JobIds /\ c.runAt \in Times
    BY <1>0, <2>1
  <2>3. job' \in [JobIds -> Job] /\ ArmedHasAttempts'
    BY <1>0, <2>1, <2>2, ArmedType, JobUpdate
  <2>4. QED
    BY <1>0, <2>1, <2>3
<1>11. CASE ChainFails
  <2>1. PICK c \in chain : /\ Rejects /\ chain' = chain \ {c}
                           /\ \E j \in Rejected(job[c.job], c.runAt) : job' = [job EXCEPT ![c.job] = j]
                           /\ gaveUp' = gaveUp \cup {c.job}
                           /\ UNCHANGED <<now, process, stopping, todo, slot>>
    BY <1>11 DEF ChainFails
  <2>2. c.job \in JobIds /\ c.runAt \in Times
    BY <1>0, <2>1
  <2>3. PICK j \in Rejected(job[c.job], c.runAt) : job' = [job EXCEPT ![c.job] = j]
    BY <2>1
  <2>4. j \in Job /\ (j.state = "armed" => j.attempts < Attempts)
    BY <1>0, <2>2, <2>3, RejectedType DEF ArmedHasAttempts
  <2>5. job' \in [JobIds -> Job] /\ ArmedHasAttempts'
    BY <1>0, <2>2, <2>3, <2>4, JobUpdate
  <2>6. QED
    BY <1>0, <2>1, <2>2, <2>5, SpendType DEF Rejects
<1>12. ASSUME NEW r \in JobIds, Cancel(r)
       PROVE  Goal
  <2>1. job' \in [JobIds -> Job] /\ ArmedHasAttempts'
    BY <1>0, <1>12 DEF Cancel, Job, States, ArmedHasAttempts
  <2>2. QED
    BY <1>0, <1>12, <2>1, SpendType DEF Cancel
<1>13. CASE Shutdown
  BY <1>0, <1>13, SpendType DEF Shutdown, Processes, ArmedHasAttempts
<1>14. CASE Exit
  <2>1. <<>> \in Seq(JobIds)
    OBVIOUS
  <2>2. QED
    BY <1>0, <1>14, <2>1 DEF Exit, Processes, ArmedHasAttempts
<1>15. CASE Crash
  <2>1. job' \in [JobIds -> Job] /\ ArmedHasAttempts'
    <3>1. PICK recovered \in SUBSET {r \in JobIds : Recoverable(job[r])} :
            job' = [r \in JobIds |-> CutOff(job[r], r \in recovered)]
      BY <1>15 DEF Crash
    <3>2. ASSUME NEW r \in JobIds
          PROVE  /\ job'[r] \in Job
                 /\ job'[r].state = "armed" => job'[r].attempts < Attempts
      <4>1. job'[r] = CutOff(job[r], r \in recovered) /\ job[r] \in Job /\ (r \in recovered) \in BOOLEAN
        BY <1>0, <3>1
      <4>2. r \in recovered => job[r].attempts < Attempts
        BY DEF Recoverable
      <4>3. /\ CutOff(job[r], r \in recovered) \in Job
            /\ CutOff(job[r], r \in recovered).attempts = job[r].attempts
            /\ CutOff(job[r], r \in recovered).state = "armed" =>
                 r \in recovered \/ job[r].state = "armed"
        BY <4>1, CutOffType
      <4>4. QED
        BY <1>0, <4>1, <4>2, <4>3 DEF ArmedHasAttempts
    <3>3. QED
      BY <3>1, <3>2 DEF ArmedHasAttempts
  <2>2. slot' \in [Slots -> Slot]
    BY <1>0, <1>15 DEF Crash, Slot
  <2>3. <<>> \in Seq(JobIds)
    OBVIOUS
  <2>4. QED
    BY <1>0, <1>15, <2>1, <2>2, <2>3, SpendType DEF Crash, Processes
<1>16. CASE Tick
  BY <1>0, <1>16, BoundsFacts DEF Tick, ArmedHasAttempts
<1>18. CASE ClaimFails
  <2>1. PICK r \in JobIds :
          /\ job[r].state = "armed"
          /\ job' = [job EXCEPT ![r] = NotClaimed(job[r])]
    BY <1>18 DEF ClaimFails
  <2>2. NotClaimed(job[r]) \in Job
        /\ (NotClaimed(job[r]).state = "armed" => NotClaimed(job[r]).attempts < Attempts)
    BY <1>0, <2>1, NotClaimedType DEF ArmedHasAttempts
  <2>3. job' \in [JobIds -> Job] /\ ArmedHasAttempts'
    BY <1>0, <2>1, <2>2, JobUpdate
  <2>4. QED
    BY <1>0, <1>18, <2>3, SpendType DEF ClaimFails
<1>19. ASSUME NEW w \in Slots, MarkedLate(w)
       PROVE  Goal
  <2>1. slot[w].job \in JobIds /\ job' = [job EXCEPT ![slot[w].job].state = "queued"]
    BY <1>0, <1>19 DEF MarkedLate, Slot
  <2>2. job' \in [JobIds -> Job] /\ ArmedHasAttempts'
    BY <1>0, <2>1 DEF Job, States, OPEN, ArmedHasAttempts
  <2>3. QED
    BY <1>0, <1>19, <2>2, SpendType DEF MarkedLate
<1>17. CASE UNCHANGED vars
  BY <1>0, <1>17 DEF vars, ArmedHasAttempts
<1>20. QED
  BY <1>2, <1>3, <1>4, <1>5, <1>6, <1>7, <1>8, <1>9, <1>10, <1>11, <1>12, <1>13, <1>14,
     <1>15, <1>16, <1>17, <1>18, <1>19 DEF Next, BootStep, RunStep, Idle

\* The initial states have the types, and attempts for what is armed.
LEMMA InitType == Init => TypeInv
<1>1. SUFFICES ASSUME Init
               PROVE  TypeInv
  OBVIOUS
<1>2. job \in [JobIds -> Job] /\ ArmedHasAttempts
  BY <1>1, BoundsFacts DEF Init, NoJob, Job, States, Times, ArmedHasAttempts
<1>3. <<>> \in Seq(JobIds)
  OBVIOUS
<1>4. stopping \in BOOLEAN
  BY <1>1 DEF Init
<1>5. /\ now \in 0 .. MaxTime /\ process \in Processes /\ todo \in Seq(JobIds)
      /\ slot \in [Slots -> Slot] /\ chain \subseteq [job : JobIds, runAt : Times]
      /\ gaveUp \subseteq JobIds /\ spent \in Spent
  BY <1>1, <1>3, BoundsFacts DEF Init, Processes, Slot, Spent
<1>6. QED
  BY <1>2, <1>4, <1>5, TypeParts DEF TypeInv

(* Every variable keeps its type.                                           *)
THEOREM RecurringTypeCorrect == Spec => []RecurringTypeOK
<1>1. Init => TypeInv
  BY InitType
<1>2. TypeInv => RecurringTypeOK
  BY DEF TypeInv
<1>3. QED
  BY <1>1, <1>2, TypeStep, PTL DEF Spec

-----------------------------------------------------------------------------
\* Nobody runs a job that waits for its delivery.
LEMMA NobodyRunsArmed ==
  ASSUME TypeInv, RunnersRun, NEW r \in JobIds, job[r].state = "armed"
  PROVE  job[r].by = Nobody
<1>1. job[r].by \in Slots \cup {Nobody}
  BY TypeParts DEF TypeInv, Job
<1>2. job[r].by \notin Slots
  BY DEF RunnersRun
<1>3. QED
  BY <1>1, <1>2

\* The jobs that a startup has set up are open, closed for good, or on their way.
Followed(r) ==
  \/ job[r].state \in OPEN \cup {"cancelled", "dead_letter"}
  \/ Chaining(r) \/ Awaiting(r) \/ r \in gaveUp

\* A slot that settles with an open job, or a dead letter, leaves no gap; one
\* that settles with a completed one leaves it to the chain.
LEMMA SettleGap ==
  ASSUME TypeInv, GapInv, NEW w \in Slots, slot[w].pc # "idle",
         NEW j \in Job, j.by = Nobody, Settle(w, j), UNCHANGED <<process, todo, chain, gaveUp>>,
         \/ j.state \in OPEN \cup {"dead_letter"}
         \/ slot[w].pc = "complete"
  PROVE  GapInv'
<1> DEFINE r == slot[w].job
<1>0. /\ job \in [JobIds -> Job] /\ slot \in [Slots -> Slot] /\ Nobody \notin Slots
      /\ r \in JobIds
  BY TypeParts, ConfiguredAssumption DEF TypeInv, Slot
<1>1. /\ slot'[w].pc = "idle" /\ slot' \in [Slots -> Slot]
      /\ \A v \in Slots \ {w} : slot'[v] = slot[v]
      /\ job' \in [JobIds -> Job]
      /\ \A q \in JobIds : job'[q] = IF q = r /\ job[r].by = w THEN j ELSE job[q]
  BY <1>0 DEF Settle, Slot
<1> HIDE DEF r
<1>2. RunnersRun'
  <2>1. SUFFICES ASSUME NEW q \in JobIds, NEW v \in Slots, job'[q].by = v
                 PROVE  /\ job'[q].state \in {"running", "queued"}
                        /\ slot'[v].pc # "idle" /\ slot'[v].job = q
    BY DEF RunnersRun
  <2>2. job'[q] = job[q] /\ job[q].by = v
    BY <1>0, <1>1, <2>1
  <2>3. v # w
    BY <1>0, <1>1, <2>1, <2>2 DEF GapInv, RunnersRun, r
  <2>4. QED
    BY <1>1, <2>2, <2>3 DEF GapInv, RunnersRun
<1>3. SuccessIsChained'
  <2>1. SUFFICES ASSUME NEW v \in Slots, slot'[v].pc = "complete", job'[slot'[v].job].by = v
                 PROVE  (Chaining(slot[v].job) \/ slot[v].job \in gaveUp) /\ slot'[v] = slot[v]
    BY DEF SuccessIsChained, Chaining
  <2>2. v # w /\ slot'[v] = slot[v] /\ slot[v].job \in JobIds
    BY <1>0, <1>1, <2>1 DEF Slot
  <2>3. job[slot[v].job].by = v
    BY <1>0, <1>1, <2>1, <2>2
  <2>4. QED
    BY <2>1, <2>2, <2>3 DEF GapInv, SuccessIsChained
<1>4. ChainHasNoGap'
  <2>1. SUFFICES ASSUME process \in {"setup", "up"}, NEW q \in JobIds
                 PROVE  Followed(q)'
    BY DEF ChainHasNoGap, Followed
  <2>2. Followed(q)
    BY <2>1 DEF GapInv, ChainHasNoGap, Followed
  <2>3. CASE q = r /\ job[r].by = w
    BY <1>1, <2>3 DEF Followed, Chaining, GapInv, SuccessIsChained, r
  <2>4. CASE ~(q = r /\ job[r].by = w)
    BY <1>1, <2>2, <2>4 DEF Followed, Chaining, Awaiting
  <2>5. QED
    BY <2>3, <2>4
<1>5. QED
  BY <1>2, <1>3, <1>4 DEF GapInv

\* A schedule that takes r's document away from its run, if any, keeps the
\* ownership of runs.
LEMMA ReplaceRuns ==
  ASSUME TypeInv, RunnersRun, NEW r \in JobIds, NEW j \in Job,
         j = job[r] \/ j.by = Nobody, job' = [job EXCEPT ![r] = j], UNCHANGED slot
  PROVE  RunnersRun'
<1>1. job \in [JobIds -> Job] /\ Nobody \notin Slots
  BY TypeParts, ConfiguredAssumption DEF TypeInv
<1>2. \A q \in JobIds : job'[q] = IF q = r THEN j ELSE job[q]
  BY <1>1
<1>3. QED
  BY <1>1, <1>2 DEF RunnersRun

\* Every step leaves the chains without a gap.
LEMMA GapStep == TypeInv /\ GapInv /\ [Next]_vars => GapInv'
<1> SUFFICES ASSUME TypeInv, GapInv, [Next]_vars
             PROVE  GapInv'
  OBVIOUS
<1>0. /\ todo \in Seq(JobIds) /\ job \in [JobIds -> Job] /\ slot \in [Slots -> Slot]
      /\ chain \subseteq [job : JobIds, runAt : Times] /\ gaveUp \subseteq JobIds
      /\ NextRunAt(now) \in Times /\ Nobody \notin Slots
  BY TypeParts, NextRunAtBounds, ConfiguredAssumption DEF TypeInv
<1>a. \A w \in Slots : slot[w].job \in JobIds
  BY <1>0 DEF Slot
<1>b. RunnersRun /\ SuccessIsChained
      /\ (process \in {"setup", "up"} => \A r \in JobIds : Followed(r))
  BY DEF GapInv, ChainHasNoGap, Followed
<1>c. ASSUME RunnersRun', SuccessIsChained',
             process' \in {"setup", "up"} => \A r \in JobIds : Followed(r)'
      PROVE  GapInv'
  BY <1>c DEF GapInv, ChainHasNoGap, Followed
<1>2. CASE Start \/ Listen
  <2>1. UNCHANGED <<job, slot, chain, gaveUp, todo>>
    BY <1>2 DEF Start, Listen
  <2>2. process' \in {"setup", "up"} => process \in {"setup", "up"}
    BY <1>2 DEF Start, Listen
  <2>3. QED
    BY <1>b, <1>c, <2>1, <2>2 DEF RunnersRun, SuccessIsChained, Followed, Chaining, Awaiting
<1>3. CASE Reconcile
  <2>1. \A r \in JobIds : job'[r] \in Reconciled(job[r])
    BY <1>3 DEF Reconcile
  <2>2. \A r \in JobIds : /\ job'[r].by = job[r].by
                          /\ job[r].by \in Slots => job'[r] = job[r] \/ job'[r].state = "queued"
    BY <1>0, <2>1, ReconciledType
  <2>3. UNCHANGED <<slot, chain, gaveUp>> /\ todo' = Configured
    BY <1>3 DEF Reconcile
  <2>4. RunnersRun' /\ SuccessIsChained'
    BY <1>a, <1>b, <2>2, <2>3 DEF RunnersRun, SuccessIsChained, Chaining
  <2>5. \A r \in JobIds : Followed(r)'
    BY <2>3, ConfiguredFacts DEF Followed, Awaiting
  <2>6. QED
    BY <1>c, <2>4, <2>5
<1>4. CASE SetUp
  <2> DEFINE r == Head(todo)
  <2>1. /\ r \in JobIds /\ job' = [job EXCEPT ![r] = Armed(NextRunAt(now))]
        /\ gaveUp' = gaveUp \ {r} /\ todo' = Tail(todo) /\ todo # <<>>
        /\ UNCHANGED <<process, slot, chain>> /\ process = "setup"
    BY <1>0, <1>4, TailKeeps DEF SetUp
  <2>2. \A i \in DOMAIN todo : todo[i] = r \/ \E k \in DOMAIN Tail(todo) : Tail(todo)[k] = todo[i]
    BY <1>0, <2>1, TailKeeps
  <2> HIDE DEF r
  <2>3. Armed(NextRunAt(now)) \in Job /\ Armed(NextRunAt(now)).by = Nobody
        /\ Armed(NextRunAt(now)).state = "armed"
    BY <1>0, ArmedType
  <2>4. RunnersRun'
    BY <1>b, <2>1, <2>3, ReplaceRuns
  <2>5. \A q \in JobIds : job'[q] = IF q = r THEN Armed(NextRunAt(now)) ELSE job[q]
    BY <1>0, <2>1
  <2>6. SuccessIsChained'
    BY <1>0, <1>a, <1>b, <2>1, <2>3, <2>5 DEF SuccessIsChained, Chaining
  <2>7. ASSUME NEW q \in JobIds
        PROVE  Followed(q)'
    <3>1. CASE q = r
      BY <2>3, <2>5, <3>1 DEF Followed, OPEN
    <3>2. CASE q # r
      <4>1. Awaiting(q) => Awaiting(q)'
        BY <2>1, <2>2, <3>2 DEF Awaiting
      <4>2. QED
        BY <1>b, <2>1, <2>5, <3>2, <4>1 DEF Followed, Chaining
    <3>3. QED
      BY <3>1, <3>2
  <2>8. QED
    BY <1>c, <2>4, <2>6, <2>7
<1>5. CASE SetUpFails
  <2> DEFINE r == Head(todo)
  <2>1. /\ r \in JobIds /\ gaveUp' = gaveUp \cup {todo[i] : i \in DOMAIN todo} /\ todo' = <<>>
        /\ UNCHANGED <<process, slot, chain>> /\ process = "setup"
    BY <1>0, <1>5, TailKeeps DEF SetUpFails
  <2>2. PICK j \in Rejected(job[r], NextRunAt(now)) : job' = [job EXCEPT ![r] = j]
    BY <1>5 DEF SetUpFails
  <2> HIDE DEF r
  <2>3. j \in Job /\ (j = job[r] \/ (j.state \in {"armed", "stranded"} /\ j.by = Nobody))
    BY <1>0, <2>1, <2>2, RejectedType
  <2>4. RunnersRun'
    BY <1>b, <2>1, <2>2, <2>3, ReplaceRuns
  <2>5. \A q \in JobIds : job'[q] = IF q = r THEN j ELSE job[q]
    BY <1>0, <2>2
  <2>6. SuccessIsChained'
    BY <1>0, <1>a, <1>b, <2>1, <2>3, <2>5 DEF SuccessIsChained, Chaining
  <2>7. ASSUME NEW q \in JobIds
        PROVE  Followed(q)'
    <3>1. Awaiting(q) => q \in gaveUp'
      BY <2>1 DEF Awaiting
    <3>2. QED
      BY <1>b, <2>1, <2>3, <2>5, <3>1 DEF Followed, Chaining, OPEN
  <2>8. QED
    BY <1>c, <2>4, <2>6, <2>7
<1>6. ASSUME NEW w \in Slots, Deliver(w)
      PROVE  GapInv'
  <2>1. PICK r \in JobIds :
          /\ job[r].state = "armed"
          /\ job' = [job EXCEPT ![r].state = "running", ![r].by = w, ![r].attempts = @ + 1]
          /\ slot' = [slot EXCEPT ![w] = [pc |-> "handler", job |-> r]]
    BY <1>6 DEF Deliver
  <2>2. slot[w].pc = "idle" /\ UNCHANGED <<process, todo, chain, gaveUp>>
    BY <1>6 DEF Deliver
  <2>3. /\ job'[r].state = "running" /\ job'[r].by = w
        /\ \A q \in JobIds \ {r} : job'[q] = job[q]
        /\ slot'[w] = [pc |-> "handler", job |-> r]
        /\ \A v \in Slots \ {w} : slot'[v] = slot[v]
    BY <1>0, <2>1 DEF Job
  <2>4. RunnersRun'
    BY <1>b, <2>2, <2>3 DEF RunnersRun
  <2>5. SuccessIsChained'
    BY <1>a, <1>b, <2>2, <2>3 DEF SuccessIsChained, Chaining
  <2>6. \A q \in JobIds : Followed(q) => Followed(q)'
    BY <2>2, <2>3 DEF Followed, Chaining, Awaiting, OPEN
  <2>7. QED
    BY <1>b, <1>c, <2>2, <2>4, <2>5, <2>6
<1>7. ASSUME NEW w \in Slots, HandlerReturns(w)
      PROVE  GapInv'
  <2>1. /\ chain' = chain \cup {[job |-> slot[w].job, runAt |-> NextRunAt(now)]}
        /\ UNCHANGED <<process, todo, job, gaveUp>> /\ slot[w].pc = "handler"
        /\ slot'[w].pc = "complete" /\ slot'[w].job = slot[w].job
        /\ \A v \in Slots \ {w} : slot'[v] = slot[v]
    BY <1>0, <1>7 DEF HandlerReturns, Slot
  <2>2. \A q \in JobIds : Chaining(q) => Chaining(q)'
    BY <2>1 DEF Chaining
  <2>3. \E c \in chain' : c.job = slot[w].job
    <3> DEFINE next == [job |-> slot[w].job, runAt |-> NextRunAt(now)]
    <3>1. next \in chain' /\ next.job = slot[w].job
      BY <2>1
    <3>2. QED
      BY <3>1
  <2>4. RunnersRun'
    BY <1>b, <2>1 DEF RunnersRun
  <2>5. SuccessIsChained'
    <3>1. SUFFICES ASSUME NEW v \in Slots, slot'[v].pc = "complete", job[slot[v].job].by = v
                   PROVE  (\E c \in chain' : c.job = slot[v].job) \/ slot[v].job \in gaveUp
      <4>1. \A v \in Slots : slot'[v].job = slot[v].job
        BY <2>1
      <4>2. QED
        BY <2>1, <4>1 DEF SuccessIsChained, Chaining
    <3>2. CASE v = w
      BY <2>3, <3>2
    <3>3. CASE v # w
      <4>1. slot'[v] = slot[v]
        BY <2>1, <3>3
      <4>2. Chaining(slot[v].job) \/ slot[v].job \in gaveUp
        BY <1>b, <3>1, <4>1 DEF SuccessIsChained
      <4>3. QED
        BY <2>1, <4>2 DEF Chaining
    <3>4. QED
      BY <3>2, <3>3
  <2>6. \A q \in JobIds : Followed(q) => Followed(q)'
    BY <2>1, <2>2 DEF Followed, Awaiting
  <2>7. QED
    BY <1>b, <1>c, <2>1, <2>4, <2>5, <2>6
<1>8. ASSUME NEW w \in Slots, HandlerThrows(w) \/ Complete(w) \/ UpdateFails(w)
      PROVE  GapInv'
  <2> DEFINE j == job[slot[w].job]
  <2>1. j \in Job /\ slot[w].job \in JobIds
    BY <1>0, <1>a
  <2>2. CASE HandlerThrows(w)
    BY <2>1, <2>2, AfterFailureType, SettleGap DEF HandlerThrows, OPEN
  <2>3. CASE Complete(w)
    BY <2>1, <2>3, AfterSuccessType, SettleGap DEF Complete
  <2>4. CASE UpdateFails(w)
    <3>1. Settle(w, AfterFailure(j)) \/ Settle(w, Stranded(j))
      BY <2>4 DEF UpdateFails
    <3>2. slot[w].pc # "idle" /\ UNCHANGED <<process, todo, chain, gaveUp>>
      BY <2>4 DEF UpdateFails
    <3>3. QED
      BY <2>1, <3>1, <3>2, AfterFailureType, SettleGap DEF OPEN
  <2>5. QED
    BY <1>8, <2>2, <2>3, <2>4
<1>9. CASE ChainScheduled
  <2>1. PICK c \in chain : /\ chain' = chain \ {c} /\ job' = [job EXCEPT ![c.job] = Armed(c.runAt)]
                           /\ gaveUp' = gaveUp \ {c.job}
                           /\ UNCHANGED <<now, process, stopping, todo, slot, spent>>
    BY <1>9 DEF ChainScheduled
  <2> DEFINE r == c.job
             j == Armed(c.runAt)
  <2>2. r \in JobIds /\ j \in Job /\ j.by = Nobody /\ j.state = "armed"
    BY <1>0, <2>1, ArmedType
  <2>3. \A q \in JobIds : job'[q] = IF q = r THEN j ELSE job[q]
    BY <1>0, <2>1
  <2>4. \A q \in JobIds \ {r} : Chaining(q) => Chaining(q)'
    BY <2>1 DEF Chaining
  <2>5. RunnersRun'
    BY <1>b, <2>1, <2>2, ReplaceRuns
  <2> HIDE DEF r, j
  <2>6. gaveUp' = gaveUp \ {r} /\ UNCHANGED <<process, todo, slot>>
    BY <2>1 DEF r
  <2>7. SuccessIsChained'
    <3>1. SUFFICES ASSUME NEW v \in Slots, slot[v].pc = "complete", job'[slot[v].job].by = v
                   PROVE  Chaining(slot[v].job)' \/ slot[v].job \in gaveUp'
      BY <2>6 DEF SuccessIsChained, Chaining
    <3>2. slot[v].job # r
      BY <1>0, <1>a, <2>2, <2>3, <3>1
    <3>3. QED
      BY <1>a, <1>b, <2>3, <2>4, <2>6, <3>1, <3>2 DEF SuccessIsChained
  <2>8. \A q \in JobIds : Followed(q) => Followed(q)'
    BY <2>2, <2>3, <2>4, <2>6 DEF Followed, Awaiting, OPEN
  <2>9. QED
    BY <1>b, <1>c, <2>5, <2>6, <2>7, <2>8
<1>10. CASE ChainFails
  <2>1. PICK c \in chain : /\ chain' = chain \ {c}
                           /\ \E j \in Rejected(job[c.job], c.runAt) : job' = [job EXCEPT ![c.job] = j]
                           /\ gaveUp' = gaveUp \cup {c.job}
                           /\ UNCHANGED <<now, process, stopping, todo, slot>>
    BY <1>10 DEF ChainFails
  <2>2. PICK j \in Rejected(job[c.job], c.runAt) : job' = [job EXCEPT ![c.job] = j]
    BY <2>1
  <2> DEFINE r == c.job
  <2>3. r \in JobIds /\ j \in Job /\ (j = job[r] \/ (j.state \in {"armed", "stranded"} /\ j.by = Nobody))
    BY <1>0, <2>1, <2>2, RejectedType
  <2>4. \A q \in JobIds : job'[q] = IF q = r THEN j ELSE job[q]
    BY <1>0, <2>2
  <2>5. \A q \in JobIds \ {r} : Chaining(q) => Chaining(q)'
    BY <2>1 DEF Chaining
  <2>6. RunnersRun'
    BY <1>b, <2>1, <2>2, <2>3, ReplaceRuns
  <2>7. gaveUp' = gaveUp \cup {r} /\ UNCHANGED <<process, todo, slot>>
    BY <2>1
  <2> HIDE DEF r
  <2>8. SuccessIsChained'
    <3>1. SUFFICES ASSUME NEW v \in Slots, slot[v].pc = "complete", job'[slot[v].job].by = v
                   PROVE  Chaining(slot[v].job)' \/ slot[v].job \in gaveUp'
      BY <2>7 DEF SuccessIsChained, Chaining
    <3>2. CASE slot[v].job = r
      BY <2>7, <3>2
    <3>3. CASE slot[v].job # r
      BY <1>a, <1>b, <2>4, <2>5, <2>7, <3>1, <3>3 DEF SuccessIsChained
    <3>4. QED
      BY <3>2, <3>3
  <2>9. \A q \in JobIds : Followed(q) => Followed(q)'
    BY <2>3, <2>4, <2>5, <2>7 DEF Followed, Awaiting, OPEN
  <2>10. QED
    BY <1>b, <1>c, <2>6, <2>7, <2>8, <2>9
<1>11. ASSUME NEW r \in JobIds, Cancel(r)
       PROVE  GapInv'
  <2>1. /\ job' = [job EXCEPT ![r].state = "cancelled", ![r].by = Nobody]
        /\ UNCHANGED <<process, todo, slot, chain, gaveUp>>
    BY <1>11 DEF Cancel
  <2>2. /\ job'[r].state = "cancelled" /\ job'[r].by = Nobody
        /\ \A q \in JobIds \ {r} : job'[q] = job[q]
    BY <1>0, <2>1 DEF Job
  <2>3. RunnersRun' /\ SuccessIsChained'
    BY <1>0, <1>a, <1>b, <2>1, <2>2 DEF RunnersRun, SuccessIsChained, Chaining
  <2>4. \A q \in JobIds : Followed(q) => Followed(q)'
    BY <2>1, <2>2 DEF Followed, Chaining, Awaiting
  <2>5. QED
    BY <1>b, <1>c, <2>1, <2>3, <2>4
<1>12. CASE Shutdown \/ Tick \/ UNCHANGED vars
  <2>1. UNCHANGED <<job, slot, chain, gaveUp, todo>>
        /\ (process' \in {"setup", "up"} => process \in {"setup", "up"})
    BY <1>12 DEF Shutdown, Tick, vars
  <2>2. QED
    BY <1>b, <1>c, <2>1 DEF RunnersRun, SuccessIsChained, Followed, Chaining, Awaiting
<1>13. CASE Exit
  <2>1. UNCHANGED <<job, slot>> /\ process' = "down" /\ \A w \in Slots : slot[w].pc = "idle"
    BY <1>13 DEF Exit
  <2>2. RunnersRun' /\ SuccessIsChained'
    BY <1>b, <2>1 DEF RunnersRun, SuccessIsChained
  <2>3. QED
    BY <1>c, <2>1, <2>2
<1>14. CASE Crash
  <2>1. process' = "down" /\ \A w \in Slots : slot'[w].pc = "idle"
    BY <1>0, <1>14 DEF Crash, Slot
  <2>2. ASSUME NEW r \in JobIds
        PROVE  job'[r].by = Nobody
    <3>1. PICK recovered \in SUBSET {q \in JobIds : Recoverable(job[q])} :
            job' = [q \in JobIds |-> CutOff(job[q], q \in recovered)]
      BY <1>14 DEF Crash
    <3>2. job'[r] = CutOff(job[r], r \in recovered) /\ job[r] \in Job /\ (r \in recovered) \in BOOLEAN
      BY <1>0, <3>1
    <3>3. QED
      BY <3>2, CutOffType
  <2>3. RunnersRun' /\ SuccessIsChained'
    BY <1>0, <2>1, <2>2 DEF RunnersRun, SuccessIsChained
  <2>4. QED
    BY <1>c, <2>1, <2>3
<1>15. CASE ClaimFails
  <2>1. PICK r \in JobIds :
          /\ job[r].state = "armed"
          /\ job' = [job EXCEPT ![r] = NotClaimed(job[r])]
    BY <1>15 DEF ClaimFails
  <2>2. UNCHANGED <<process, todo, slot, chain, gaveUp>>
    BY <1>15 DEF ClaimFails
  <2>3. job[r].by = Nobody /\ job'[r].by = Nobody /\ job'[r].state \in OPEN
        /\ \A q \in JobIds \ {r} : job'[q] = job[q]
    <3>1. job[r].by = Nobody
      BY <1>b, <2>1, NobodyRunsArmed
    <3>2. QED
      BY <1>0, <2>1, <3>1, NotClaimedType DEF OPEN
  <2>4. RunnersRun' /\ SuccessIsChained'
    BY <1>0, <1>a, <1>b, <2>2, <2>3 DEF RunnersRun, SuccessIsChained, Chaining
  <2>5. \A q \in JobIds : Followed(q) => Followed(q)'
    BY <2>2, <2>3 DEF Followed, Chaining, Awaiting
  <2>6. QED
    BY <1>b, <1>c, <2>2, <2>4, <2>5
<1>16. ASSUME NEW w \in Slots, MarkedLate(w)
       PROVE  GapInv'
  <2> DEFINE r == slot[w].job
  <2>1. /\ r \in JobIds /\ job' = [job EXCEPT ![r].state = "queued"]
        /\ UNCHANGED <<process, todo, slot, chain, gaveUp>>
    BY <1>a, <1>16 DEF MarkedLate
  <2>2. /\ job'[r].state = "queued" /\ job'[r].by = job[r].by
        /\ \A q \in JobIds \ {r} : job'[q] = job[q]
    BY <1>0, <2>1 DEF Job
  <2> HIDE DEF r
  <2>3. RunnersRun' /\ SuccessIsChained'
    BY <1>0, <1>a, <1>b, <2>1, <2>2 DEF RunnersRun, SuccessIsChained, Chaining
  <2>4. \A q \in JobIds : Followed(q) => Followed(q)'
    BY <2>1, <2>2 DEF Followed, Chaining, Awaiting, OPEN
  <2>5. QED
    BY <1>b, <1>c, <2>1, <2>3, <2>4
<1>17. QED
  BY <1>2, <1>3, <1>4, <1>5, <1>6, <1>7, <1>8, <1>9, <1>10, <1>11, <1>12, <1>13, <1>14, <1>15, <1>16
     DEF Next, BootStep, RunStep, Idle

\* The invariants hold at first.
LEMMA InitGap == Init => TypeInv /\ GapInv
<1>1. SUFFICES ASSUME Init
               PROVE  TypeInv /\ GapInv
  OBVIOUS
<1>2. TypeInv
  BY <1>1, InitType
<1>3. \A r \in JobIds, w \in Slots : job[r].by # w /\ slot[w].pc = "idle"
  BY <1>1, ConfiguredAssumption DEF Init, NoJob
<1>4. GapInv
  BY <1>1, <1>3 DEF GapInv, RunnersRun, SuccessIsChained, ChainHasNoGap, Init
<1>5. QED
  BY <1>2, <1>4

(* Once a startup has set a recurring job up, its chain of occurrences has  *)
(* no gap, whatever exits, failing commands and cancellations come between. *)
THEOREM ChainHasNoGapHolds == Spec => []ChainHasNoGap
<1>1. Init => TypeInv /\ GapInv
  BY InitGap
<1>2. GapInv => ChainHasNoGap
  BY DEF GapInv
<1>3. QED
  BY <1>1, <1>2, TypeStep, GapStep, PTL DEF Spec

-----------------------------------------------------------------------------
(* One chain per job                                                       *)

\* Where the chain of r goes on in no new place, it does not fork.
LEMMA NoNewPlace ==
  ASSUME NEW r \in JobIds, Waits(r)' => Waits(r), Handling(r)' \subseteq Handling(r),
         \A c \in chain' : c.job = r => c \in chain
  PROVE  Forked(r)' => Forked(r)
BY DEF Forked, Chaining

\* A step that leaves the document of r, its handlers and its schedules alone.
LEMMA OtherPlaces ==
  ASSUME NEW r \in JobIds, job'[r] = job[r], \A w \in Slots : slot'[w] = slot[w] \/ slot'[w].job # r
                                                              \/ slot'[w].pc # "handler",
         \A c \in chain' : c.job = r => c \in chain
  PROVE  /\ Waits(r)' => Waits(r)
         /\ Handling(r)' \subseteq Handling(r)
         /\ Forked(r)' => Forked(r)
<1>1. (Waits(r)' => Waits(r)) /\ Handling(r)' \subseteq Handling(r)
  BY DEF Waits, Handling
<1>2. QED
  BY <1>1, NoNewPlace

\* What a slot that settles does to the job it ran, and to the others.
LEMMA SettleEffect ==
  ASSUME TypeInv, NEW w \in Slots, NEW j \in Job, Settle(w, j)
  PROVE  /\ slot'[w].pc = "idle" /\ \A v \in Slots \ {w} : slot'[v] = slot[v]
         /\ slot[w].job \in JobIds
         /\ \A q \in JobIds : job'[q] = IF q = slot[w].job /\ job[q].by = w THEN j ELSE job[q]
<1>1. job \in [JobIds -> Job] /\ slot \in [Slots -> Slot] /\ slot[w].job \in JobIds
  BY TypeParts DEF TypeInv, Slot
<1>2. QED
  BY <1>1 DEF Settle, Slot

\* A slot that settles takes no new place at the jobs it did not run, and none
\* at its own if its handler was running.
LEMMA SettleForks ==
  ASSUME TypeInv, NEW w \in Slots, NEW j \in Job, Settle(w, j), UNCHANGED chain,
         NEW r \in JobIds, r # slot[w].job \/ slot[w].pc = "handler" \/ j.state \notin OPEN
  PROVE  Forked(r)' => Forked(r)
<1>1. /\ slot'[w].pc = "idle" /\ \A v \in Slots \ {w} : slot'[v] = slot[v]
      /\ job'[r] = IF r = slot[w].job /\ job[r].by = w THEN j ELSE job[r]
  BY SettleEffect
<1>2. CASE job'[r] = job[r]
  BY <1>1, <1>2, OtherPlaces
<1>3. CASE r = slot[w].job /\ job'[r] = j /\ slot[w].pc = "handler"
  <2>1. SUFFICES ASSUME ~Forked(r)
                 PROVE  ~Forked(r)'
    OBVIOUS
  <2>2. w \in Handling(r)
    BY <1>3 DEF Handling
  <2>3. \A v \in Handling(r) : v = w
    BY <2>1, <2>2 DEF Forked
  <2>4. Handling(r)' = {}
    BY <1>1, <2>3 DEF Handling
  <2>5. ~Chaining(r)'
    BY <2>1, <2>2 DEF Forked, Chaining
  <2>6. QED
    BY <2>4, <2>5 DEF Forked, Chaining
<1>4. CASE job'[r] = j /\ j.state \notin OPEN
  <2>1. Handling(r)' \subseteq Handling(r) /\ ~Waits(r)'
    BY <1>1, <1>4 DEF Handling, Waits
  <2>2. QED
    BY <2>1, NoNewPlace
<1>5. QED
  BY <1>1, <1>2, <1>3, <1>4

\* A schedule() of the wrapper that ends, with whatever it leaves, takes over
\* from itself.
LEMMA ChainForks ==
  ASSUME TypeInv, NEW c \in chain, chain' = chain \ {c}, UNCHANGED slot,
         NEW j \in Job, job' = [job EXCEPT ![c.job] = j], NEW r \in JobIds
  PROVE  Forked(r)' => Forked(r)
<1>1. job'[r] = IF r = c.job THEN j ELSE job[r]
  BY TypeParts DEF TypeInv
<1>2. CASE r # c.job
  BY <1>1, <1>2, OtherPlaces
<1>3. CASE r = c.job
  <2>1. SUFFICES ASSUME ~Forked(r)
                 PROVE  ~Forked(r)'
    OBVIOUS
  <2>2. Chaining(r) /\ \A d \in chain : d.job = r => d = c
    BY <1>3, <2>1 DEF Forked, Chaining
  <2>3. ~Chaining(r)'
    BY <2>2 DEF Chaining
  <2>4. Handling(r) = {} /\ Handling(r)' = Handling(r)
    BY <2>1, <2>2 DEF Forked, Handling
  <2>5. QED
    BY <2>3, <2>4 DEF Forked, Chaining
<1>4. QED
  BY <1>2, <1>3

\* The steps that may begin a second chain of r.
Repeats(r) ==
  \/ (SetUp \/ SetUpFails) /\ r = Head(todo)
  \/ SuccessMissed(r)
  \/ \E w \in Slots : UpdateFails(w) /\ slot[w].pc = "complete" /\ slot[w].job = r

\* No other step forks a chain.
LEMMA StepForks ==
  ASSUME TypeInv, GapInv, [Next]_vars, NEW r \in JobIds, ~Repeats(r)
  PROVE  Forked(r)' => Forked(r)
<1>0. /\ todo \in Seq(JobIds) /\ job \in [JobIds -> Job] /\ slot \in [Slots -> Slot]
      /\ chain \subseteq [job : JobIds, runAt : Times]
      /\ NextRunAt(now) \in Times /\ Nobody \notin Slots /\ RunnersRun
      /\ \A w \in Slots : slot[w].job \in JobIds
  BY TypeParts, NextRunAtBounds, ConfiguredAssumption DEF TypeInv, GapInv, Slot
<1>1. CASE Start \/ Listen \/ Shutdown \/ Tick \/ UNCHANGED vars
  <2>1. UNCHANGED <<job, slot, chain>>
    BY <1>1 DEF Start, Listen, Shutdown, Tick, vars
  <2>2. QED
    BY <2>1, OtherPlaces
<1>2. CASE Reconcile
  <2>1. job'[r] \in Reconciled(job[r])
    BY <1>2 DEF Reconcile
  <2>2. Waits(r)' => Waits(r)
    BY <1>0, <2>1, ReconciledType DEF Waits
  <2>3. Handling(r)' = Handling(r) /\ chain' = chain
    BY <1>2 DEF Reconcile, Handling
  <2>4. QED
    BY <2>2, <2>3, NoNewPlace
<1>3. CASE SetUp \/ SetUpFails
  <2>1. /\ r # Head(todo) /\ UNCHANGED <<slot, chain>>
        /\ \E j : job' = [job EXCEPT ![Head(todo)] = j]
    BY <1>3 DEF SetUp, SetUpFails, Repeats
  <2>2. QED
    BY <1>0, <2>1, OtherPlaces
<1>4. ASSUME NEW w \in Slots, Deliver(w)
      PROVE  Forked(r)' => Forked(r)
  <2>1. PICK q \in JobIds :
          /\ job[q].state = "armed"
          /\ job' = [job EXCEPT ![q].state = "running", ![q].by = w, ![q].attempts = @ + 1]
          /\ slot' = [slot EXCEPT ![w] = [pc |-> "handler", job |-> q]]
    BY <1>4 DEF Deliver
  <2>2. /\ job'[q].by = w /\ \A p \in JobIds \ {q} : job'[p] = job[p]
        /\ slot'[w].job = q /\ \A v \in Slots \ {w} : slot'[v] = slot[v]
        /\ chain' = chain
    BY <1>0, <1>4, <2>1 DEF Job, Deliver
  <2>3. CASE r # q
    BY <2>2, <2>3, OtherPlaces
  <2>4. CASE r = q
    <3>1. SUFFICES ASSUME ~Forked(r)
                   PROVE  ~Forked(r)'
      OBVIOUS
    <3>2. job[r].by = Nobody
      BY <1>0, <2>1, <2>4, NobodyRunsArmed
    <3>3. Waits(r)
      BY <2>1, <2>4, <3>2 DEF Waits, OPEN
    <3>4. Handling(r) = {} /\ ~Chaining(r)
      BY <3>1, <3>3 DEF Forked
    <3>5. \A v \in Handling(r)' : v = w
      BY <2>2, <3>4 DEF Handling
    <3>6. ~Waits(r)' /\ ~Chaining(r)'
      BY <1>0, <2>2, <2>4, <3>4 DEF Waits, Chaining
    <3>7. QED
      BY <3>5, <3>6 DEF Forked, Chaining
  <2>5. QED
    BY <2>3, <2>4
<1>5. ASSUME NEW w \in Slots, HandlerReturns(w)
      PROVE  Forked(r)' => Forked(r)
  <2> DEFINE next == [job |-> slot[w].job, runAt |-> NextRunAt(now)]
  <2>1. /\ chain' = chain \cup {next} /\ next.job = slot[w].job
        /\ UNCHANGED job /\ slot[w].pc = "handler"
        /\ slot'[w].pc = "complete" /\ \A v \in Slots \ {w} : slot'[v] = slot[v]
    BY <1>0, <1>5 DEF HandlerReturns, Slot
  <2> HIDE DEF next
  <2>2. CASE r # slot[w].job
    BY <2>1, <2>2, OtherPlaces
  <2>3. CASE r = slot[w].job
    <3>1. SUFFICES ASSUME ~Forked(r)
                   PROVE  ~Forked(r)'
      OBVIOUS
    <3>2. w \in Handling(r)
      BY <2>1, <2>3 DEF Handling
    <3>3. ~Waits(r) /\ ~Chaining(r) /\ \A v \in Handling(r) : v = w
      BY <3>1, <3>2 DEF Forked
    <3>4. Handling(r)' = {}
      BY <2>1, <3>3 DEF Handling
    <3>5. ~Waits(r)'
      BY <2>1, <3>3 DEF Waits
    <3>6. \A c, d \in chain' : c.job = r /\ d.job = r => c = d
      BY <2>1, <3>3 DEF Chaining
    <3>7. QED
      BY <3>4, <3>5, <3>6 DEF Forked
  <2>4. QED
    BY <2>2, <2>3
<1>6. ASSUME NEW w \in Slots, HandlerThrows(w) \/ Complete(w) \/ UpdateFails(w)
      PROVE  Forked(r)' => Forked(r)
  <2> DEFINE j == job[slot[w].job]
             done == AfterSuccess(j)
  <2>1. j \in Job
    BY <1>0
  <2>2. done \in Job /\ (j.state # "queued" => done.state \notin OPEN)
    BY <2>1, AfterSuccessType DEF OPEN
  <2>3. chain' = chain
    BY <1>6 DEF HandlerThrows, Complete, UpdateFails
  <2>4. CASE Complete(w)
    <3>1. Settle(w, done)
      BY <2>4 DEF Complete
    <3>2. CASE r # slot[w].job \/ j.state # "queued"
      BY <2>2, <2>3, <3>1, <3>2, SettleForks
    <3>3. CASE r = slot[w].job /\ j.state = "queued"
      <4>1. job[r].by # w
        BY <2>4, <3>3 DEF Repeats, SuccessMissed
      <4>2. \A v \in Slots \ {w} : slot'[v] = slot[v]
        BY <2>2, <3>1, SettleEffect
      <4>3. job'[r] = job[r] /\ slot'[w].pc = "idle"
        BY <2>2, <3>1, <3>3, <4>1, SettleEffect
      <4>4. QED
        BY <2>3, <4>2, <4>3, OtherPlaces
    <3>4. QED
      BY <3>2, <3>3
  <2>5. CASE HandlerThrows(w)
    BY <2>1, <2>3, <2>5, AfterFailureType, SettleForks DEF HandlerThrows
  <2>6. CASE UpdateFails(w)
    <3>1. Settle(w, AfterFailure(j)) \/ Settle(w, Stranded(j))
      BY <2>6 DEF UpdateFails
    <3>2. r # slot[w].job \/ slot[w].pc = "handler"
      BY <1>0, <2>6 DEF UpdateFails, Repeats, Slot
    <3>3. QED
      BY <2>1, <2>3, <3>1, <3>2, AfterFailureType, SettleForks
  <2>7. QED
    BY <1>6, <2>4, <2>5, <2>6
<1>7. CASE ChainScheduled
  <2>1. PICK c \in chain : chain' = chain \ {c} /\ job' = [job EXCEPT ![c.job] = Armed(c.runAt)]
                           /\ UNCHANGED slot
    BY <1>7 DEF ChainScheduled
  <2>2. Armed(c.runAt) \in Job
    BY <1>0, ArmedType
  <2>3. QED
    BY <2>1, <2>2, ChainForks
<1>8. CASE ChainFails
  <2>1. PICK c \in chain : /\ chain' = chain \ {c}
                           /\ \E j \in Rejected(job[c.job], c.runAt) : job' = [job EXCEPT ![c.job] = j]
                           /\ UNCHANGED slot
    BY <1>8 DEF ChainFails
  <2>2. PICK j \in Rejected(job[c.job], c.runAt) : job' = [job EXCEPT ![c.job] = j]
    BY <2>1
  <2>3. j \in Job
    BY <1>0, RejectedType
  <2>4. QED
    BY <2>1, <2>2, <2>3, ChainForks
<1>9. ASSUME NEW q \in JobIds, Cancel(q)
      PROVE  Forked(r)' => Forked(r)
  <2>1. /\ job'[q].state = "cancelled" /\ \A p \in JobIds \ {q} : job'[p] = job[p]
        /\ UNCHANGED <<slot, chain>>
    BY <1>0, <1>9 DEF Cancel, Job
  <2>2. Waits(r)' => Waits(r)
    BY <2>1 DEF Waits, OPEN
  <2>3. Handling(r)' = Handling(r)
    BY <2>1 DEF Handling
  <2>4. QED
    BY <2>1, <2>2, <2>3, NoNewPlace
<1>12. CASE ClaimFails
  <2>1. PICK q \in JobIds :
          /\ job[q].state = "armed"
          /\ \E j : job' = [job EXCEPT ![q] = j]
    BY <1>12 DEF ClaimFails
  <2>2. UNCHANGED <<slot, chain>> /\ \A p \in JobIds \ {q} : job'[p] = job[p]
    BY <1>0, <1>12, <2>1 DEF ClaimFails
  <2>3. job[q].by = Nobody
    BY <1>0, <2>1, NobodyRunsArmed
  <2>4. Waits(r)' => Waits(r)
    BY <2>1, <2>2, <2>3 DEF Waits, OPEN
  <2>5. Handling(r)' = Handling(r)
    BY <2>2 DEF Handling
  <2>6. QED
    BY <2>2, <2>4, <2>5, NoNewPlace
<1>13. ASSUME NEW w \in Slots, MarkedLate(w)
       PROVE  Forked(r)' => Forked(r)
  <2>1. /\ job'[slot[w].job].by = w /\ UNCHANGED <<slot, chain>>
        /\ \A p \in JobIds \ {slot[w].job} : job'[p] = job[p]
    BY <1>0, <1>13 DEF MarkedLate, Job
  <2>2. Waits(r)' => Waits(r)
    BY <1>0, <2>1 DEF Waits
  <2>3. Handling(r)' = Handling(r)
    BY <2>1 DEF Handling
  <2>4. QED
    BY <2>1, <2>2, <2>3, NoNewPlace
<1>10. CASE Exit \/ Crash
  <2>1. chain' = {} /\ \A w \in Slots : slot'[w].pc = "idle"
    BY <1>0, <1>10 DEF Exit, Crash, Slot
  <2>2. QED
    BY <2>1 DEF Forked, Chaining, Handling
<1>14. QED
  BY <1>1, <1>2, <1>3, <1>4, <1>5, <1>6, <1>7, <1>8, <1>9, <1>10, <1>12, <1>13
     DEF Next, BootStep, RunStep, Idle

-----------------------------------------------------------------------------
(* Chains that were ended                                                  *)

\* Nothing arms a job again whose chain was ended, while the server is up.
LEMMA StepKeepsEnded ==
  ASSUME TypeInv, GapInv, [Next]_vars, NEW r \in JobIds, Ended(r), process = "up"
  PROVE  Ended(r)' \/ process' # "up"
<1>0. /\ job \in [JobIds -> Job] /\ slot \in [Slots -> Slot] /\ Nobody \notin Slots
      /\ chain \subseteq [job : JobIds, runAt : Times]
      /\ \A w \in Slots : job[r].by # w
  BY TypeParts, ConfiguredAssumption DEF TypeInv, GapInv, RunnersRun, Ended
<1>1. ASSUME job'[r] = job[r], \A c \in chain' : c.job = r => c \in chain,
             \A w \in Slots : slot'[w] = slot[w] \/ slot'[w].job # r \/ slot'[w].pc # "handler"
      PROVE  Ended(r)'
  <2>1. Handling(r)' \subseteq Handling(r)
    BY <1>1, OtherPlaces
  <2>2. QED
    BY <1>1, <2>1 DEF Ended, Chaining
<1>2. CASE Start \/ Reconcile \/ SetUp \/ SetUpFails \/ Listen
  BY <1>2 DEF Start, Reconcile, SetUp, SetUpFails, Listen
<1>3. CASE Shutdown \/ Tick \/ UNCHANGED vars
  <2>1. UNCHANGED <<job, slot, chain>>
    BY <1>3 DEF Shutdown, Tick, vars
  <2>2. QED
    BY <1>1, <2>1
<1>4. ASSUME NEW w \in Slots, Deliver(w)
      PROVE  Ended(r)'
  <2>1. PICK q \in JobIds :
          /\ job[q].state = "armed"
          /\ job' = [job EXCEPT ![q].state = "running", ![q].by = w, ![q].attempts = @ + 1]
          /\ slot' = [slot EXCEPT ![w] = [pc |-> "handler", job |-> q]]
          /\ chain' = chain
    BY <1>4 DEF Deliver
  <2>2. q # r
    BY <2>1 DEF Ended
  <2>3. QED
    BY <1>0, <1>1, <2>1, <2>2
<1>5. ASSUME NEW w \in Slots, HandlerReturns(w)
      PROVE  Ended(r)'
  <2>1. /\ chain' = chain \cup {[job |-> slot[w].job, runAt |-> NextRunAt(now)]}
        /\ UNCHANGED job /\ slot' = [slot EXCEPT ![w].pc = "complete"]
        /\ slot[w].pc = "handler"
    BY <1>5 DEF HandlerReturns
  <2>2. slot[w].job # r
    BY <2>1 DEF Ended, Handling
  <2>3. slot'[w].pc # "handler" /\ \A v \in Slots \ {w} : slot'[v] = slot[v]
    BY <1>0, <2>1 DEF Slot
  <2>4. QED
    BY <1>1, <2>1, <2>2, <2>3
<1>6. ASSUME NEW w \in Slots, HandlerThrows(w) \/ Complete(w) \/ UpdateFails(w)
      PROVE  Ended(r)'
  <2>1. PICK j \in Job : Settle(w, j)
    <3>1. job[slot[w].job] \in Job
      BY <1>0 DEF Slot
    <3>2. QED
      BY <1>6, <3>1, AfterFailureType, AfterSuccessType DEF HandlerThrows, Complete, UpdateFails
  <2>2. /\ job'[r] = job[r] /\ slot'[w].pc = "idle"
        /\ \A v \in Slots \ {w} : slot'[v] = slot[v]
    BY <1>0, <2>1, SettleEffect
  <2>3. chain' = chain
    BY <1>6 DEF HandlerThrows, Complete, UpdateFails
  <2>4. QED
    BY <1>1, <2>2, <2>3
<1>7. CASE ChainScheduled \/ ChainFails
  <2>1. PICK c \in chain : /\ chain' = chain \ {c} /\ UNCHANGED slot
                           /\ \E j : job' = [job EXCEPT ![c.job] = j]
    BY <1>7 DEF ChainScheduled, ChainFails
  <2>2. c.job # r
    BY DEF Ended, Chaining
  <2>3. QED
    BY <1>0, <1>1, <2>1, <2>2
<1>8. ASSUME NEW q \in JobIds, Cancel(q)
      PROVE  Ended(r)'
  <2>1. /\ job[q].state \in OPEN /\ UNCHANGED <<slot, chain>>
        /\ job' = [job EXCEPT ![q].state = "cancelled", ![q].by = Nobody]
    BY <1>8 DEF Cancel
  <2>2. q # r
    BY <2>1 DEF Ended, OPEN
  <2>3. QED
    BY <1>0, <1>1, <2>1, <2>2
<1>9. CASE Exit \/ Crash
  BY <1>9 DEF Exit, Crash
<1>10. CASE ClaimFails
  <2>1. PICK q \in JobIds : job[q].state = "armed" /\ \E j : job' = [job EXCEPT ![q] = j]
    BY <1>10 DEF ClaimFails
  <2>2. q # r /\ UNCHANGED <<slot, chain>>
    BY <1>10, <2>1 DEF ClaimFails, Ended
  <2>3. QED
    BY <1>0, <1>1, <2>1, <2>2
<1>11. ASSUME NEW w \in Slots, MarkedLate(w)
       PROVE  Ended(r)'
  <2>1. /\ job[slot[w].job].by = w /\ UNCHANGED <<slot, chain>>
        /\ job' = [job EXCEPT ![slot[w].job].state = "queued"]
    BY <1>11 DEF MarkedLate
  <2>2. slot[w].job # r
    BY <1>0, <2>1
  <2>3. QED
    BY <1>0, <1>1, <2>1, <2>2
<1>12. QED
  BY <1>2, <1>3, <1>4, <1>5, <1>6, <1>7, <1>8, <1>9, <1>10, <1>11 DEF Next, BootStep, RunStep, Idle

-----------------------------------------------------------------------------
(* A recurring job has one chain, unless the setup at startup repeats an    *)
(* occurrence, or markCompleted fails or misses after a success, for any    *)
(* number of jobs, slots, exits and faults.                                 *)
THEOREM ForkedOnlyByRepetitionHolds == Spec => ForkedOnlyByRepetition
<1>1. TypeInv /\ GapInv /\ [Next]_vars =>
        [\A r \in JobIds :
           Forked(r)' => \/ Forked(r)
                         \/ (SetUp \/ SetUpFails) /\ r = Head(todo)
                         \/ SuccessMissed(r)
                         \/ \E w \in Slots : /\ UpdateFails(w)
                                             /\ slot[w].pc = "complete" /\ slot[w].job = r]_vars
  BY StepForks DEF Repeats
<1>2. QED
  BY <1>1, InitGap, TypeStep, GapStep, PTL DEF Spec, ForkedOnlyByRepetition

(* A chain that was ended does not go on before the next startup, for any   *)
(* number of jobs, slots, exits and faults.                                 *)
THEOREM EndedUntilStartupHolds == Spec => EndedUntilStartup
<1>1. TypeInv /\ GapInv /\ [Next]_vars =>
        [\A r \in JobIds : Ended(r) /\ process = "up" => Ended(r)' \/ process' # "up"]_vars
  BY StepKeepsEnded
<1>2. QED
  BY <1>1, InitGap, TypeStep, GapStep, PTL DEF Spec, EndedUntilStartup
=============================================================================
