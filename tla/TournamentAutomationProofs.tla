------------------------ MODULE TournamentAutomationProofs ------------------------
(***************************************************************************)
(* Theorems about TournamentAutomation, for any stages, tournaments,       *)
(* slots and requests, and any number of edits and faults.                 *)
(***************************************************************************)
EXTENDS TournamentAutomation, StageAutomationProofs

\* A check goes on with a tournament or a stage only if it read one that is
\* not over.
LiveDoc == [status : TOURNAMENT_STATUS \ OVER, startDate : Times, endDate : Times]
PreviousLive == \A w \in Checkers : check[w].pc = "update" => check[w].previous.status \notin OVER

Instant   == Date \cup {MaxTime + 1, MaxTime + TRIGGER_DELAY}
TJob      == Jobs(Instant)
TFinding  == [pc : {"find"}, tournamentId : Tournaments, now : Times]
TUpdating == [pc : {"update"}, tournamentId : Tournaments, now : Times, read : LiveDoc,
              newStatus : TOURNAMENT_STATUS]
TEnding   == [pc : {"complete"}, tournamentId : Tournaments]
TCheck    == Idling \cup TFinding \cup TUpdating \cup TEnding
TAsking   == [pc : {"idle", "done", "failed"}] \cup [pc : {"cancel"}, tournamentId : Tournaments]
               \cup [pc : {"schedule"}, tournamentId : Tournaments, runAt : Times]

TournamentInv ==
  /\ tournament \in [Tournaments -> TournamentDoc]
  /\ tjob \in [Tournaments -> TJob]
  /\ tcheck \in [Checkers -> TCheck]
  /\ trequest \in [TournamentRequests -> TAsking]
  /\ lost \subseteq Tournaments

\* What the sync has listed is asked for at a time there is.
SyncInv ==
  /\ sync \in [state : {"never", "awaited", "asked", "died"}, runAt : Date,
               tournaments : SUBSET Tournaments, stages : SUBSET Stages]
  /\ sync.tournaments # {} \/ sync.stages # {} => sync.runAt \in Times

\* A slot runs one check, and has triggered the tournament's in its side effects.
SlotsInv ==
  /\ triggered \subseteq Checkers
  /\ \A w \in triggered : check[w].pc = "sideEffects"
  /\ \A w \in Checkers : tcheck[w].pc # "idle" => check[w].pc = "idle"

AutomationInv == TypeInv /\ TournamentInv /\ SyncInv /\ SlotsInv /\ PreviousLive

-----------------------------------------------------------------------------
\* What a tournament check may read and write, by how far it is.
LEMMA TCheckShape ==
  ASSUME NEW c \in TCheck
  PROVE  /\ c.pc \in {"idle", "find", "update", "complete"}
         /\ c.pc # "idle" => c.tournamentId \in Tournaments
         /\ c.pc \in {"find", "update"} => c.now \in Times
         /\ c.pc = "find" => c \in TFinding
         /\ c.pc = "update" => c \in TUpdating
BY DEF TCheck, Idling, TFinding, TUpdating, TEnding

\* A new schedule of a tournament's check, or none, has its type.
LEMMA TScheduleTypes ==
  /\ Off \in Instant
  /\ NoJob \in TJob /\ Dead \in TJob
  /\ \A t \in Instant : Armed(t, NoChain) \in TJob
<1>1. Off \in Instant
  BY BoundsFacts DEF Instant
<1>2. QED
  BY <1>1, SchedulesFor DEF TJob

\* The check and the job that an ended tournament check leaves.
LEMMA EndTournamentCheckType ==
  ASSUME TournamentInv, NEW w \in Checkers, NEW t \in Tournaments, NEW j \in TJob,
         EndTournamentCheck(w, t, j)
  PROVE  tjob' \in [Tournaments -> TJob] /\ tcheck' \in [Checkers -> TCheck]
BY DEF TournamentInv, EndTournamentCheck, IdleCheck, TCheck, Idling

\* The tournament's job alone takes another value that has its type.
LEMMA TJobType ==
  ASSUME TournamentInv, NEW t \in Tournaments, NEW j \in TJob, tjob' = [tjob EXCEPT ![t] = j],
         UNCHANGED <<tournament, tcheck, trequest, lost>>
  PROVE  TournamentInv'
BY DEF TournamentInv

\* A derived status is a status.
LEMMA DeriveTournamentType ==
  ASSUME NEW d \in TournamentDoc, NEW t
  PROVE  DeriveTournamentStatus(d, t) \in TOURNAMENT_STATUS
BY DEF DeriveTournamentStatus, TOURNAMENT_STATUS, TournamentDoc

\* The trigger is for at most a second after the last instant there is.
LEMMA TriggerTime ==
  ASSUME TypeInv, NEW w \in Checkers, check[w].pc = "sideEffects"
  PROVE  /\ \A began \in check[w].now .. now : began + TRIGGER_DELAY \in Instant
         /\ check[w].stageId \in Stages
<1>1. check[w] \in Following /\ now \in Times
  BY CheckShape DEF TypeInv
<1>2. check[w].now \in Times /\ check[w].stageId \in Stages
  BY <1>1 DEF Following
<1>3. ASSUME NEW began \in check[w].now .. now
      PROVE  began + TRIGGER_DELAY \in Instant
  <2>1. began \in 0 .. MaxTime /\ MaxTime \in Nat
    BY <1>1, <1>2, <1>3, BoundsFacts DEF Times
  <2>2. QED
    BY <2>1 DEF Instant, Date, Times, TRIGGER_DELAY
<1>4. QED
  BY <1>2, <1>3

\* So it is a schedule of the tournament's check.
LEMMA TriggerType ==
  ASSUME TypeInv, NEW w \in Checkers, check[w].pc = "sideEffects"
  PROVE  /\ Triggers(w) \subseteq TJob /\ TournamentOf[check[w].stageId] \in Tournaments
         /\ \A new \in Triggers(w) : \E runAt : new = Armed(runAt, NoChain)
BY TriggerTime, TScheduleTypes, TournamentAssumption DEF Triggers

-----------------------------------------------------------------------------
(* The stages' variables                                                   *)

\* A step that only counts an edit or a fault.
Counts == /\ UNCHANGED <<now, stage, job, check, request>>
          /\ \/ Fault /\ UNCHANGED edits
             \/ edits < MaxEdits /\ edits' = edits + 1 /\ UNCHANGED faults

\* It keeps the types.
LEMMA CountsKeepType ==
  ASSUME TypeInv, Counts
  PROVE  TypeInv'
BY BoundsFacts DEF TypeInv, Counts, Fault

\* So does a request of the sync, at a time there is.
LEMMA FindForKeepsType ==
  ASSUME TypeInv, NEW r \in Requests, NEW s \in Stages, NEW t \in Times, FindFor(r, s, t)
  PROVE  TypeInv'
<1>1. [pc |-> "cancel", stageId |-> s] \in Asking
      /\ [pc |-> "schedule", stageId |-> s, runAt |-> t] \in Asking
  BY DEF Asking
<1>2. QED
  BY <1>1 DEF TypeInv, FindFor

\* What a step is for the stages.
LEMMA StagesSteps ==
  ASSUME AutomationInv, AutomationNext
  PROVE  \/ [AnyStep]_vars
         \/ Counts
         \/ \E s \in Stages : s \in sync.stages /\ FindFor(SyncStage[s], s, sync.runAt)
<1>1. CASE Deliver
  <2>1. FreeSlots # {} => (CHOOSE w \in FreeSlots : TRUE) \in Checkers
    BY DEF FreeSlots
  <2>2. QED
    BY <1>1, <2>1 DEF Deliver, StartTournamentCheck, AnyStep
<1>2. CASE \E w \in Checkers : StageCheckStep(w) \/ TournamentCheckStep(w)
  BY <1>2 DEF StageCheckStep, TournamentCheckStep, TriggerTournament, AfterTrigger, FindTournament,
              UpdateTournament, CompleteTournamentCheck, AnyStep, CheckStep
<1>3. CASE \E w \in Checkers : TriggerFails(w) \/ StageCheckFails(w) \/ TournamentCheckFails(w)
  BY <1>3 DEF TriggerFails, StageCheckFails, TournamentCheckFails, Counts, AnyStep
<1>4. CASE \E r \in Requests : AskForStage(r) \/ StageRequestStep(r) \/ (RequestFails(r) /\ UNCHANGED tvars)
  BY <1>4 DEF AskForStage, StageRequestStep, AnyStep
<1>5. CASE \E r \in TournamentRequests : AskForTournament(r) \/ TournamentRequestStep(r)
                                           \/ TournamentRequestFails(r)
  BY <1>5 DEF AskForTournament, FindTournamentFor, FindTournamentFails, TournamentRequestStep,
              TournamentRequestFails, Counts
<1>6. CASE BeginSync \/ SyncStep
  BY <1>6 DEF BeginSync, SyncStep, SyncTheTournament, FindTournamentFor, SyncTheStage
<1>7. CASE SyncFindFails
  <2>1. \A s \in sync.stages : SyncStage[s] \in Requests
    BY TournamentAssumption DEF AutomationInv, SyncInv
  <2>2. QED
    BY <1>7, <2>1 DEF SyncFindFails, FindTournamentFails, Counts, AnyStep
<1>8. CASE \/ \E s \in Stages : (Repair(s) \/ MarkedLate(s)) /\ UNCHANGED tvars
           \/ \E t \in Tournaments : RepairTournament(t) \/ TournamentMarkedLate(t)
           \/ NotDelivered
  BY <1>8 DEF RepairTournament, TournamentMarkedLate, NotDelivered, TournamentClaimFails, Counts, AnyStep
<1>9. CASE ServerDies
  BY <1>9 DEF ServerDies, AutomationInv, SlotsInv, AnyStep
<1>10. CASE EditTournament \/ ((Edit \/ Tick) /\ UNCHANGED tvars) \/ AllIdle
  BY <1>10 DEF EditTournament, Counts, AllIdle, AnyStep
<1>11. QED
  BY <1>1, <1>2, <1>3, <1>4, <1>5, <1>6, <1>7, <1>8, <1>9, <1>10 DEF AutomationNext

\* A step of the automation keeps the types of the stages' part.
LEMMA StagesKeepType ==
  ASSUME AutomationInv, AutomationNext
  PROVE  TypeInv'
<1>1. ASSUME NEW s \in Stages, s \in sync.stages, FindFor(SyncStage[s], s, sync.runAt)
      PROVE  TypeInv'
  <2>1. sync.runAt \in Times /\ SyncStage[s] \in Requests
    BY <1>1, TournamentAssumption DEF AutomationInv, SyncInv
  <2>2. QED
    BY <1>1, <2>1, FindForKeepsType DEF AutomationInv
<1>2. QED
  BY <1>1, StagesSteps, TypeStep, CountsKeepType DEF AutomationInv

-----------------------------------------------------------------------------
(* Slots                                                                   *)

\* The stage check of slot w is under way, and nothing happens to the others.
Moves(w) == check[w].pc # "idle" /\ \A i \in Checkers : i # w => check'[i] = check[i]

\* Every step of a check that is under way is one.
LEMMA StageChecksMove ==
  ASSUME TypeInv, NEW w \in Checkers, CheckStep(w) \/ CancelFails(w) \/ ChainFails(w) \/ CheckFails(w)
  PROVE  /\ Moves(w)
         /\ check'[w].pc = "update" =>
              check[w].pc = "find" /\ check'[w].previous.status \notin OVER
<1>1. CASE FindStage(w)
  <2> DEFINE s == check[w].stageId
             c2 == [pc |-> "update", stageId |-> s, now |-> check[w].now, previous |-> stage[s],
                    newStatus |-> DeriveStageStatus(stage[s], check[w].now)]
  <2>1. CASE check' = [check EXCEPT ![w] = [pc |-> "complete", stageId |-> s]]
    BY <1>1, <2>1 DEF FindStage, Moves, TypeInv
  <2>2. CASE stage[s].status \notin OVER /\ check' = [check EXCEPT ![w] = c2]
    <3>1. c2.previous.status \notin OVER /\ check[w].pc = "find"
      BY <1>1, <2>2 DEF FindStage
    <3> HIDE DEF c2
    <3>2. QED
      BY <2>2, <3>1 DEF Moves, TypeInv
  <2>3. QED
    BY <1>1, <2>1, <2>2 DEF FindStage, OVER
<1>2. CASE UpdateStage(w)
  <2>1. check' = [check EXCEPT ![w] = [check[w] EXCEPT !.pc = "refresh"]]
        /\ check[w] \in Updating /\ check[w].pc = "update"
    BY <1>2, CheckShape DEF UpdateStage, TypeInv
  <2>2. [check[w] EXCEPT !.pc = "refresh"].pc = "refresh"
    BY <2>1 DEF Updating
  <2> DEFINE c2 == [check[w] EXCEPT !.pc = "refresh"]
  <2>3. check' = [check EXCEPT ![w] = c2] /\ c2.pc = "refresh"
    BY <2>1, <2>2
  <2> HIDE DEF c2
  <2>4. QED
    BY <2>1, <2>3 DEF Moves, TypeInv
<1>3. CASE RefreshStage(w) \/ RejectPending(w) \/ CompleteCheck(w)
  <2>1. CASE RejectPending(w)
    <3>1. [check[w] EXCEPT !.pc = "complete"].pc = "complete"
      BY <2>1, CheckShape DEF RejectPending, TypeInv, Ending
    <3>2. check' = [check EXCEPT ![w] = [check[w] EXCEPT !.pc = "complete"]] /\ check[w].pc = "reject"
      BY <2>1 DEF RejectPending, TypeInv
    <3> DEFINE c2 == [check[w] EXCEPT !.pc = "complete"]
    <3>3. c2.pc = "complete" /\ check' = [check EXCEPT ![w] = c2]
      BY <3>1, <3>2
    <3> HIDE DEF c2
    <3>4. QED
      BY <3>2, <3>3 DEF Moves, TypeInv
  <2>2. CASE RefreshStage(w) \/ CompleteCheck(w)
    BY <2>2 DEF RefreshStage, CompleteCheck, EndCheck, IdleCheck, Moves, TypeInv
  <2>3. QED
    BY <1>3, <2>1, <2>2
<1>4. CASE RunStageSideEffects(w) \/ CancelFails(w)
  <2>1. check[w].pc = "sideEffects" /\ \E j : AfterSideEffects(w, j)
    BY <1>4 DEF RunStageSideEffects, CancelFails
  <2>2. QED
    BY <2>1 DEF AfterSideEffects, Moves, TypeInv
<1>5. CASE ChainFails(w) \/ CheckFails(w)
  BY <1>5 DEF ChainFails, CheckFails, EndCheck, IdleCheck, Moves, TypeInv
<1>6. QED
  BY <1>1, <1>2, <1>3, <1>4, <1>5 DEF CheckStep

\* A slot whose stage check moves on has no other check, nor triggers without.
LEMMA MovesKeepSlots ==
  ASSUME AutomationInv, NEW w \in Checkers, Moves(w), UNCHANGED tcheck,
         triggered' = triggered \ {w} \/ (UNCHANGED triggered /\ check[w].pc # "sideEffects"),
         check'[w].pc = "update" => check'[w].previous.status \notin OVER
  PROVE  SlotsInv' /\ PreviousLive'
<1>1. /\ check[w].pc # "idle" /\ \A i \in Checkers : i # w => check'[i] = check[i]
  BY DEF Moves, AutomationInv, TypeInv
<1>2. tcheck[w].pc = "idle"
  BY <1>1 DEF AutomationInv, SlotsInv
<1>3. SlotsInv'
  BY <1>1, <1>2 DEF AutomationInv, SlotsInv
<1>4. PreviousLive'
  BY <1>1 DEF AutomationInv, PreviousLive
<1>5. QED
  BY <1>3, <1>4

\* A step that leaves the stage checks alone.
LEMMA StillSlots ==
  ASSUME AutomationInv, UNCHANGED <<check, tcheck, triggered>>
  PROVE  SlotsInv' /\ PreviousLive'
BY DEF AutomationInv, SlotsInv, PreviousLive

\* Every step keeps one check per slot.
LEMMA StepKeepsSlots ==
  ASSUME AutomationInv, AutomationNext
  PROVE  SlotsInv' /\ PreviousLive'
<1>0. TypeInv /\ check \in [Checkers -> Check] /\ tcheck \in [Checkers -> TCheck]
  BY DEF AutomationInv, TypeInv, TournamentInv
<1>1. CASE Deliver
  <2>1. PICK w \in Checkers : /\ check[w].pc = "idle" /\ tcheck[w].pc = "idle"
                              /\ (StartCheck(w) /\ UNCHANGED tvars) \/ StartTournamentCheck(w)
    BY <1>1 DEF Deliver, FreeSlots
  <2>2. w \notin triggered
    BY <2>1 DEF AutomationInv, SlotsInv
  <2>3. CASE StartCheck(w) /\ UNCHANGED tvars
    <3>1. check'[w].pc = "find" /\ \A i \in Checkers : i # w => check'[i] = check[i]
      BY <1>0, <2>3 DEF StartCheck
    <3>2. UNCHANGED <<tcheck, triggered>>
      BY <2>3 DEF tvars
    <3>3. SlotsInv'
      BY <2>1, <2>2, <3>1, <3>2 DEF AutomationInv, SlotsInv
    <3>4. PreviousLive'
      BY <3>1 DEF AutomationInv, PreviousLive
    <3>5. QED
      BY <3>3, <3>4
  <2>4. CASE StartTournamentCheck(w)
    BY <1>0, <2>1, <2>2, <2>4 DEF AutomationInv, SlotsInv, PreviousLive, StartTournamentCheck, vars
  <2>5. QED
    BY <2>1, <2>3, <2>4
<1>2. ASSUME NEW w \in Checkers, StageCheckStep(w) PROVE SlotsInv' /\ PreviousLive'
  <2>1. CASE /\ FindStage(w) \/ UpdateStage(w) \/ RefreshStage(w) \/ RejectPending(w) \/ CompleteCheck(w)
             /\ UNCHANGED tvars
    <3>1. CheckStep(w) /\ check[w].pc # "sideEffects"
      BY <2>1 DEF CheckStep, FindStage, UpdateStage, RefreshStage, RejectPending, CompleteCheck
    <3>2. QED
      BY <1>0, <2>1, <3>1, StageChecksMove, MovesKeepSlots DEF tvars
  <2>2. CASE TriggerTournament(w)
    BY <2>2 DEF TriggerTournament, AutomationInv, SlotsInv, PreviousLive, vars
  <2>3. CASE AfterTrigger(w)
    <3>1. CheckStep(w) \/ CancelFails(w) \/ ChainFails(w)
      BY <2>3 DEF AfterTrigger, CheckStep
    <3>2. QED
      BY <1>0, <2>3, <3>1, StageChecksMove, MovesKeepSlots DEF AfterTrigger
  <2>4. QED
    BY <1>2, <2>1, <2>2, <2>3 DEF StageCheckStep
<1>3. ASSUME NEW w \in Checkers, TriggerFails(w) PROVE SlotsInv' /\ PreviousLive'
  BY <1>3 DEF TriggerFails, AutomationInv, SlotsInv, PreviousLive
<1>4. ASSUME NEW w \in Checkers, StageCheckFails(w) PROVE SlotsInv' /\ PreviousLive'
  BY <1>0, <1>4, StageChecksMove, MovesKeepSlots DEF StageCheckFails, CheckFails
<1>5. ASSUME NEW w \in Checkers, TournamentCheckStep(w) \/ TournamentCheckFails(w)
      PROVE  SlotsInv' /\ PreviousLive'
  <2>1. /\ tcheck[w].pc # "idle" /\ UNCHANGED <<check, triggered>>
        /\ \A i \in Checkers : i # w => tcheck'[i] = tcheck[i]
    BY <1>0, <1>5 DEF TournamentCheckStep, TournamentCheckFails, FindTournament, UpdateTournament,
                      CompleteTournamentCheck, EndTournamentCheck, vars
  <2>2. QED
    BY <2>1 DEF AutomationInv, SlotsInv, PreviousLive
<1>6. CASE \/ \E r \in Requests : \/ AskForStage(r) \/ StageRequestStep(r)
                                  \/ (RequestFails(r) /\ UNCHANGED tvars)
           \/ \E r \in TournamentRequests : AskForTournament(r) \/ TournamentRequestStep(r)
                                             \/ TournamentRequestFails(r)
           \/ \E s \in Stages : (Repair(s) \/ MarkedLate(s)) /\ UNCHANGED tvars
           \/ \E t \in Tournaments : RepairTournament(t) \/ TournamentMarkedLate(t)
           \/ BeginSync \/ SyncStep \/ SyncFindFails \/ NotDelivered
           \/ EditTournament \/ ((Edit \/ Tick) /\ UNCHANGED tvars)
           \/ AllIdle
  <2>1. UNCHANGED <<check, tcheck, triggered>>
    BY <1>6
    DEF AskForStage, StageRequestStep, RequestFails, FindRequested, FindFor, FindFails, RequestStep,
        ScheduleRequested, CancelRequested, AskForTournament, FindTournamentFor, FindTournamentFails,
        TournamentRequestStep, TournamentRequestFails, Repair, MarkedLate, RepairTournament,
        TournamentMarkedLate, BeginSync, SyncStep, SyncTheTournament, SyncTheStage, SyncFindFails,
        NotDelivered, ClaimFails, TournamentClaimFails, EditTournament, Edit, Tick, AllIdle, Idle,
        vars, tvars
  <2>2. QED
    BY <2>1, StillSlots
<1>7. CASE ServerDies
  <2>1. /\ triggered' = {} /\ \A w \in Checkers : check'[w].pc = "idle" /\ tcheck'[w].pc = "idle"
    BY <1>7 DEF ServerDies, Crash, IdleCheck
  <2>2. QED
    BY <2>1 DEF SlotsInv, PreviousLive
<1>8. QED
  BY <1>1, <1>2, <1>3, <1>4, <1>5, <1>6, <1>7 DEF AutomationNext

-----------------------------------------------------------------------------
(* The tournaments' variables                                              *)

\* A step that leaves them alone.
LEMMA StillTournaments ==
  ASSUME AutomationInv, UNCHANGED <<tournament, tjob, tcheck, trequest, lost>>
  PROVE  TournamentInv'
BY DEF AutomationInv, TournamentInv

\* Every step of a tournament check keeps the types.
LEMMA TournamentCheckType ==
  ASSUME AutomationInv, NEW w \in Checkers,
         StartTournamentCheck(w) \/ TournamentCheckStep(w) \/ TournamentCheckFails(w)
  PROVE  TournamentInv'
<1>0. /\ now \in Times /\ tournament \in [Tournaments -> TournamentDoc]
      /\ tjob \in [Tournaments -> TJob] /\ tcheck \in [Checkers -> TCheck] /\ tcheck[w] \in TCheck
      /\ TournamentInv
  BY DEF AutomationInv, TypeInv, TournamentInv
<1>1. CASE StartTournamentCheck(w)
  <2>1. PICK t \in Tournaments :
          /\ tjob' = [tjob EXCEPT ![t] = [NoJob EXCEPT !.state = "running", !.by = w,
                                                       !.attempts = tjob[t].attempts + 1,
                                                       !.failures = tjob[t].failures]]
          /\ tcheck' = [tcheck EXCEPT ![w] = [pc |-> "find", tournamentId |-> t, now |-> now]]
          /\ tjob[t].state = "armed"
    BY <1>1 DEF StartTournamentCheck, Due
  <2>2. [NoJob EXCEPT !.state = "running", !.by = w, !.attempts = tjob[t].attempts + 1,
                      !.failures = tjob[t].failures] \in TJob
    <3>1. tjob[t] \in Jobs(Instant) /\ Off \in Instant
      BY <1>0, TScheduleTypes DEF TJob
    <3>2. QED
      BY <2>1, <3>1, ClaimedFor DEF TJob
  <2>3. [pc |-> "find", tournamentId |-> t, now |-> now] \in TCheck
    BY <1>0 DEF TCheck, TFinding
  <2>4. tjob' \in [Tournaments -> TJob] /\ tcheck' \in [Checkers -> TCheck]
    BY <1>0, <2>1, <2>2, <2>3
  <2>5. QED
    BY <1>0, <1>1, <2>4 DEF StartTournamentCheck, TournamentInv
<1>2. CASE FindTournament(w)
  <2> DEFINE t == tcheck[w].tournamentId
             d == tournament[t]
             newStatus == DeriveTournamentStatus(d, tcheck[w].now)
  <2>1. t \in Tournaments /\ tcheck[w].now \in Times /\ d \in TournamentDoc
    BY <1>0, <1>2, TCheckShape DEF FindTournament
  <2>2. newStatus \in TOURNAMENT_STATUS
    BY <2>1, DeriveTournamentType
  <2>3. CASE tcheck' = [tcheck EXCEPT ![w] = [pc |-> "complete", tournamentId |-> t]]
    <3>1. [pc |-> "complete", tournamentId |-> t] \in TCheck
      BY <2>1 DEF TCheck, TEnding
    <3>2. QED
      BY <1>0, <1>2, <2>3, <3>1 DEF FindTournament, TournamentInv
  <2>4. CASE /\ ~SkipsTournament(d)
             /\ tcheck' = [tcheck EXCEPT ![w] = [pc |-> "update", tournamentId |-> t,
                                                 now |-> tcheck[w].now,
                                                 read |-> d, newStatus |-> newStatus]]
    <3>1. d \in LiveDoc
      BY <2>1, <2>4 DEF SkipsTournament, LiveDoc, TournamentDoc
    <3>2. [pc |-> "update", tournamentId |-> t, now |-> tcheck[w].now, read |-> d,
           newStatus |-> newStatus] \in TUpdating
      BY <2>1, <2>2, <3>1 DEF TUpdating
    <3>3. tcheck' \in [Checkers -> TCheck]
      BY <1>0, <2>4, <3>2 DEF TCheck
    <3>4. QED
      BY <1>0, <1>2, <2>4, <3>3 DEF FindTournament, TournamentInv
  <2>5. QED
    BY <1>2, <2>3, <2>4 DEF FindTournament
<1>3. CASE UpdateTournament(w)
  <2>1. tcheck[w] \in TUpdating
    BY <1>0, <1>3, TCheckShape DEF UpdateTournament
  <2>2. tournament' \in [Tournaments -> TournamentDoc]
    BY <1>0, <1>3, <2>1 DEF UpdateTournament, TUpdating, TournamentDoc
  <2>3. [pc |-> "complete", tournamentId |-> tcheck[w].tournamentId] \in TCheck
    BY <2>1 DEF TUpdating, TCheck, TEnding
  <2>4. tcheck' \in [Checkers -> TCheck]
    BY <1>0, <1>3, <2>3 DEF UpdateTournament
  <2>5. QED
    BY <1>0, <1>3, <2>2, <2>4 DEF UpdateTournament, TournamentInv
<1>4. CASE TournamentCheckFails(w) \/ CompleteTournamentCheck(w)
  <2> DEFINE t == tcheck[w].tournamentId
  <2>1. t \in Tournaments
    BY <1>0, <1>4, TCheckShape DEF TournamentCheckFails, CompleteTournamentCheck
  <2>2. AfterError(tjob[t]) \subseteq TJob /\ AfterSuccess(tjob[t]) \in TJob
    BY <1>0, <2>1, TScheduleTypes, OutcomesFor DEF TJob
  <2>3. \E j \in TJob : EndTournamentCheck(w, t, j)
    BY <1>4, <2>2 DEF TournamentCheckFails, CompleteTournamentCheck
  <2>4. tjob' \in [Tournaments -> TJob] /\ tcheck' \in [Checkers -> TCheck]
    BY <1>0, <2>1, <2>3, EndTournamentCheckType
  <2>5. QED
    BY <1>0, <1>4, <2>4 DEF TournamentCheckFails, CompleteTournamentCheck, TournamentInv
<1>5. QED
  BY <1>1, <1>2, <1>3, <1>4 DEF TournamentCheckStep

\* So does the trigger, whether it fails or not.
LEMMA TriggersType ==
  ASSUME AutomationInv, NEW w \in Checkers, TriggerTournament(w) \/ TriggerFails(w)
  PROVE  TournamentInv'
<1>0. TournamentInv /\ TypeInv /\ tjob \in [Tournaments -> TJob] /\ now \in Times
  BY DEF AutomationInv, TypeInv, TournamentInv
<1> DEFINE t == TournamentOf[check[w].stageId]
<1>1. Triggers(w) \subseteq TJob /\ t \in Tournaments
  BY <1>0, TriggerType DEF TriggerTournament, TriggerFails
<1>2. CASE TriggerTournament(w)
  <2>1. \E j \in TJob : tjob' = [tjob EXCEPT ![t] = j]
    BY <1>1, <1>2 DEF TriggerTournament
  <2>2. QED
    BY <1>0, <1>1, <1>2, <2>1, TJobType DEF TriggerTournament
<1>3. CASE TriggerFails(w)
  <2>1. PICK new \in Triggers(w) : \E j \in Rejected(tjob[t], new) : tjob' = [tjob EXCEPT ![t] = j]
    BY <1>3 DEF TriggerFails
  <2>2. Rejected(tjob[t], new) \subseteq TJob
    BY <1>0, <1>1, TScheduleTypes, OutcomesFor DEF TJob
  <2>3. tjob' \in [Tournaments -> TJob] /\ lost' \subseteq Tournaments
    BY <1>0, <1>1, <1>3, <2>1, <2>2 DEF TriggerFails, TournamentInv
  <2>4. QED
    BY <1>0, <1>3, <2>3 DEF TriggerFails, TournamentInv
<1>4. QED
  BY <1>2, <1>3

\* So does every step of a request, made by the sync or by anybody.
LEMMA TournamentRequestType ==
  ASSUME AutomationInv, NEW r \in TournamentRequests,
         \/ \E t \in Tournaments, runAt \in Times : FindTournamentFor(r, t, runAt)
         \/ FindTournamentFails(r) \/ TournamentRequestStep(r) \/ TournamentRequestFails(r)
  PROVE  TournamentInv'
<1>0. /\ TournamentInv /\ tjob \in [Tournaments -> TJob]
      /\ trequest \in [TournamentRequests -> TAsking] /\ trequest[r] \in TAsking
  BY DEF AutomationInv, TournamentInv
<1>1. /\ trequest[r].pc \in {"schedule", "cancel"} => trequest[r].tournamentId \in Tournaments
      /\ trequest[r].pc = "schedule" => trequest[r].runAt \in Times
  BY <1>0 DEF TAsking
<1>2. [pc |-> "done"] \in TAsking /\ [pc |-> "failed"] \in TAsking
  BY DEF TAsking
<1>3. ASSUME NEW t \in Tournaments, NEW runAt \in Times, FindTournamentFor(r, t, runAt)
      PROVE  TournamentInv'
  <2>1. [pc |-> "cancel", tournamentId |-> t] \in TAsking
        /\ [pc |-> "schedule", tournamentId |-> t, runAt |-> runAt] \in TAsking
    BY DEF TAsking
  <2>2. trequest' \in [TournamentRequests -> TAsking]
    BY <1>0, <1>3, <2>1 DEF FindTournamentFor
  <2>3. QED
    BY <1>0, <1>3, <2>2 DEF FindTournamentFor, TournamentInv
<1>4. CASE TournamentRequestStep(r)
  <2>1. (IF trequest[r].pc = "cancel" THEN NoJob ELSE Armed(trequest[r].runAt, NoChain)) \in TJob
    BY <1>1, <1>4, TScheduleTypes DEF TournamentRequestStep, Instant, Date
  <2>2. tjob' \in [Tournaments -> TJob]
    BY <1>0, <1>4, <2>1 DEF TournamentRequestStep
  <2>3. trequest' \in [TournamentRequests -> TAsking]
    BY <1>0, <1>2, <1>4 DEF TournamentRequestStep
  <2>4. QED
    BY <1>0, <1>4, <2>2, <2>3 DEF TournamentRequestStep, TournamentInv
<1>5. CASE TournamentRequestFails(r)
  <2> DEFINE t == trequest[r].tournamentId
             new == Armed(trequest[r].runAt, NoChain)
  <2>1. PICK k \in (IF trequest[r].pc = "cancel" THEN HalfCancelled(tjob[t]) ELSE Rejected(tjob[t], new)) :
          tjob' = [tjob EXCEPT ![t] = k]
    BY <1>5 DEF TournamentRequestFails
  <2>2. k \in TJob
    <3>1. tjob[t] \in Jobs(Instant) /\ Off \in Instant
      BY <1>0, <1>1, <1>5, TScheduleTypes DEF TournamentRequestFails, TJob
    <3>2. trequest[r].pc # "cancel" => new \in Jobs(Instant)
      BY <1>1, <1>5, TScheduleTypes DEF TournamentRequestFails, TJob, Instant, Date
    <3> HIDE DEF new, t
    <3>3. QED
      BY <2>1, <3>1, <3>2, OutcomesFor DEF TJob
  <2>3. tjob' \in [Tournaments -> TJob]
    BY <1>0, <2>1, <2>2
  <2>4. trequest' \in [TournamentRequests -> TAsking]
    BY <1>0, <1>2, <1>5 DEF TournamentRequestFails
  <2>5. QED
    BY <1>0, <1>5, <2>3, <2>4 DEF TournamentRequestFails, TournamentInv
<1>6. CASE FindTournamentFails(r)
  BY <1>0, <1>2, <1>6 DEF FindTournamentFails, TournamentInv
<1>7. QED
  BY <1>3, <1>4, <1>5, <1>6

\* What the death of the process may leave of the schedule of t: what is left of it,
\* or of one that a call under way put in its place.
LEMMA DeathLeaves ==
  ASSUME AutomationInv, NEW t \in Tournaments, NEW k \in LeftOfTournament(t)
  PROVE  \E j : /\ k \in CutOff(j)
                /\ \/ j \in HalfCancelled(tjob[t])
                   \/ \E runAt \in Instant : j \in Rejected(tjob[t], Armed(runAt, NoChain))
<1>1. tjob[t] \in HalfCancelled(tjob[t])
  BY DEF HalfCancelled
<1>2. PICK j : /\ k \in CutOff(j)
               /\ \/ j = tjob[t] \/ j \in HalfCancelled(tjob[t])
                  \/ \E new \in TournamentScheduling(t) : j \in Rejected(tjob[t], new)
  BY DEF LeftOfTournament
<1>3. ASSUME NEW new \in TournamentScheduling(t)
      PROVE  \E runAt \in Instant : new = Armed(runAt, NoChain)
  <2>1. CASE \E r \in TournamentRequests :
               trequest[r].pc = "schedule" /\ new = Armed(trequest[r].runAt, NoChain)
    <3>1. PICK r \in TournamentRequests :
            trequest[r].pc = "schedule" /\ new = Armed(trequest[r].runAt, NoChain)
      BY <2>1
    <3>2. trequest[r].runAt \in Times
      BY <3>1 DEF AutomationInv, TournamentInv, TAsking
    <3>3. QED
      BY <3>1, <3>2 DEF Instant, Date
  <2>2. CASE \E w \in Checkers : check[w].pc = "sideEffects" /\ new \in Triggers(w)
    <3>1. PICK w \in Checkers : check[w].pc = "sideEffects" /\ new \in Triggers(w)
      BY <2>2
    <3>2. PICK began \in check[w].now .. now : new = Armed(began + TRIGGER_DELAY, NoChain)
      BY <3>1 DEF Triggers
    <3>3. began + TRIGGER_DELAY \in Instant
      BY <3>1, TriggerTime DEF AutomationInv
    <3>4. QED
      BY <3>2, <3>3
  <2>3. QED
    BY <2>1, <2>2 DEF TournamentScheduling, Triggering
<1>4. QED
  BY <1>1, <1>2, <1>3

\* So do reconciliations, late updates, and the death of the process.
LEMMA TournamentServerType ==
  ASSUME AutomationInv,
         \/ \E t \in Tournaments : RepairTournament(t) \/ TournamentMarkedLate(t) \/ TournamentClaimFails(t)
         \/ ServerDies
  PROVE  TournamentInv'
<1>0. /\ TournamentInv /\ TypeInv /\ tjob \in [Tournaments -> TJob] /\ tcheck \in [Checkers -> TCheck]
      /\ trequest \in [TournamentRequests -> TAsking] /\ lost \subseteq Tournaments
      /\ check \in [Checkers -> Check] /\ Off \in Instant
  BY TScheduleTypes DEF AutomationInv, TournamentInv, TypeInv
<1>1. ASSUME NEW t \in Tournaments,
             RepairTournament(t) \/ TournamentMarkedLate(t) \/ TournamentClaimFails(t)
      PROVE  TournamentInv'
  <2>1. tjob[t] \in Jobs(Instant)
    BY <1>0 DEF TJob
  <2>2. \E j \in TJob : tjob' = [tjob EXCEPT ![t] = j]
    <3>1. CASE RepairTournament(t)
      BY <1>0, <2>1, <3>1, OutcomesFor DEF RepairTournament, TJob
    <3>2. CASE TournamentClaimFails(t)
      BY <1>0, <2>1, <3>2, OutcomesFor DEF TournamentClaimFails, Due, TJob
    <3>3. CASE TournamentMarkedLate(t)
      <4>1. tjob' = [tjob EXCEPT ![t] = [tjob[t] EXCEPT !.state = "queued"]]
        BY <1>0, <3>3 DEF TournamentMarkedLate
      <4>2. QED
        BY <1>0, <2>1, <3>3, <4>1, OutcomesFor DEF TournamentMarkedLate, TJob
    <3>4. QED
      BY <1>1, <3>1, <3>2, <3>3
  <2>3. UNCHANGED <<tournament, tcheck, trequest, lost>>
    BY <1>1 DEF RepairTournament, TournamentMarkedLate, TournamentClaimFails
  <2>4. QED
    BY <1>0, <2>2, <2>3, TJobType
<1>2. CASE ServerDies
  <2>1. \A t \in Tournaments : LeftOfTournament(t) \subseteq TJob
    <3>1. SUFFICES ASSUME NEW t \in Tournaments, NEW k \in LeftOfTournament(t)
                   PROVE  k \in TJob
      OBVIOUS
    <3>2. PICK j : /\ k \in CutOff(j)
                   /\ \/ j \in HalfCancelled(tjob[t])
                      \/ \E runAt \in Instant : j \in Rejected(tjob[t], Armed(runAt, NoChain))
      BY DeathLeaves
    <3>3. tjob[t] \in Jobs(Instant) /\ \A runAt \in Instant : Armed(runAt, NoChain) \in Jobs(Instant)
      BY <1>0, TScheduleTypes DEF TJob
    <3>4. j \in Jobs(Instant)
      BY <1>0, <3>2, <3>3, OutcomesFor
    <3>5. QED
      BY <1>0, <3>2, <3>4, OutcomesFor DEF TJob
  <2>2. tjob' \in [Tournaments -> TJob]
    BY <1>2, <2>1 DEF ServerDies
  <2>3. tcheck' \in [Checkers -> TCheck] /\ trequest' \in [TournamentRequests -> TAsking]
    BY <1>0, <1>2 DEF ServerDies, IdleCheck, TCheck, Idling, TAsking
  <2>4. lost' \subseteq Tournaments
    <3>1. \A w \in Checkers : check[w].pc # "idle" => TournamentOf[check[w].stageId] \in Tournaments
      BY <1>0, CheckShape, TournamentAssumption
    <3>2. QED
      BY <1>0, <1>2, <3>1 DEF ServerDies
  <2>5. QED
    BY <1>0, <1>2, <2>2, <2>3, <2>4 DEF ServerDies, TournamentInv
<1>3. QED
  BY <1>1, <1>2

\* The admin backend keeps the documents documents.
LEMMA EditTournamentType ==
  ASSUME AutomationInv, EditTournament
  PROVE  TournamentInv'
<1>1. tournament \in [Tournaments -> TournamentDoc]
  BY DEF AutomationInv, TournamentInv
<1>2. PICK t \in Tournaments :
        \/ tournament' = [tournament EXCEPT ![t].status = "DELETED"]
        \/ \E d \in TournamentDrafts :
             tournament' = [tournament EXCEPT ![t].startDate = d.startDate, ![t].endDate = d.endDate]
  BY DEF EditTournament
<1>3. CASE tournament' = [tournament EXCEPT ![t].status = "DELETED"]
  <2>1. tournament' \in [Tournaments -> TournamentDoc]
    BY <1>1, <1>3 DEF TournamentDoc, TOURNAMENT_STATUS
  <2>2. QED
    BY <2>1 DEF AutomationInv, TournamentInv, EditTournament
<1>4. ASSUME NEW d \in TournamentDrafts,
             tournament' = [tournament EXCEPT ![t].startDate = d.startDate, ![t].endDate = d.endDate]
      PROVE  TournamentInv'
  <2>1. d.startDate \in Times /\ d.endDate \in Times
    BY TournamentAssumption
  <2>2. [tournament[t] EXCEPT !.startDate = d.startDate, !.endDate = d.endDate] \in TournamentDoc
    BY <1>1, <2>1 DEF TournamentDoc
  <2>3. tournament' = [tournament EXCEPT ![t] = [tournament[t] EXCEPT !.startDate = d.startDate,
                                                                      !.endDate = d.endDate]]
    BY <1>1, <1>4
  <2>4. tournament' \in [Tournaments -> TournamentDoc]
    BY <1>1, <2>2, <2>3
  <2>5. QED
    BY <2>4 DEF AutomationInv, TournamentInv, EditTournament
<1>5. QED
  BY <1>2, <1>3, <1>4

\* What the sync lists exists, and what it asks for is asked at a time there is.
LEMMA StepKeepsSync ==
  ASSUME AutomationInv, AutomationNext
  PROVE  SyncInv'
<1>1. CASE BeginSync
  <2>1. PICK delay \in Delays :
          /\ now + delay \in Times
          /\ sync' = [state |-> "asked", runAt |-> now + delay,
                      tournaments |-> {t \in Tournaments : tournament[t].status \notin OVER},
                      stages |-> {s \in Stages : stage[s].status \notin OVER}]
    BY <1>1 DEF BeginSync
  <2>2. QED
    BY <2>1 DEF SyncInv, Date
<1>2. CASE ServerDies
  BY <1>2 DEF ServerDies, SyncAt, AutomationInv, SyncInv, Date
<1>3. CASE ~BeginSync /\ ~ServerDies
  <2>1. UNCHANGED sync
    BY <1>3
    DEF AutomationNext, Deliver, StartTournamentCheck, StageCheckStep, TriggerTournament, AfterTrigger,
        TournamentCheckStep, FindTournament, UpdateTournament, TriggerFails, StageCheckFails,
        TournamentCheckFails, AskForStage, StageRequestStep, AskForTournament, FindTournamentFor,
        FindTournamentFails, TournamentRequestStep, TournamentRequestFails, CompleteTournamentCheck,
        RepairTournament, TournamentMarkedLate, TournamentClaimFails, NotDelivered, SyncStep,
        SyncTheTournament, SyncTheStage, SyncFindFails, EditTournament, AllIdle, tvars
  <2>2. QED
    BY <2>1 DEF AutomationInv, SyncInv
<1>4. QED
  BY <1>1, <1>2, <1>3

\* Every step keeps the types of the tournaments' variables.
LEMMA StepKeepsTournaments ==
  ASSUME AutomationInv, AutomationNext
  PROVE  TournamentInv'
<1>1. ASSUME UNCHANGED tvars PROVE TournamentInv'
  BY <1>1, StillTournaments DEF tvars
<1>2. CASE Deliver
  BY <1>1, <1>2, TournamentCheckType DEF Deliver, FreeSlots
<1>3. ASSUME NEW w \in Checkers, StageCheckStep(w) \/ TournamentCheckStep(w)
      PROVE  TournamentInv'
  BY <1>1, <1>3, TournamentCheckType, TriggersType, StillTournaments DEF StageCheckStep, AfterTrigger
<1>4. ASSUME NEW w \in Checkers, TriggerFails(w) \/ TournamentCheckFails(w)
      PROVE  TournamentInv'
  BY <1>4, TournamentCheckType, TriggersType
<1>5. ASSUME NEW w \in Checkers, StageCheckFails(w) PROVE TournamentInv'
  <2>1. check[w].pc = "refresh" => check[w].stageId \in Stages
    BY CheckShape DEF AutomationInv, TypeInv
  <2>2. lost' \subseteq Tournaments
    BY <1>5, <2>1, TournamentAssumption DEF StageCheckFails, AutomationInv, TournamentInv
  <2>3. QED
    BY <1>5, <2>2 DEF StageCheckFails, AutomationInv, TournamentInv
<1>6. ASSUME NEW r \in TournamentRequests,
             AskForTournament(r) \/ TournamentRequestStep(r) \/ TournamentRequestFails(r)
      PROVE  TournamentInv'
  BY <1>6, TournamentRequestType DEF AskForTournament
<1>7. CASE SyncStep
  <2>1. ASSUME NEW t \in Tournaments, SyncTheTournament(t) PROVE TournamentInv'
    <3>1. sync.runAt \in Times /\ SyncTournament[t] \in TournamentRequests
      BY <2>1, TournamentAssumption DEF SyncTheTournament, AutomationInv, SyncInv
    <3>2. QED
      BY <2>1, <3>1, TournamentRequestType DEF SyncTheTournament
  <2>2. QED
    BY <1>1, <1>7, <2>1 DEF SyncStep, SyncTheStage
<1>8. CASE BeginSync \/ AllIdle \/ ((Edit \/ Tick) /\ UNCHANGED tvars) \/ EditTournament
  BY <1>1, <1>8, StillTournaments, EditTournamentType DEF BeginSync, AllIdle
<1>9. CASE \E r \in Requests : AskForStage(r) \/ StageRequestStep(r) \/ (RequestFails(r) /\ UNCHANGED tvars)
  BY <1>1, <1>9 DEF AskForStage, StageRequestStep
<1>10. CASE SyncFindFails
  <2>1. \A t \in sync.tournaments : SyncTournament[t] \in TournamentRequests
    BY TournamentAssumption DEF AutomationInv, SyncInv
  <2>2. QED
    BY <1>1, <1>10, <2>1, TournamentRequestType DEF SyncFindFails
<1>11. CASE \/ \E s \in Stages : (Repair(s) \/ MarkedLate(s)) /\ UNCHANGED tvars
            \/ \E t \in Tournaments : RepairTournament(t) \/ TournamentMarkedLate(t)
            \/ NotDelivered \/ ServerDies
  BY <1>1, <1>11, TournamentServerType DEF NotDelivered
<1>12. QED
  BY <1>2, <1>3, <1>4, <1>5, <1>6, <1>7, <1>8, <1>9, <1>10, <1>11 DEF AutomationNext

-----------------------------------------------------------------------------
\* The initial states have the types.
LEMMA InitAutomation == AutomationInit => AutomationInv
<1> SUFFICES ASSUME AutomationInit
             PROVE  AutomationInv
  OBVIOUS
<1>1. TypeInv
  BY InitType DEF AutomationInit
<1>2. TournamentDrafts \subseteq TournamentDoc
  BY TournamentAssumption DEF TournamentDoc, TOURNAMENT_STATUS
<1>3. IdleCheck \in TCheck /\ NoRequest \in TAsking
  BY DEF IdleCheck, NoRequest, TCheck, Idling, TAsking
<1>4. TournamentInv
  BY <1>2, <1>3, TScheduleTypes DEF AutomationInit, TournamentInv
<1>5. SyncInv
  BY DEF AutomationInit, SyncInv, SyncAt, Date
<1>6. SlotsInv /\ PreviousLive
  BY DEF AutomationInit, Init, SlotsInv, PreviousLive, IdleCheck
<1>7. QED
  BY <1>1, <1>4, <1>5, <1>6 DEF AutomationInv

\* Every step keeps the invariant.
LEMMA AutomationStep == AutomationInv /\ [AutomationNext]_allVars => AutomationInv'
<1> SUFFICES ASSUME AutomationInv, [AutomationNext]_allVars
             PROVE  AutomationInv'
  OBVIOUS
<1>1. CASE AutomationNext
  BY <1>1, StagesKeepType, StepKeepsTournaments, StepKeepsSync, StepKeepsSlots DEF AutomationInv
<1>2. CASE UNCHANGED allVars
  <2>1. [AnyStep]_vars
    BY <1>2 DEF allVars
  <2>2. TypeInv'
    BY <2>1, TypeStep DEF AutomationInv
  <2>3. UNCHANGED <<check, tcheck, triggered, tournament, tjob, trequest, lost, sync>>
    BY <1>2 DEF allVars, vars, tvars
  <2>4. QED
    BY <2>2, <2>3, StillSlots, StillTournaments DEF AutomationInv, SyncInv
<1>3. QED
  BY <1>1, <1>2

\* The type invariant of the runs follows.
LEMMA AutomationInvImplies == AutomationInv => AutomationTypeOK
<1> SUFFICES ASSUME AutomationInv
             PROVE  AutomationTypeOK
  OBVIOUS
<1>1. StageTypeOK
  BY TypeInvImplies DEF AutomationInv
<1>2. \A t \in Tournaments : /\ tjob[t].state \in {"none", "armed", "stranded", "dead"} \cup RUNNING
                             /\ tjob[t].runAt \in Date \cup {MaxTime + 1, MaxTime + TRIGGER_DELAY}
                             /\ tjob[t].attempts \in 0 .. Attempts
                             /\ tjob[t].state \in {"armed", "stranded"} => tjob[t].attempts < Attempts
                             /\ tjob[t].failures \in 0 .. Attempts - 1
                             /\ tjob[t].by \in Checkers \cup {Nobody}
  BY DEF AutomationInv, TournamentInv, TJob, Instant, Jobs, AnyJob
<1> DEFINE Typed(w) ==
  /\ tcheck[w].pc \in {"idle", "find", "update", "complete"}
  /\ tcheck[w].pc # "idle" => check[w].pc = "idle" /\ tcheck[w].tournamentId \in Tournaments
  /\ tcheck[w].pc \in {"find", "update"} => tcheck[w].now \in Times
  /\ tcheck[w].pc = "update" => /\ tcheck[w].newStatus \in TOURNAMENT_STATUS
                                /\ tcheck[w].read \in TournamentDoc
<1>3. ASSUME NEW w \in Checkers PROVE Typed(w)
  <2>1. tcheck[w] \in TCheck /\ (tcheck[w].pc # "idle" => check[w].pc = "idle")
    BY DEF AutomationInv, TournamentInv, SlotsInv
  <2>2. \A c \in TUpdating : c.newStatus \in TOURNAMENT_STATUS /\ c.read \in TournamentDoc
    BY DEF TUpdating, LiveDoc, TournamentDoc
  <2>3. QED
    BY <2>1, <2>2, TCheckShape
<1>4. \A r \in TournamentRequests : trequest[r].pc \in {"idle", "schedule", "cancel", "done", "failed"}
  BY DEF AutomationInv, TournamentInv, TAsking
<1>5. /\ tournament \in [Tournaments -> TournamentDoc] /\ lost \subseteq Tournaments
      /\ \A w \in triggered : check[w].pc = "sideEffects"
  BY DEF AutomationInv, TournamentInv, SlotsInv
<1>6. /\ sync.state \in {"never", "awaited", "asked", "died"} /\ sync.runAt \in Date
      /\ sync.tournaments \subseteq Tournaments /\ sync.stages \subseteq Stages
  BY DEF AutomationInv, SyncInv
<1>7. QED
  BY <1>1, <1>2, <1>3, <1>4, <1>5, <1>6 DEF AutomationTypeOK

(* Every variable keeps its type, no slot runs two checks, and whoever      *)
(* writes a tournament leaves one.                                          *)
THEOREM AutomationTypeCorrect == AutomationSpec => []AutomationTypeOK
BY InitAutomation, AutomationStep, AutomationInvImplies, PTL DEF AutomationSpec

-----------------------------------------------------------------------------
(* What is over                                                            *)

Reopens(d, d2) == d.status \in OVER /\ d2.status \notin OVER

\* Only the update of a check opens a tournament again, and that check read it
\* when it was not over.
LEMMA TournamentReopens ==
  ASSUME AutomationInv, AutomationNext, NEW t \in Tournaments, Reopens(tournament[t], tournament'[t])
  PROVE  \E w \in Checkers : /\ tcheck[w].pc = "update" /\ tcheck[w].tournamentId = t
                             /\ tcheck[w].read # tournament[t]
<1>0. tournament \in [Tournaments -> TournamentDoc] /\ tcheck \in [Checkers -> TCheck]
  BY DEF AutomationInv, TournamentInv
<1>1. ASSUME NEW w \in Checkers, UpdateTournament(w)
      PROVE  tcheck[w].pc = "update" /\ tcheck[w].tournamentId = t /\ tcheck[w].read # tournament[t]
  <2>1. tcheck[w] \in TUpdating
    BY <1>0, <1>1, TCheckShape DEF UpdateTournament
  <2>2. tcheck[w].read.status \notin OVER
    BY <2>1 DEF TUpdating, LiveDoc
  <2>3. tcheck[w].tournamentId = t
    BY <1>0, <1>1 DEF UpdateTournament, Reopens
  <2>4. QED
    BY <1>1, <2>2, <2>3 DEF UpdateTournament, Reopens
<1>2. CASE EditTournament
  <2>1. PICK i \in Tournaments :
          \/ tournament' = [tournament EXCEPT ![i].status = "DELETED"]
          \/ \E d \in TournamentDrafts :
               tournament' = [tournament EXCEPT ![i].startDate = d.startDate, ![i].endDate = d.endDate]
    BY <1>2 DEF EditTournament
  <2>2. tournament'[t].status \in {"DELETED", tournament[t].status}
    <3>1. CASE tournament' = [tournament EXCEPT ![i].status = "DELETED"]
      BY <1>0, <3>1 DEF TournamentDoc
    <3>2. ASSUME NEW d \in TournamentDrafts,
                 tournament' = [tournament EXCEPT ![i].startDate = d.startDate, ![i].endDate = d.endDate]
          PROVE  tournament'[t].status = tournament[t].status
      BY <1>0, <3>2 DEF TournamentDoc
    <3>3. QED
      BY <2>1, <3>1, <3>2
  <2>3. QED
    BY <2>2 DEF Reopens, OVER
<1>3. CASE ~EditTournament /\ \A w \in Checkers : ~UpdateTournament(w)
  <2>1. UNCHANGED tournament
    BY <1>3
    DEF AutomationNext, Deliver, StartTournamentCheck, StageCheckStep, TriggerTournament, AfterTrigger,
        TournamentCheckStep, FindTournament, CompleteTournamentCheck, TriggerFails, StageCheckFails,
        TournamentCheckFails, AskForStage, StageRequestStep, AskForTournament, FindTournamentFor,
        FindTournamentFails, TournamentRequestStep, TournamentRequestFails, RepairTournament,
        TournamentMarkedLate, TournamentClaimFails, NotDelivered, ServerDies, BeginSync, SyncStep,
        SyncTheTournament, SyncTheStage, SyncFindFails, AllIdle, tvars
  <2>2. QED
    BY <2>1 DEF Reopens
<1>4. QED
  BY <1>1, <1>2, <1>3

\* So it is with stages.
LEMMA StageReopens ==
  ASSUME AutomationInv, AutomationNext, NEW s \in Stages, stage[s].status \in OVER,
         stage'[s].status \notin OVER \cup {"POSTPONED"}
  PROVE  \E w \in Checkers : /\ check[w].pc = "update" /\ check[w].stageId = s
                             /\ check[w].previous # stage[s]
<1>0. stage \in [Stages -> StageDoc] /\ check \in [Checkers -> Check] /\ PreviousLive
  BY DEF AutomationInv, TypeInv
<1>1. ASSUME NEW w \in Checkers, UpdateStage(w)
      PROVE  check[w].pc = "update" /\ check[w].stageId = s /\ check[w].previous # stage[s]
  <2>1. check[w].pc = "update" /\ check[w].previous.status \notin OVER
    BY <1>0, <1>1 DEF UpdateStage, PreviousLive
  <2>2. check[w].stageId = s
    BY <1>0, <1>1 DEF UpdateStage
  <2>3. QED
    BY <2>1, <2>2
<1>2. ASSUME NEW w \in Checkers, RejectPending(w) PROVE stage'[s].status = stage[s].status
  BY <1>0, <1>2 DEF RejectPending, StageDoc
<1>3. CASE Edit
  <2>1. PICK i \in Stages :
          \/ \E full \in BOOLEAN : stage' = [stage EXCEPT ![i].full = full, ![i].pending = TRUE]
          \/ \E status \in {"POSTPONED", "DELETED"} : stage' = [stage EXCEPT ![i].status = status]
          \/ \E dates \in Timetables : stage' = [stage EXCEPT ![i].dates = dates]
    BY <1>3 DEF Edit
  <2>2. ASSUME NEW full \in BOOLEAN, stage' = [stage EXCEPT ![i].full = full, ![i].pending = TRUE]
        PROVE  stage'[s].status = stage[s].status
    BY <1>0, <2>2 DEF StageDoc
  <2>3. ASSUME NEW status \in {"POSTPONED", "DELETED"}, stage' = [stage EXCEPT ![i].status = status]
        PROVE  stage'[s].status \in {status, stage[s].status}
    BY <1>0, <2>3 DEF StageDoc
  <2>4. ASSUME NEW dates \in Timetables, stage' = [stage EXCEPT ![i].dates = dates]
        PROVE  stage'[s].status = stage[s].status
    BY <1>0, <2>4 DEF StageDoc
  <2>5. QED
    BY <2>1, <2>2, <2>3, <2>4 DEF OVER
<1>4. CASE ~Edit /\ \A w \in Checkers : ~UpdateStage(w) /\ ~RejectPending(w)
  <2>1. UNCHANGED stage
    BY <1>4, StagesSteps
    DEF Counts, FindFor, AnyStep, StartCheck, CheckStep, FindStage, RefreshStage, RunStageSideEffects,
        CompleteCheck, CancelFails, ChainFails, CheckFails, Crash, FindRequested, FindFails, RequestStep,
        ScheduleRequested, CancelRequested, RequestFails, ClaimFails, Repair, MarkedLate, Tick, Idle, vars
  <2>2. QED
    BY <2>1
<1>5. QED
  BY <1>1, <1>2, <1>3, <1>4

(* A tournament or a stage that is over is opened again by nothing but a    *)
(* check that read it before it was over.                                   *)
THEOREM OnlyOverlapReopensHolds == AutomationSpec => OnlyOverlapReopens
<1>1. ASSUME AutomationInv, [AutomationNext]_allVars
      PROVE  [/\ \A t \in Tournaments :
                   tournament[t].status \in OVER /\ tournament'[t].status \notin OVER =>
                     \E w \in Checkers : /\ tcheck[w].pc = "update" /\ tcheck[w].tournamentId = t
                                        /\ tcheck[w].read # tournament[t]
              /\ \A s \in Stages :
                   stage[s].status \in OVER /\ stage'[s].status \notin OVER \cup {"POSTPONED"} =>
                     \E w \in Checkers : /\ check[w].pc = "update" /\ check[w].stageId = s
                                        /\ check[w].previous # stage[s]]_allVars
  <2>1. CASE UNCHANGED allVars
    BY <2>1
  <2>2. ASSUME AutomationNext, NEW t \in Tournaments,
               tournament[t].status \in OVER, tournament'[t].status \notin OVER
        PROVE  \E w \in Checkers : /\ tcheck[w].pc = "update" /\ tcheck[w].tournamentId = t
                                   /\ tcheck[w].read # tournament[t]
    BY <1>1, <2>2, TournamentReopens DEF Reopens
  <2>3. ASSUME AutomationNext, NEW s \in Stages,
               stage[s].status \in OVER, stage'[s].status \notin OVER \cup {"POSTPONED"}
        PROVE  \E w \in Checkers : /\ check[w].pc = "update" /\ check[w].stageId = s
                                   /\ check[w].previous # stage[s]
    BY <1>1, <2>3, StageReopens
  <2>4. QED
    BY <1>1, <2>1, <2>2, <2>3
<1>2. QED
  BY <1>1, InitAutomation, AutomationStep, PTL DEF AutomationSpec, OnlyOverlapReopens

-----------------------------------------------------------------------------
(* Triggered checks                                                        *)

\* A tournament's schedule that waits belongs to no slot either.
TriggeredFree == \A t \in Tournaments : Free(tjob[t])

\* What a step may do to the schedule of tournament t: leave it, replace it by
\* one that waits, deliver it, cancel it for somebody who saw t over, end it with
\* its check, put it up again after it was stranded, or do worse to it with a fault.
LEMMA TournamentJobSteps ==
  ASSUME AutomationInv, TriggeredFree, [AutomationNext]_allVars, NEW t \in Tournaments
  PROVE  \/ tjob'[t] = tjob[t]
         \/ \E runAt : tjob'[t] = Armed(runAt, NoChain)
         \/ /\ \E w \in Checkers : StartTournamentCheck(w) /\ tcheck'[w].tournamentId = t
            /\ tjob'[t].state = "running"
         \/ tjob'[t] = NoJob /\ TournamentCancelUnderWay(t)
         \/ tjob'[t] = AfterSuccess(tjob[t]) /\ tjob[t].by \in Checkers
         \/ tjob'[t] = Again(tjob[t], tjob[t].failures) /\ tjob[t].state = "stranded"
         \/ Fault /\ Free(tjob'[t])
<1>0. /\ tjob \in [Tournaments -> TJob] /\ tcheck \in [Checkers -> TCheck]
      /\ trequest \in [TournamentRequests -> TAsking]
      /\ TypeInv /\ \A q \in Tournaments : tjob[q] \in Jobs(Instant) /\ Free(tjob[q])
  BY DEF AutomationInv, TournamentInv, TriggeredFree, TJob
<1>1. ASSUME UNCHANGED tjob PROVE tjob'[t] = tjob[t]
  BY <1>1
<1>2. ASSUME NEW w \in Checkers, StartTournamentCheck(w)
      PROVE  \/ tjob'[t] = tjob[t]
             \/ tcheck'[w].tournamentId = t /\ tjob'[t].state = "running"
  <2>1. PICK q \in Tournaments :
          /\ tjob' = [tjob EXCEPT ![q] = [NoJob EXCEPT !.state = "running", !.by = w,
                                                       !.attempts = tjob[q].attempts + 1,
                                                       !.failures = tjob[q].failures]]
          /\ tcheck' = [tcheck EXCEPT ![w] = [pc |-> "find", tournamentId |-> q, now |-> now]]
    BY <1>2 DEF StartTournamentCheck
  <2> DEFINE running == [NoJob EXCEPT !.state = "running", !.by = w,
                                      !.attempts = tjob[q].attempts + 1, !.failures = tjob[q].failures]
  <2>2. running.state = "running"
    BY DEF NoJob
  <2>3. tjob' = [tjob EXCEPT ![q] = running]
    BY <2>1
  <2> HIDE DEF running
  <2>4. CASE q = t
    BY <1>0, <2>1, <2>2, <2>3, <2>4
  <2>5. CASE q # t
    BY <1>0, <2>3, <2>5
  <2>6. QED
    BY <2>4, <2>5
<1>3. ASSUME NEW w \in Checkers, TournamentCheckStep(w)
      PROVE  tjob'[t] = tjob[t] \/ (tjob'[t] = AfterSuccess(tjob[t]) /\ tjob[t].by \in Checkers)
  <2>1. CASE CompleteTournamentCheck(w)
    BY <1>0, <2>1 DEF CompleteTournamentCheck, EndTournamentCheck
  <2>2. CASE FindTournament(w) \/ UpdateTournament(w)
    BY <2>2 DEF FindTournament, UpdateTournament
  <2>3. QED
    BY <1>3, <2>1, <2>2 DEF TournamentCheckStep
<1>4. ASSUME NEW w \in Checkers, TournamentCheckFails(w)
      PROVE  Fault /\ (tjob'[t] = tjob[t] \/ Free(tjob'[t]))
  <2>1. \E j \in AfterError(tjob[tcheck[w].tournamentId]) : EndTournamentCheck(w, tcheck[w].tournamentId, j)
    BY <1>4 DEF TournamentCheckFails
  <2>2. \A j \in AfterError(tjob[t]) : Free(j)
    BY <1>0, OutcomesFreeFor
  <2>3. QED
    BY <1>0, <1>4, <2>1, <2>2 DEF TournamentCheckFails, EndTournamentCheck
<1>5. ASSUME NEW w \in Checkers, TriggerTournament(w)
      PROVE  tjob'[t] = tjob[t] \/ \E runAt : tjob'[t] = Armed(runAt, NoChain)
  <2>1. PICK new \in Triggers(w) : tjob' = [tjob EXCEPT ![TournamentOf[check[w].stageId]] = new]
    BY <1>5 DEF TriggerTournament
  <2>2. \E runAt : new = Armed(runAt, NoChain)
    BY <1>0, <1>5, TriggerType DEF TriggerTournament
  <2>3. QED
    BY <1>0, <2>1, <2>2
<1>6. ASSUME NEW w \in Checkers, TriggerFails(w)
      PROVE  Fault /\ (Free(tjob'[t]) \/ tjob'[t] = tjob[t])
  <2> DEFINE q == TournamentOf[check[w].stageId]
  <2>1. PICK new \in Triggers(w) : \E j \in Rejected(tjob[q], new) : tjob' = [tjob EXCEPT ![q] = j]
    BY <1>6 DEF TriggerFails
  <2>2. new \in Jobs(Instant) /\ Free(new) /\ q \in Tournaments
    BY <1>0, <1>6, TriggerType, NewJobsFree DEF TriggerFails, TJob
  <2>3. \A j \in Rejected(tjob[q], new) : Free(j)
    BY <1>0, <2>2, OutcomesFreeFor
  <2>4. QED
    BY <1>0, <1>6, <2>1, <2>3 DEF TriggerFails
<1>7. ASSUME NEW r \in TournamentRequests, TournamentRequestStep(r)
      PROVE  \/ tjob'[t] = tjob[t] \/ \E runAt : tjob'[t] = Armed(runAt, NoChain)
             \/ tjob'[t] = NoJob /\ TournamentCancelUnderWay(t)
  BY <1>0, <1>7 DEF TournamentRequestStep, TournamentCancelUnderWay
<1>8. ASSUME NEW r \in TournamentRequests, TournamentRequestFails(r)
      PROVE  Fault /\ (Free(tjob'[t]) \/ tjob'[t] = tjob[t])
  <2> DEFINE q == trequest[r].tournamentId
             new == Armed(trequest[r].runAt, NoChain)
  <2>1. PICK k \in (IF trequest[r].pc = "cancel" THEN HalfCancelled(tjob[q]) ELSE Rejected(tjob[q], new)) :
          tjob' = [tjob EXCEPT ![q] = k]
    BY <1>8 DEF TournamentRequestFails
  <2>2. /\ q \in Tournaments
        /\ trequest[r].pc # "cancel" => new \in Jobs(Instant) /\ Free(new)
    BY <1>0, <1>8, TScheduleTypes, NewJobsFree
    DEF TournamentRequestFails, TAsking, TJob, Instant, Date
  <2> HIDE DEF new, q
  <2>3. Free(k)
    BY <1>0, <2>1, <2>2, OutcomesFreeFor
  <2>4. QED
    BY <1>0, <1>8, <2>1, <2>3 DEF TournamentRequestFails
<1>9. CASE Deliver
  <2>1. \E w \in Checkers : (StartCheck(w) /\ UNCHANGED tvars) \/ StartTournamentCheck(w)
    BY <1>9 DEF Deliver, FreeSlots
  <2>2. QED
    BY <1>1, <1>2, <2>1 DEF tvars
<1>10. ASSUME NEW w \in Checkers, StageCheckStep(w) \/ StageCheckFails(w)
       PROVE  tjob'[t] = tjob[t] \/ \E runAt : tjob'[t] = Armed(runAt, NoChain)
  BY <1>5, <1>10 DEF StageCheckStep, StageCheckFails, AfterTrigger, tvars
<1>11. ASSUME NEW q \in Tournaments,
              RepairTournament(q) \/ TournamentMarkedLate(q) \/ TournamentClaimFails(q)
       PROVE  \/ tjob'[t] = tjob[t]
              \/ tjob'[t] = Again(tjob[t], tjob[t].failures) /\ tjob[t].state = "stranded"
              \/ Fault /\ Free(tjob'[t])
  <2>1. CASE RepairTournament(q)
    BY <1>0, <2>1 DEF RepairTournament
  <2>2. CASE TournamentClaimFails(q)
    BY <1>0, <2>2, OutcomesFreeFor DEF TournamentClaimFails
  <2>3. CASE TournamentMarkedLate(q)
    <3>1. tjob' = [tjob EXCEPT ![q] = [tjob[q] EXCEPT !.state = "queued"]]
      BY <1>0, <2>3 DEF TournamentMarkedLate
    <3>2. Free([tjob[q] EXCEPT !.state = "queued"])
      BY <1>0, OutcomesFreeFor
    <3>3. QED
      BY <1>0, <2>3, <3>1, <3>2 DEF TournamentMarkedLate
  <2>4. QED
    BY <1>11, <2>1, <2>2, <2>3
<1>12. CASE ServerDies
  <2>1. tjob'[t] \in LeftOfTournament(t) /\ Fault
    BY <1>12 DEF ServerDies, Crash
  <2>2. PICK j : /\ tjob'[t] \in CutOff(j)
                 /\ \/ j \in HalfCancelled(tjob[t])
                    \/ \E runAt \in Instant : j \in Rejected(tjob[t], Armed(runAt, NoChain))
    BY <2>1, DeathLeaves
  <2>3. \A runAt \in Instant : Armed(runAt, NoChain) \in Jobs(Instant) /\ Free(Armed(runAt, NoChain))
    BY TScheduleTypes, NewJobsFree DEF TJob
  <2>4. j \in Jobs(Instant)
    BY <1>0, <2>2, <2>3, TScheduleTypes, OutcomesFor
  <2>5. Free(j)
    BY <1>0, <2>2, <2>3, OutcomesFreeFor
  <2>6. QED
    BY <2>1, <2>2, <2>4, <2>5, OutcomesFreeFor
<1>13. ASSUME \/ \E r \in Requests : \/ AskForStage(r) \/ StageRequestStep(r)
                                     \/ (RequestFails(r) /\ UNCHANGED tvars)
              \/ \E r \in TournamentRequests : AskForTournament(r)
              \/ \E s \in Stages : (Repair(s) \/ MarkedLate(s) \/ ClaimFails(s)) /\ UNCHANGED tvars
              \/ BeginSync \/ SyncStep \/ SyncFindFails
              \/ EditTournament \/ ((Edit \/ Tick) /\ UNCHANGED tvars)
              \/ AllIdle \/ UNCHANGED allVars
       PROVE  tjob'[t] = tjob[t]
  BY <1>13
  DEF AskForStage, StageRequestStep, AskForTournament, FindTournamentFor, FindTournamentFails, BeginSync,
      SyncStep, SyncTheTournament, SyncTheStage, SyncFindFails, EditTournament, AllIdle, tvars, allVars
<1>14. QED
  BY <1>0, <1>2, <1>3, <1>4, <1>6, <1>7, <1>8, <1>9, <1>10, <1>11, <1>12, <1>13
  DEF AutomationNext, NotDelivered

\* Every step leaves the waiting schedules free.
LEMMA TriggeredFreeStep == AutomationInv /\ TriggeredFree /\ [AutomationNext]_allVars => TriggeredFree'
<1> SUFFICES ASSUME AutomationInv, TriggeredFree, [AutomationNext]_allVars, NEW t \in Tournaments
             PROVE  Free(tjob'[t])
  BY DEF TriggeredFree, Free
<1>1. \A q \in Tournaments : Free(tjob[q])
  BY DEF TriggeredFree
<1>2. tjob'[t].state = "running" => Free(tjob'[t])
  BY DEF Free
<1>3. Free(AfterSuccess(tjob[t])) /\ Free(Again(tjob[t], tjob[t].failures))
  BY <1>1, OutcomesFreeFor DEF AutomationInv, TournamentInv, TJob
<1>4. QED
  BY <1>1, <1>2, <1>3, TournamentJobSteps, NewJobsFree

(* A check of a tournament that was scheduled, by a stage's side effects, a *)
(* request or a bulk sync, is made: only a fault costs it, or somebody who  *)
(* saw the tournament over.                                                 *)
THEOREM TriggeredCheckIsMadeHolds == AutomationSpec => TriggeredCheckIsMade
<1> DEFINE Ended(t) == tjob[t].state = "armed" /\ tjob'[t].state # "armed"
           Excused(t) == \/ \E w \in Checkers : StartTournamentCheck(w) /\ tcheck'[w].tournamentId = t
                         \/ TournamentCancelUnderWay(t) \/ Fault
<1>1. AutomationInit => TriggeredFree
  BY NewJobsFree DEF AutomationInit, TriggeredFree
<1>2. ASSUME AutomationInv, TriggeredFree, [AutomationNext]_allVars, NEW t \in Tournaments, Ended(t)
      PROVE  Excused(t)
  <2>1. tjob[t].by \notin Checkers
    BY <1>2, NobodyAssumption DEF TriggeredFree, Free
  <2>2. \A runAt : tjob'[t] # Armed(runAt, NoChain)
    BY <1>2, NewJobsFree
  <2>3. tjob'[t] # tjob[t]
    BY <1>2
  <2>4. QED
    BY <1>2, <2>1, <2>2, <2>3, TournamentJobSteps
<1>3. AutomationInv /\ TriggeredFree /\ [AutomationNext]_allVars =>
        [\A t \in Tournaments : Ended(t) => Excused(t)]_allVars
  BY <1>2
<1>4. QED
  BY <1>1, <1>3, InitAutomation, AutomationStep, TriggeredFreeStep, PTL
  DEF AutomationSpec, TriggeredCheckIsMade

-----------------------------------------------------------------------------
(* The stages beside their tournaments                                     *)

\* What the tournaments and the sync do of their own leaves the stages' waiting
\* schedules free.
LEMMA StagesStayFree == AutomationInv /\ ArmedFree /\ [AutomationNext]_allVars => ArmedFree'
<1> SUFFICES ASSUME AutomationInv, ArmedFree, [AutomationNext]_allVars
             PROVE  ArmedFree'
  OBVIOUS
<1>1. ASSUME UNCHANGED job PROVE ArmedFree'
  BY <1>1 DEF ArmedFree, Free
<1>2. CASE [AnyStep]_vars
  BY <1>2, FreeStep DEF AutomationInv
<1>3. QED
  BY <1>1, <1>2, StagesSteps DEF Counts, FindFor, allVars, vars

\* So does a retired stage stay retired: the sync finds it and cancels.
LEMMA StagesStayRetired ==
  ASSUME AutomationInv, [AutomationNext]_allVars, NEW s \in Stages, Retired(s)
  PROVE  Retired(s)'
<1>0. TypeInv /\ request \in [Requests -> Asking]
  BY DEF AutomationInv, TypeInv
<1>1. CASE [AnyStep]_vars
  BY <1>0, <1>1, RetiredStep
<1>2. CASE Counts
  BY <1>2 DEF Counts, Retired
<1>3. ASSUME NEW q \in Stages, FindFor(SyncStage[q], q, sync.runAt)
      PROVE  Retired(s)'
  <2>1. /\ stage[s].status \in OUT_OF_TOURNAMENT /\ UNCHANGED <<stage, job, check>>
        /\ \A i \in Requests : request[i].pc = "schedule" => request[i].stageId # s
    BY <1>3 DEF FindFor, Retired
  <2>2. \A i \in Requests : request'[i].pc = "schedule" => request'[i].stageId # s
    BY <1>0, <1>3, <2>1, TournamentAssumption DEF FindFor
  <2>3. QED
    BY <2>1, <2>2 DEF Retired
<1>4. QED
  BY <1>1, <1>2, <1>3, StagesSteps DEF allVars, vars

(* Beside tournaments and bulk syncs too, a check of a stage that is        *)
(* scheduled is made, and a retired stage stays so.                         *)
THEOREM StagesKeepTheirPromises == AutomationSpec => ScheduledCheckIsMade /\ RetiredForGood
<1>1. AutomationInit => ArmedFree
  BY NewJobsFree DEF AutomationInit, Init, ArmedFree
<1>2. ASSUME AutomationInv, ArmedFree, [AutomationNext]_allVars, NEW s \in Stages,
             job[s].state = "armed", job'[s].state # "armed"
      PROVE  CheckExcused(s)
  <2>1. ~UNCHANGED job
    BY <1>2
  <2>2. [AnyStep]_vars
    BY <1>2, <2>1, StagesSteps DEF Counts, FindFor, allVars, vars
  <2>3. QED
    BY <1>2, <2>2, ScheduledStep DEF AutomationInv
<1>3. AutomationInv /\ ArmedFree /\ [AutomationNext]_allVars =>
        [\A s \in Stages : job[s].state = "armed" /\ job'[s].state # "armed" => CheckExcused(s)]_vars
  BY <1>2
<1>4. AutomationInv /\ [AutomationNext]_allVars => [\A s \in Stages : Retired(s) => Retired(s)']_vars
  BY StagesStayRetired
<1>5. QED
  BY <1>1, <1>3, <1>4, InitAutomation, AutomationStep, StagesStayFree, PTL
  DEF AutomationSpec, ScheduledCheckIsMade, RetiredForGood, CheckExcused
=============================================================================
