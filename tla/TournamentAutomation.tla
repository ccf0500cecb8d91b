-------------------------- MODULE TournamentAutomation --------------------------
(***************************************************************************)
(* The status checks of tournaments beside those of their stages: every    *)
(* stage check that changes something schedules a check of the tournament  *)
(* a second from then, scheduleTournamentStatus does so on request, and    *)
(* scheduleBulkStatusSync for whatever is not over yet.  A tournament      *)
(* check schedules nothing itself.                                         *)
(*                                                                         *)
(* The actions of StageAutomation, the scheduler and the clock are those   *)
(* of that module; what is said there of jobs holds of the jobs here.      *)
(***************************************************************************)
EXTENDS StageAutomation

CONSTANTS
  Tournaments,
  TournamentDrafts,    \* the documents a tournament may start as
  TournamentOf,        \* TournamentOf[s]: stage.tournamentId
  TournamentRequests,  \* invocations of scheduleTournamentStatus
  SyncTournament,      \* SyncTournament[t], SyncStage[s]: the invocation the
  SyncStage            \* bulk sync makes for tournament t, for stage s

TOURNAMENT_STATUS == {"DRAFT", "UPCOMING", "OPEN", "COMPLETED", "DELETED"}
OVER == {"COMPLETED", "DELETED"}

\* Half-second ticks between the side effects of a stage check and the
\* tournament check they schedule.
TRIGGER_DELAY == 2

ASSUME TournamentAssumption ==
  /\ TournamentDrafts \subseteq [status : {"DRAFT", "UPCOMING"}, startDate : Times, endDate : Times]
  /\ TournamentOf \in [Stages -> Tournaments]
  /\ SyncTournament \in [Tournaments -> TournamentRequests]
  /\ SyncStage \in [Stages -> Requests]

VARIABLES
  tournament,  \* tournament[t]: the document of tournament t
  tjob,        \* tjob[t]: the schedule of "tournament-status-" t
  tcheck,      \* tcheck[w]: the handleTournamentStatusCheck that slot w runs
  trequest,    \* trequest[r]: progress of invocation r
  triggered,   \* slots whose stage check has scheduled the tournament's check
  sync,        \* the bulk sync: what it listed, and for when
  lost         \* tournaments a stage changed without scheduling their check

tvars == <<tournament, tjob, tcheck, trequest, triggered, sync, lost>>
allVars == <<vars, tvars>>

TournamentDoc == [status : TOURNAMENT_STATUS, startDate : Times, endDate : Times]
\* A bulk sync may be asked for, or none ever is.
SyncAt(state) == [state |-> state, runAt |-> Off, tournaments |-> {}, stages |-> {}]

AutomationInit ==
  /\ Init
  /\ tournament \in [Tournaments -> TournamentDrafts]
  /\ tjob = [t \in Tournaments |-> NoJob]
  /\ tcheck = [w \in Checkers |-> IdleCheck]
  /\ trequest = [r \in TournamentRequests |-> NoRequest]
  /\ triggered = {} /\ sync \in {SyncAt("awaited"), SyncAt("never")} /\ lost = {}

\* The last instant stands for all later ones.
Due(j) == j.state = "armed" /\ (j.runAt <= now \/ now = MaxTime)

-----------------------------------------------------------------------------
(* handleTournamentStatusCheck                                             *)

DeriveTournamentStatus(d, t) ==
  IF t > d.endDate THEN "COMPLETED"
  ELSE IF t >= d.startDate THEN "OPEN"
  ELSE IF d.status = "DRAFT" THEN "UPCOMING"
  ELSE d.status

\* Slip: the update looks at the job id alone.
EndTournamentCheck_ByJobId(w, t, j) ==
  /\ tcheck' = [tcheck EXCEPT ![w] = IdleCheck]
  /\ tjob' = [tjob EXCEPT ![t] = j]

\* Slot w ends its check of t with job j, unless a newer schedule took its place.
EndTournamentCheck(w, t, j) ==
  /\ tcheck' = [tcheck EXCEPT ![w] = IdleCheck]
  /\ tjob' = [tjob EXCEPT ![t] = IF @.by = w THEN j ELSE @]

\* The check takes the time before it reads the tournament.
StartTournamentCheck(w) ==
  /\ tcheck[w].pc = "idle"
  /\ \E t \in Tournaments :
       /\ Due(tjob[t])
       /\ tjob' = [tjob EXCEPT ![t] = [NoJob EXCEPT !.state = "running", !.by = w,
                                                    !.attempts = tjob[t].attempts + 1,
                                                    !.failures = tjob[t].failures]]
       /\ tcheck' = [tcheck EXCEPT ![w] = [pc |-> "find", tournamentId |-> t, now |-> now]]
  /\ UNCHANGED <<vars, tournament, trequest, triggered, sync, lost>>

\* Slip: tournaments that are over are looked at like others.
SkipsTournament_Never(d) == FALSE
SkipsTournament(d) == d.status \in OVER

FindTournament(w) ==
  /\ tcheck[w].pc = "find"
  /\ LET t == tcheck[w].tournamentId
         d == tournament[t]
         newStatus == DeriveTournamentStatus(d, tcheck[w].now) IN
     tcheck' = [tcheck EXCEPT ![w] =
                  IF SkipsTournament(d) \/ newStatus = d.status
                    THEN [pc |-> "complete", tournamentId |-> t]
                    ELSE [pc |-> "update", tournamentId |-> t, now |-> tcheck[w].now,
                          read |-> d, newStatus |-> newStatus]]
  /\ UNCHANGED <<vars, tournament, tjob, trequest, triggered, sync, lost>>

\* Whatever the status is by now.
UpdateTournament(w) ==
  /\ tcheck[w].pc = "update"
  /\ tournament' = [tournament EXCEPT ![tcheck[w].tournamentId].status = tcheck[w].newStatus]
  /\ tcheck' = [tcheck EXCEPT ![w] = [pc |-> "complete", tournamentId |-> tcheck[w].tournamentId]]
  /\ UNCHANGED <<vars, tjob, trequest, triggered, sync, lost>>

\* The worker's markCompleted.
CompleteTournamentCheck(w) ==
  /\ tcheck[w].pc = "complete"
  /\ EndTournamentCheck(w, tcheck[w].tournamentId, AfterSuccess(tjob[tcheck[w].tournamentId]))
  /\ UNCHANGED <<vars, tournament, trequest, triggered, sync, lost>>

TournamentCheckFails(w) ==
  /\ tcheck[w].pc # "idle"
  /\ Fault
  /\ \E j \in AfterError(tjob[tcheck[w].tournamentId]) :
       EndTournamentCheck(w, tcheck[w].tournamentId, j)
  /\ UNCHANGED <<now, stage, job, check, request, edits>>
  /\ UNCHANGED <<tournament, trequest, triggered, sync, lost>>

\* What befalls the schedule of t as it does that of a stage.
TournamentClaimFails(t) ==
  /\ Due(tjob[t])
  /\ Fault
  /\ tjob' = [tjob EXCEPT ![t] = NotClaimed(tjob[t])]
  /\ UNCHANGED <<now, stage, job, check, request, edits>>
  /\ UNCHANGED <<tournament, tcheck, trequest, triggered, sync, lost>>

RepairTournament(t) ==
  /\ tjob[t].state = "stranded"
  /\ tjob' = [tjob EXCEPT ![t] = Again(tjob[t], tjob[t].failures)]
  /\ UNCHANGED <<vars, tournament, tcheck, trequest, triggered, sync, lost>>

TournamentMarkedLate(t) ==
  /\ tjob[t].state = "running"
  /\ Fault
  /\ tjob' = [tjob EXCEPT ![t].state = "queued"]
  /\ UNCHANGED <<now, stage, job, check, request, edits>>
  /\ UNCHANGED <<tournament, tcheck, trequest, triggered, sync, lost>>

-----------------------------------------------------------------------------
(* The trigger in runStageSideEffects                                      *)

\* Slip: a stage that is out of the tournament returns before the trigger.
TriggerTournament_Live(w) ==
  /\ check[w].pc = "sideEffects" /\ w \notin triggered
  /\ triggered' = triggered \cup {w}
  /\ \E began \in check[w].now .. now :
       tjob' = IF check[w].refreshed.status \in OUT_OF_TOURNAMENT THEN tjob
               ELSE [tjob EXCEPT ![TournamentOf[check[w].stageId]] = Armed(began + TRIGGER_DELAY, NoChain)]
  /\ UNCHANGED <<vars, tournament, tcheck, trequest, sync, lost>>

\* The tournament's check, a second from a time that was read before the caches
\* were invalidated.
Triggers(w) == {Armed(began + TRIGGER_DELAY, NoChain) : began \in check[w].now .. now}

\* Whatever the stage has become.
TriggerTournament(w) ==
  /\ check[w].pc = "sideEffects" /\ w \notin triggered
  /\ triggered' = triggered \cup {w}
  /\ \E new \in Triggers(w) : tjob' = [tjob EXCEPT ![TournamentOf[check[w].stageId]] = new]
  /\ UNCHANGED <<vars, tournament, tcheck, trequest, sync, lost>>

\* Its error is swallowed.
TriggerFails(w) ==
  LET t == TournamentOf[check[w].stageId] IN
  /\ check[w].pc = "sideEffects" /\ w \notin triggered
  /\ Fault
  /\ triggered' = triggered \cup {w}
  /\ lost' = lost \cup {t}
  /\ \E new \in Triggers(w) : \E j \in Rejected(tjob[t], new) : tjob' = [tjob EXCEPT ![t] = j]
  /\ UNCHANGED <<now, stage, job, check, request, edits>>
  /\ UNCHANGED <<tournament, tcheck, trequest, sync>>

\* What runStageSideEffects does after the trigger, and may throw.
AfterTrigger(w) ==
  /\ w \in triggered
  /\ RunStageSideEffects(w) \/ CancelFails(w) \/ ChainFails(w)
  /\ triggered' = triggered \ {w}
  /\ UNCHANGED <<tournament, tjob, tcheck, trequest, sync, lost>>

\* A retry finds the stage changed and does not come to the side effects again.
StageCheckFails(w) ==
  /\ CheckFails(w)
  /\ lost' = IF check[w].pc = "refresh" THEN lost \cup {TournamentOf[check[w].stageId]} ELSE lost
  /\ UNCHANGED <<tournament, tjob, tcheck, trequest, triggered, sync>>

-----------------------------------------------------------------------------
(* scheduleTournamentStatus and scheduleBulkStatusSync                     *)

\* The tournament is read, and decides between cancel() and schedule().
FindTournamentFor(r, t, runAt) ==
  /\ trequest[r].pc = "idle"
  /\ trequest' = [trequest EXCEPT ![r] =
                    IF tournament[t].status \in OVER
                      THEN [pc |-> "cancel", tournamentId |-> t]
                      ELSE [pc |-> "schedule", tournamentId |-> t, runAt |-> runAt]]
  /\ UNCHANGED <<vars, tournament, tjob, tcheck, triggered, sync, lost>>

\* Whatever became of the tournament meanwhile.
TournamentRequestStep(r) ==
  /\ trequest[r].pc \in {"schedule", "cancel"}
  /\ tjob' = [tjob EXCEPT ![trequest[r].tournamentId] =
                IF trequest[r].pc = "cancel" THEN NoJob ELSE Armed(trequest[r].runAt, NoChain)]
  /\ trequest' = [trequest EXCEPT ![r] = [pc |-> "done"]]
  /\ UNCHANGED <<vars, tournament, tcheck, triggered, sync, lost>>

\* The error of a cancel() is swallowed.
TournamentRequestFails(r) ==
  /\ trequest[r].pc \in {"schedule", "cancel"}
  /\ Fault
  /\ LET j == tjob[trequest[r].tournamentId] IN
     \E k \in IF trequest[r].pc = "cancel" THEN HalfCancelled(j)
               ELSE Rejected(j, Armed(trequest[r].runAt, NoChain)) :
       tjob' = [tjob EXCEPT ![trequest[r].tournamentId] = k]
  /\ trequest' = [trequest EXCEPT ![r] = [pc |-> IF @.pc = "cancel" THEN "done" ELSE "failed"]]
  /\ UNCHANGED <<now, stage, job, check, request, edits>>
  /\ UNCHANGED <<tournament, tcheck, triggered, sync, lost>>

\* The tournament cannot be read.
FindTournamentFails(r) ==
  /\ trequest[r].pc = "idle"
  /\ Fault
  /\ trequest' = [trequest EXCEPT ![r] = [pc |-> "failed"]]
  /\ UNCHANGED <<now, stage, job, check, request, edits>>
  /\ UNCHANGED <<tournament, tjob, tcheck, triggered, sync, lost>>

\* Where no sync comes its invocations are anybody's.
Reserved == IF sync.state = "never" THEN {}
            ELSE {SyncTournament[t] : t \in Tournaments} \cup {SyncStage[s] : s \in Stages}

AskForTournament(r) ==
  /\ r \notin Reserved
  /\ \/ \E t \in Tournaments, delay \in Delays :
          now + delay \in Times /\ FindTournamentFor(r, t, now + delay)
     \/ FindTournamentFails(r)

AskForStage(r) == r \notin Reserved /\ (FindRequested(r) \/ FindFails(r)) /\ UNCHANGED tvars

\* The two lists are read side by side.  Postponed stages are on theirs.
BeginSync ==
  /\ sync.state = "awaited"
  /\ \E delay \in Delays :
       /\ now + delay \in Times
       /\ sync' = [state |-> "asked", runAt |-> now + delay,
                    tournaments |-> {t \in Tournaments : tournament[t].status \notin OVER},
                    stages |-> {s \in Stages : stage[s].status \notin OVER}]
  /\ UNCHANGED <<vars, tournament, tjob, tcheck, trequest, triggered, lost>>

SyncTheTournament(t) ==
  /\ t \in sync.tournaments
  /\ FindTournamentFor(SyncTournament[t], t, sync.runAt)

\* Slip: the stages wait for every tournament's success, as with Promise.all.
TournamentsSettled_All == \A t \in sync.tournaments : trequest[SyncTournament[t]].pc = "done"

TournamentsSettled ==
  \A t \in sync.tournaments : trequest[SyncTournament[t]].pc \in {"done", "failed"}

SyncTheStage(s) ==
  /\ s \in sync.stages
  /\ TournamentsSettled
  /\ FindFor(SyncStage[s], s, sync.runAt)
  /\ UNCHANGED tvars

SyncFindFails ==
  \/ \E t \in sync.tournaments : FindTournamentFails(SyncTournament[t])
  \/ \E s \in sync.stages : TournamentsSettled /\ FindFails(SyncStage[s]) /\ UNCHANGED tvars

-----------------------------------------------------------------------------
(* The death of the server                                                 *)

TournamentCancelUnderWay(t) ==
  \E r \in TournamentRequests : trequest[r].pc = "cancel" /\ trequest[r].tournamentId = t

\* The slots whose stage check is about to schedule a check of t, or is at it.
Triggering(t) == {w \in Checkers \ triggered : /\ check[w].pc = "sideEffects"
                                               /\ TournamentOf[check[w].stageId] = t}

TournamentScheduling(t) ==
  {Armed(trequest[r].runAt, NoChain) :
     r \in {q \in TournamentRequests : trequest[q].pc = "schedule" /\ trequest[q].tournamentId = t}}
  \cup UNION {Triggers(w) : w \in Triggering(t)}

\* What is left of the schedule of t with the calls that are under way.
LeftOfTournament(t) ==
  UNION {CutOff(j) : j \in
    {tjob[t]} \cup (IF TournamentCancelUnderWay(t) THEN HalfCancelled(tjob[t]) ELSE {})
              \cup UNION {Rejected(tjob[t], new) : new \in TournamentScheduling(t)}}

\* A bulk sync lives in its handler's memory only: what it has not asked for yet
\* is never asked for.
ServerDies ==
  /\ Crash(triggered)
  /\ tjob' \in {f \in [Tournaments -> UNION {LeftOfTournament(t) : t \in Tournaments}] :
                  \A t \in Tournaments : f[t] \in LeftOfTournament(t)}
  /\ tcheck' = [w \in Checkers |-> IdleCheck]
  /\ trequest' = [r \in TournamentRequests |-> IF trequest[r].pc \in {"schedule", "cancel"}
                                                  THEN [pc |-> "failed"] ELSE trequest[r]]
  /\ triggered' = {}
  /\ sync' = IF sync.state = "asked" THEN [SyncAt("died") EXCEPT !.runAt = sync.runAt] ELSE sync
  /\ lost' = lost \cup {TournamentOf[check[w].stageId] :
                         w \in {v \in Checkers \ triggered : check[v].pc \in {"refresh", "sideEffects"}}}
  /\ UNCHANGED tournament

-----------------------------------------------------------------------------
\* A tournament is deleted or moved.
EditTournament ==
  /\ edits < MaxEdits /\ edits + faults < MaxUpsets
  /\ edits' = edits + 1
  /\ \E t \in Tournaments :
       \/ tournament' = [tournament EXCEPT ![t].status = "DELETED"]
       \/ \E d \in TournamentDrafts :
            tournament' = [tournament EXCEPT ![t].startDate = d.startDate, ![t].endDate = d.endDate]
  /\ tournament' # tournament
  /\ UNCHANGED <<now, stage, job, check, request, faults>>
  /\ UNCHANGED <<tjob, tcheck, trequest, triggered, sync, lost>>

StageCheckStep(w) ==
  \/ /\ FindStage(w) \/ UpdateStage(w) \/ RefreshStage(w) \/ RejectPending(w) \/ CompleteCheck(w)
     /\ UNCHANGED tvars
  \/ TriggerTournament(w) \/ AfterTrigger(w)

TournamentCheckStep(w) == FindTournament(w) \/ UpdateTournament(w) \/ CompleteTournamentCheck(w)

\* Slip: a slot that runs a stage check counts as free.
FreeSlots_OtherKind == {w \in Checkers : tcheck[w].pc = "idle"}

\* A slot runs one job, of either kind; free slots are alike.
FreeSlots == {w \in Checkers : check[w].pc = "idle" /\ tcheck[w].pc = "idle"}
Deliver ==
  /\ FreeSlots # {}
  /\ LET w == CHOOSE w \in FreeSlots : TRUE IN
     (StartCheck(w) /\ UNCHANGED tvars) \/ StartTournamentCheck(w)

NotDelivered ==
  /\ FreeSlots # {}
  /\ \/ \E s \in Stages : ClaimFails(s) /\ UNCHANGED tvars
     \/ \E t \in Tournaments : TournamentClaimFails(t)

StageRequestStep(r) == RequestStep(r) /\ UNCHANGED tvars

SyncStep == (\E t \in Tournaments : SyncTheTournament(t)) \/ (\E s \in Stages : SyncTheStage(s))

\* Time is over and every schedule has been run.
AllIdle ==
  /\ Idle
  /\ \A w \in Checkers : tcheck[w].pc = "idle"
  /\ \A t \in Tournaments : tjob[t].state # "armed"
  /\ UNCHANGED tvars

AutomationNext ==
  \/ Deliver \/ \E w \in Checkers : StageCheckStep(w) \/ TournamentCheckStep(w)
  \/ \E w \in Checkers : TriggerFails(w) \/ StageCheckFails(w) \/ TournamentCheckFails(w)
  \/ \E r \in Requests : AskForStage(r) \/ StageRequestStep(r) \/ (RequestFails(r) /\ UNCHANGED tvars)
  \/ \E r \in TournamentRequests : AskForTournament(r) \/ TournamentRequestStep(r)
                                    \/ TournamentRequestFails(r)
  \/ \E s \in Stages : (Repair(s) \/ MarkedLate(s)) /\ UNCHANGED tvars
  \/ \E t \in Tournaments : RepairTournament(t) \/ TournamentMarkedLate(t)
  \/ BeginSync \/ SyncStep \/ SyncFindFails
  \/ NotDelivered \/ ServerDies
  \/ EditTournament \/ ((Edit \/ Tick) /\ UNCHANGED tvars)
  \/ AllIdle

\* As for the stages alone; a bulk sync that has begun goes on while its process
\* lives.
AutomationFairness ==
  /\ \A w \in Checkers : WF_allVars(StageCheckStep(w)) /\ WF_allVars(TournamentCheckStep(w))
  /\ WF_allVars(Deliver)
  /\ \A r \in Requests : WF_allVars(StageRequestStep(r))
  /\ \A r \in TournamentRequests : WF_allVars(TournamentRequestStep(r))
  /\ WF_allVars(SyncStep)
  /\ WF_allVars(Tick /\ UNCHANGED tvars)

AutomationSpec == AutomationInit /\ [][AutomationNext]_allVars /\ AutomationFairness

-----------------------------------------------------------------------------
AutomationTypeOK ==
  /\ StageTypeOK
  /\ tournament \in [Tournaments -> TournamentDoc]
  /\ \A t \in Tournaments : /\ tjob[t].state \in {"none", "armed", "stranded", "dead"} \cup RUNNING
                            /\ tjob[t].runAt \in Date \cup {MaxTime + 1, MaxTime + TRIGGER_DELAY}
                            /\ tjob[t].attempts \in 0 .. Attempts
                            /\ tjob[t].state \in {"armed", "stranded"} => tjob[t].attempts < Attempts
                            /\ tjob[t].failures \in 0 .. Attempts - 1
                            /\ tjob[t].by \in Checkers \cup {Nobody}
  /\ \A w \in Checkers :
       /\ tcheck[w].pc \in {"idle", "find", "update", "complete"}
       /\ tcheck[w].pc # "idle" => check[w].pc = "idle" /\ tcheck[w].tournamentId \in Tournaments
       /\ tcheck[w].pc \in {"find", "update"} => tcheck[w].now \in Times
       /\ tcheck[w].pc = "update" => /\ tcheck[w].newStatus \in TOURNAMENT_STATUS
                                     /\ tcheck[w].read \in TournamentDoc
  /\ \A r \in TournamentRequests : trequest[r].pc \in {"idle", "schedule", "cancel", "done", "failed"}
  /\ \A w \in triggered : check[w].pc = "sideEffects"
  /\ sync.state \in {"never", "awaited", "asked", "died"} /\ sync.runAt \in Date
  /\ sync.tournaments \subseteq Tournaments /\ sync.stages \subseteq Stages
  /\ lost \subseteq Tournaments

\* What stage status newStatus says its tournament's status cannot be for long.
Behind(t, newStatus) ==
  \/ newStatus \in {"IN_PROGRESS", "COMPLETED"} /\ tournament[t].status \in {"DRAFT", "UPCOMING"}
  \/ newStatus = "COMPLETED" /\ tournament[t].status = "OPEN"

(* The tournament follows its stages: after a check has started or          *)
(* completed a stage that lies within its tournament, the tournament is     *)
(* opened or completed too.  It may not be if the trigger was lost, if the  *)
(* check it schedules is given up or cancelled by somebody who saw the      *)
(* tournament over, or if the tournament is moved.                          *)
TournamentFollowsStages ==
  \A s \in Stages, newStatus \in {"IN_PROGRESS", "COMPLETED"}, d \in TournamentDrafts :
    LET t == TournamentOf[s]
        unmoved == tournament[t].startDate = d.startDate /\ tournament[t].endDate = d.endDate IN
    /\ unmoved
    /\ \E w \in Checkers \ triggered :
         /\ check[w].pc = "sideEffects" /\ check[w].stageId = s /\ check[w].newStatus = newStatus
         /\ check[w].now >= d.startDate /\ (newStatus = "COMPLETED" => check[w].now > d.endDate)
    ~> \/ ~Behind(t, newStatus) \/ ~unmoved
       \/ t \in lost \/ tjob[t].state \in {"dead", "stranded"} \/ TournamentCancelUnderWay(t)

(* A check that a stage's side effects, a request or a bulk sync scheduled  *)
(* for a tournament is made, however checks overlap, unless a fault costs   *)
(* it or somebody who saw the tournament over cancels it.                   *)
TriggeredCheckIsMade ==
  [][\A t \in Tournaments :
       tjob[t].state = "armed" /\ tjob'[t].state # "armed" =>
         \/ \E w \in Checkers : StartTournamentCheck(w) /\ tcheck'[w].tournamentId = t
         \/ TournamentCancelUnderWay(t) \/ Fault]_allVars

\* The sync's process died before it came to an invocation.
Unasked(invocation) == sync.state = "died" /\ invocation.pc = "idle"

(* The bulk sync reaches everything it listed, one failed call or not: each *)
(* tournament and stage has a check at its time or later, unless it is      *)
(* over, or taken out, by then, its own schedule() fails, its check is      *)
(* given up or cancelled, or the sync's process dies before it has come to  *)
(* ask for it.                                                              *)
SyncReachesEverything ==
  /\ \A t \in Tournaments :
       t \in sync.tournaments /\ trequest[SyncTournament[t]].pc = "idle" ~>
         \/ \E w \in Checkers : /\ tcheck[w].pc = "find" /\ tcheck[w].tournamentId = t
                               /\ tcheck[w].now >= sync.runAt
         \/ tournament[t].status \in OVER \/ trequest[SyncTournament[t]].pc = "failed"
         \/ tjob[t].state \in {"dead", "stranded"} \/ TournamentCancelUnderWay(t)
         \/ Unasked(trequest[SyncTournament[t]])
  /\ \A s \in Stages :
       s \in sync.stages /\ request[SyncStage[s]].pc = "idle" ~>
         \/ \E w \in Checkers : check[w].pc = "find" /\ check[w].stageId = s /\ check[w].now >= sync.runAt
         \/ stage[s].status \in OUT_OF_TOURNAMENT \/ request[SyncStage[s]].pc = "failed"
         \/ job[s].state \in {"dead", "stranded"} \/ CancelUnderWay(s)
         \/ Unasked(request[SyncStage[s]])

(* A tournament or a stage that is over stays so, whoever checks it, but    *)
(* for a check that read it before and overlaps with the one that ended it. *)
OnlyOverlapReopens ==
  [][/\ \A t \in Tournaments :
          tournament[t].status \in OVER /\ tournament'[t].status \notin OVER =>
            \E w \in Checkers : /\ tcheck[w].pc = "update" /\ tcheck[w].tournamentId = t
                               /\ tcheck[w].read # tournament[t]
     /\ \A s \in Stages :
          stage[s].status \in OVER /\ stage'[s].status \notin OVER \cup {"POSTPONED"} =>
            \E w \in Checkers : /\ check[w].pc = "update" /\ check[w].stageId = s
                               /\ check[w].previous # stage[s]]_allVars
=============================================================================
