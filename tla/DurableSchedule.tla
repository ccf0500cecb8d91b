----------------------------- MODULE DurableSchedule -----------------------------
(***************************************************************************)
(* What bullmq-lazy-scheduler promises, without queue, deliveries,         *)
(* processes or reconciliation: each job id has at most one current        *)
(* schedule; a schedule is open until it is settled or withdrawn, and      *)
(* stays closed until a newer one replaces it; a run begins only for the   *)
(* open current schedule, with its payload, not before its time and at     *)
(* most `attempts` times; and only a run of the current schedule settles   *)
(* it.                                                                     *)
(***************************************************************************)
EXTENDS Naturals

CONSTANTS JobIds, Workers, NoRun

Outcomes    == {"completed", "failed", "dead_letter"}
Withdrawals == {"cancelled", "expired"}

VARIABLES
  now,     \* the clock
  sched,   \* sched[j]: the current schedule of job id j
  runs     \* runs[w]: the run worker w is busy with, or NoRun

vars == <<now, sched, runs>>

Init ==
  /\ now \in Nat
  /\ \A j \in JobIds : sched[j].id = 0 /\ sched[j].phase = "none"
  /\ runs = [w \in Workers |-> NoRun]

\* A newer schedule takes the place of whatever j had.
Schedule(j) ==
  LET new == sched'[j] IN
  /\ new.id > sched[j].id /\ new.made = 0 /\ new.phase = "open"
  /\ sched' = [sched EXCEPT ![j] = new]
  /\ now' >= now
  /\ UNCHANGED runs

RunOf(j) == [job |-> j, id |-> sched[j].id, payload |-> sched[j].payload]

\* An attempt of j's current schedule is used up.
SpendAttempt(j) ==
  /\ sched[j].phase = "open" /\ sched[j].runAt <= now /\ sched[j].made < sched[j].attempts
  /\ sched' = [sched EXCEPT ![j].made = @ + 1]
  /\ UNCHANGED now

StartRun(w, j) ==
  /\ runs[w] = NoRun
  /\ SpendAttempt(j)
  /\ runs' = [runs EXCEPT ![w] = RunOf(j)]

\* The worker never learns that the attempt is its own.
LoseAttempt(j) == SpendAttempt(j) /\ UNCHANGED runs

\* The run of worker w, of j's current schedule, settles it; w may have more
\* to do before the run is over.
SettleRun(w, j) ==
  /\ runs[w] = RunOf(j) /\ sched[j].phase = "open"
  /\ \E outcome \in Outcomes : sched' = [sched EXCEPT ![j].phase = outcome]
  /\ runs' \in {runs, [runs EXCEPT ![w] = NoRun]}
  /\ UNCHANGED now

\* Runs end, one by one or all those of a process that dies.
EndRuns ==
  /\ \E ended \in SUBSET Workers :
       runs' = [w \in Workers |-> IF w \in ended THEN NoRun ELSE runs[w]]
  /\ UNCHANGED <<now, sched>>

Withdraw(j) ==
  /\ sched[j].phase = "open"
  /\ \E outcome \in Withdrawals : sched' = [sched EXCEPT ![j].phase = outcome]
  /\ UNCHANGED <<now, runs>>

Tick == now' > now /\ UNCHANGED <<sched, runs>>

Next ==
  \/ \E j \in JobIds : Schedule(j) \/ Withdraw(j) \/ LoseAttempt(j)
  \/ \E w \in Workers, j \in JobIds : StartRun(w, j) \/ SettleRun(w, j)
  \/ EndRuns
  \/ Tick

Spec == Init /\ [][Next]_vars
=============================================================================
