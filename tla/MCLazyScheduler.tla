----------------------------- MODULE MCLazyScheduler -----------------------------
(***************************************************************************)
(* Instances of LazyScheduler for TLC.                                     *)
(***************************************************************************)
EXTENDS LazySchedulerProps, TLC

CONSTANTS j1, j2, c1, c2, n1, n2, s1, s2

Schedules(jobs, runAts, ttls, attempts, replace) ==
  [kind : {"schedule"}, job : jobs, runAt : runAts, ttlMs : ttls, attempts : attempts,
   replaceExisting : replace]
Cancels(jobs) ==
  [kind : {"cancel"}, job : jobs, runAt : {0}, ttlMs : {0}, attempts : {0},
   replaceExisting : {TRUE}]

OneSlot  == s1 :> n1
TwoNodes == s1 :> n1 @@ s2 :> n2

AllHandlers  == [n \in Nodes |-> JobIds]
OneHandler   == [n \in Nodes |-> IF n = n1 THEN JobIds ELSE {}]

\* Slots belong to a node, so only the calls are interchangeable.
Interchangeable == Permutations(Calls)

\* schedule() against schedule() against cancel(), replaceExisting or not.
Rivals     == Schedules({j1}, {1}, {0}, {1}, {TRUE, FALSE}) \cup Cancels({j1})
\* A single attempt; several attempts.
Once       == Schedules({j1}, {2}, {0}, {1}, {TRUE})
Retried    == Schedules({j1}, {1}, {0}, {2}, {TRUE})
\* A schedule with several attempts that may expire, one that may not, cancel().
Perilous   == Schedules({j1}, {1}, {1}, {2}, {TRUE}) \cup Schedules({j1}, {2}, {0}, {1}, {TRUE})
                \cup Cancels({j1})
\* Schedules that may expire.
ShortLived == Schedules({j1}, {1, 3}, {1}, {1}, {TRUE})
=============================================================================
