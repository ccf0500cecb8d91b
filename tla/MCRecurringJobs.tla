----------------------------- MODULE MCRecurringJobs -----------------------------
(***************************************************************************)
(* Instances of RecurringJobs for TLC.                                     *)
(***************************************************************************)
EXTENDS RecurringJobs

CONSTANTS potm, leaderboard

TwoJobs == <<potm, leaderboard>>
=============================================================================
