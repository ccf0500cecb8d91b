--------------------------- MODULE MCStageAutomation ---------------------------
(***************************************************************************)
(* Instances of StageAutomation for TLC.                                   *)
(***************************************************************************)
EXTENDS StageAutomation

Draft(preAllowed, preStart, preEnd, regStart, regEnd, start, end) ==
  [status |-> "UPCOMING", isPreRegistrationAllowed |-> preAllowed, full |-> FALSE, pending |-> FALSE,
   dates |-> [preRegistrationWindowStart |-> preStart, preRegistrationWindowEnd |-> preEnd,
              registrationWindowStart |-> regStart, registrationWindowEnd |-> regEnd,
              startDate |-> start, endDate |-> end]]

\* The pre-registration window and the stage itself last an instant.
WithPreRegistration == {Draft(TRUE, 0, 0, 1, 3, 5, 5)}
\* Registration ends half a second before the stage starts; there is no
\* pre-registration that could open.
Plain               == {Draft(TRUE, Off, Epoch, 1, 3, 4, 6)}
=============================================================================
