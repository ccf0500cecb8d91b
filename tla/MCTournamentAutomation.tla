------------------------- MODULE MCTournamentAutomation -------------------------
(***************************************************************************)
(* An instance of TournamentAutomation for TLC.                            *)
(***************************************************************************)
EXTENDS TournamentAutomation

CONSTANTS s1, t1, r1, q1

\* The stage and its tournament begin and end together; its pre-registration was
\* taken back, which left nulls.
Stage1      == {[status |-> "UPCOMING", isPreRegistrationAllowed |-> TRUE, full |-> FALSE,
                 pending |-> FALSE,
                 dates |-> [preRegistrationWindowStart |-> Epoch, preRegistrationWindowEnd |-> Epoch,
                            registrationWindowStart |-> 0, registrationWindowEnd |-> 0,
                            startDate |-> 1, endDate |-> 2]]}
Tournament1 == {[status |-> "DRAFT", startDate |-> 1, endDate |-> 2]}

InTournament1 == [s \in {s1} |-> t1]
StageCalls    == [s \in {s1} |-> r1]
TournamentCalls == [t \in {t1} |-> q1]
=============================================================================
