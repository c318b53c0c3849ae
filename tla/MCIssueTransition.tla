-------------------------- MODULE MCIssueTransition --------------------------
(***************************************************************************)
(* Small instances of IssueTransition: one parent, one or two sub-tasks,   *)
(* the statuses a gate and a close need, and a rule on the last move.      *)
(***************************************************************************)
EXTENDS IssueTransition, TLC

CONSTANTS parent, kid, twin

\* A parent with two sub-tasks, with one, and an issue alone.
FamilyOfTwo == (parent :> NoIssue) @@ (kid :> parent) @@ (twin :> parent)
FamilyOfOne == (parent :> NoIssue) @@ (kid :> parent)
Alone == (parent :> NoIssue)
MCStatuses == {"Backlog", "Review", "Done"}
MCGates == {<<"Review", "Done">>}
MCTwoStatuses == {"Review", "Done"}
MCNoPairs == {}
MCEdges == {<<"Backlog", "Review">>, <<"Review", "Done">>, <<"Review", "Backlog">>}
MCAutoReopen == {<<"Review", "Done">>, <<"Done", "Review">>}
Symmetry == Permutations(Requests) \cup Permutations(Eligible)
=============================================================================
