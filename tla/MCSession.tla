----------------------------- MODULE MCSession -------------------------------
(***************************************************************************)
(* Sessions made of an empty rail or one of one policy, with or without a  *)
(* row, for a host with ports.                                             *)
(***************************************************************************)
EXTENDS SimulationSession

CONSTANTS p1, p2

LoggedRows == {[tag |-> "decision", policy |-> p1], [tag |-> "orphan", policy |-> Nothing]}

SessionInit ==
    \E list \in {<<>>, <<p1>>}, row \in Rows \cup {Nothing} :
        makeSimulationSession(list, row, CHOOSE layer \in Layers : TRUE)

SessionSpec == SessionInit /\ [][SessionNext]_sessionVars

=============================================================================
