---------------------------- MODULE MCConnection ----------------------------
(***************************************************************************)
(* Budgets for the runs of Connection.                                     *)
(***************************************************************************)
EXTENDS Connection, TLC

Limits(fault, send) == [k \in Kind |-> IF k = "fault" THEN fault ELSE send]

ConnectBudget == Limits(2, 1)

HangBudget == Limits(1, 0)

=============================================================================
