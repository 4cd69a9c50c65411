----------------------------- MODULE MCNatPath ------------------------------
(***************************************************************************)
(* Flows and budgets for the runs of NatPath.                              *)
(***************************************************************************)
EXTENDS NatPath, TLC

CONSTANTS s1, h1

F(s, sport) == [sta |-> s, sport |-> sport, dst |-> h1, dport |-> 1]

OneFlow == {F(s1, 2)}

TwoFlows == {F(s1, 2), F(s1, 3)}

Limits(packet, move, fault) ==
    [k \in Kind |-> CASE k = "packet" -> packet
                      [] k = "move" -> move
                      [] k = "fault" -> fault]

MoveBudget == Limits(2, 1, 0)

NatBudget == Limits(2, 2, 1)

Symmetry == Permutations(AP)

=============================================================================
