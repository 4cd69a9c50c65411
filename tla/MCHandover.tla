----------------------------- MODULE MCHandover -----------------------------
(***************************************************************************)
(* Budgets for the runs of Handover.  Every station joins once unless a    *)
(* budget says otherwise; "data" is the number of data frames whose signal *)
(* strength an AP reports.                                                 *)
(***************************************************************************)
EXTENDS Handover, TLC

None_ == [k \in Kind |-> 0]

(***************************************************************************)
(* A station that joins once and then only moves.                          *)
(***************************************************************************)
RoamBudget == [None_ EXCEPT !["probe"] = 2, !["auth"] = 1, !["assoc"] = 1,
                            !["data"] = 4]

SettleBudget == [RoamBudget EXCEPT !["probe"] = 1]

(***************************************************************************)
(* Stations that also leave and come back, no failures.                    *)
(***************************************************************************)
LeaveBudget == [None_ EXCEPT !["probe"] = 2, !["auth"] = 2, !["assoc"] = 2,
                             !["data"] = 1, !["leave"] = 1]

(***************************************************************************)
(* Two connections break and an AP restarts, in any order.                 *)
(***************************************************************************)
FailBudget == [None_ EXCEPT !["probe"] = 1, !["auth"] = 1, !["assoc"] = 1,
                            !["reassoc"] = 1, !["data"] = 2,
                            !["cut"] = 2, !["restart"] = 1]

CutBudget == [SettleBudget EXCEPT !["data"] = 3, !["cut"] = 1]

(***************************************************************************)
(* APs are alike, and so are the threads of an AP.                         *)
(***************************************************************************)
Symmetry == Permutations(AP) \cup Permutations(Thread)

=============================================================================
