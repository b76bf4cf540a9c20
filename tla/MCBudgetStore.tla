--------------------------- MODULE MCBudgetStore ----------------------------
(***************************************************************************)
(* A small deployment for TLC: agent p1 has a root run with a budget of 3, *)
(* on which onboarding puts a lease with a ceiling of 1, and a child run   *)
(* with a budget of 2; agent p2 tries to put a run below p1's root.        *)
(***************************************************************************)
EXTENDS BudgetStore, TLC

CONSTANTS p1, p2, root, child, foreign, l1

MCPrincipal == {p1, p2}
MCRun == {root, child, foreign}
MCLease == {l1}
MCOwner == root :> p1 @@ child :> p1 @@ foreign :> p2
MCParent == root :> NoRun @@ child :> root @@ foreign :> root
MCBudget == root :> 3 @@ child :> 2 @@ foreign :> 0
MCLeaseRun == l1 :> root
MCCeiling == l1 :> 1

HoldSymmetry == Permutations(Hold)
=============================================================================
