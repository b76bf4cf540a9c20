----------------------------- MODULE MCGateway ------------------------------
(***************************************************************************)
(* Small deployments for TLC: agent p1 has an implicit root run with a     *)
(* budget of 2 and a child run below it, on which its leases are issued.   *)
(***************************************************************************)
EXTENDS Gateway, TLC

CONSTANTS p1, root, child

MCPrincipal == {p1}
MCRun == {root, child}
MCOwner == root :> p1 @@ child :> p1
MCParent == root :> NoRun @@ child :> root
MCBudget == root :> 2 @@ child :> 0
MCLeaseRun == [l \in Lease |-> child]
MCCeiling == [l \in Lease |-> 1]
MCImplicitRun == p1 :> root

HoldSymmetry == Permutations(Hold)
=============================================================================
