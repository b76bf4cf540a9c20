-------------------------- MODULE MCPostgresStore --------------------------
(***************************************************************************)
(* Two replicas and one agent for TLC: a root run with a budget of 1 and a *)
(* child run below it, with a lease on the child.                          *)
(***************************************************************************)
EXTENDS PostgresStore, TLC

CONSTANTS p1, root, child, l1, h1, h2, s1, s2

MCPrincipal == {p1}
MCRun == {root, child}
MCLease == {l1}
MCOwner == root :> p1 @@ child :> p1
MCParent == root :> NoRun @@ child :> root
MCBudget == root :> 1 @@ child :> 1
MCLeaseRun == l1 :> child
MCCeiling == l1 :> 1
MCRunOf == h1 :> child @@ h2 :> child
MCLeaseOf == h1 :> l1 @@ h2 :> NoLease
MCHome == h1 :> s1 @@ h2 :> s2
=============================================================================
