----------------------------- MODULE MCConsole ------------------------------
(***************************************************************************)
(* One agent with a run and a lease, two operators that start as admins    *)
(* and one that does not exist yet, and an alert queue of one.  A          *)
(* behaviour has two requests, a request and a command, or two commands.   *)
(***************************************************************************)
EXTENDS Console, TLC

CONSTANTS p1, root, l1, q1, q2, c1, c2

MCPrincipal == {p1}
MCRun == {root}
MCLease == {l1}
MCOwner == root :> p1
MCParent == root :> NoRun
MCBudget == root :> 0
MCLeaseRun == l1 :> root
MCCeiling == l1 :> 0
MCRequest == {q1, q2}
MCCommand == {c1, c2}
MCWorkloads == {{q1, q2}, {q1, c1}, {c1, c2}}
=============================================================================
