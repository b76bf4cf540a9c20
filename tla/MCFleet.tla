------------------------------ MODULE MCFleet -------------------------------
(***************************************************************************)
(* Two gateways, of which one is a version behind, and two vendors.        *)
(***************************************************************************)
EXTENDS Fleet, TLC

CONSTANTS g1, g2

MCReplica == {g1, g2}
MCShips == g1 :> 2 @@ g2 :> 1
=============================================================================
