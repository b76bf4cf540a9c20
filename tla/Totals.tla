------------------------------- MODULE Totals -------------------------------
(***************************************************************************)
(* Sums of money.  The datastore computes every balance with SQL's SUM     *)
(* over the rows that satisfy a condition; Total(S, amount) is that sum,   *)
(* the amount of every row of S being a natural number of nano-dollars     *)
(* (the columns amount_nanos and cost_nanos are CHECKed non-negative).     *)
(*                                                                         *)
(* The sum is defined as the number of single nano-dollars the rows hold   *)
(* between them, not by recursion over the rows, so that what it preserves *)
(* and bounds follows from the theorems on the cardinality of finite sets. *)
(***************************************************************************)
EXTENDS Integers, FiniteSets

(* The nano-dollars of the rows S, each tagged with the row that holds it. *)
Units(S, amount) == UNION {{x} \X (1 .. amount[x]) : x \in S}

Total(S, amount) == Cardinality(Units(S, amount))
=============================================================================
