------------------------------ MODULE Reconcile -----------------------------
(***************************************************************************)
(* Reconciliation of the ledger with a vendor's statement:                 *)
(* internal/reconcile.  Rows are compared in groups, one for each model    *)
(* (and provider, which is one with the model here).  Request identifiers  *)
(* are only counted and decide nothing, so they are left out.              *)
(***************************************************************************)
EXTENDS Pricing, SequencesExt

(* Mutant: the day a period ends with is in it.                            *)
MutInPeriod(at, period) == period.since <= at /\ at <= period.until

(* Half open, so that one period ends where the next one begins.           *)
inPeriod(at, period) == period.since <= at /\ at < period.until

NoneYet == [records |-> 0, cost |-> 0, usage |-> NoUsage]

add(group, r) ==
  [records |-> group.records + 1, cost |-> group.cost + r.cost,
   usage |-> [c \in Category |-> group.usage[c] + r.usage[c]]]

(* The aggregate of a group, all zero where the code has none: value.      *)
Aggregate(rows, model, period) ==
  FoldLeft(LAMBDA group, r :
             IF r.model = model /\ inPeriod(r.day, period) THEN add(group, r) ELSE group,
           NoneYet, rows)

usageDelta(left, right) == {c \in Category : left.usage[c] # right.usage[c]}

groupStatus(left, right, tolerance) ==
  CASE left.records = 0 -> "statement_only"
    [] left.records > 0 /\ right.records = 0 -> "ledger_only"
    [] left.records > 0 /\ right.records > 0 ->
         IF left.cost - right.cost \notin -tolerance .. tolerance THEN "cost_mismatch"
         ELSE IF usageDelta(left, right) # {} THEN "usage_mismatch" ELSE "match"

(* The status of each group there is.                                      *)
Build(ledger, statement, period, tolerance) ==
  LET left  == [m \in Model |-> Aggregate(ledger, m, period)]
      right == [m \in Model |-> Aggregate(statement, m, period)]
  IN  [m \in {n \in Model : left[n].records > 0 \/ right[n].records > 0} |->
         groupStatus(left[m], right[m], tolerance)]

Mismatched(report) == \E m \in DOMAIN report : report[m] # "match"
=============================================================================
