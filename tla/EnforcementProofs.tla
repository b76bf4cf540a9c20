------------------------- MODULE EnforcementProofs --------------------------
(***************************************************************************)
(* What enforcement promises, for every hierarchy of runs and every set of *)
(* budgets and ceilings: the admitted holds fit every budget of their      *)
(* ancestry and the ceiling of their lease, a hierarchy belongs to one     *)
(* principal, nothing starts below a closed run, and a charge is final.    *)
(* First the safety of each operation on its own, then what enforcement    *)
(* promises about them all.                                                *)
(***************************************************************************)
EXTENDS BudgetStore, TotalsProofs, WellFoundedInduction

-----------------------------------------------------------------------------
(***************************************************************************)
(* The operations.                                                         *)
(***************************************************************************)

(* The steps of Next, one disjunct per operation.                          *)
LEMMA StepCases ==
  ASSUME Next
  PROVE  \/ \E r \in Run : CreateRun(r)
         \/ \E r \in Run : CloseRun(r)
         \/ \E r \in Run, c \in Costs : AppendLedger(r, c)
         \/ \E l \in Lease : CreatePrincipalRunLease(LeaseRun[l], l)
         \/ \E l \in Lease : CreateLease(l)
         \/ \E l \in Lease : RevokeLease(l)
         \/ \E l \in Lease : LeaseExpires(l)
         \/ \E p \in Principal : RevokeLeasesForPrincipal(p)
         \/ \E h \in Hold, r \in Run, l \in Lease \cup {NoLease}, a \in Amounts,
               e \in BOOLEAN : TryReserve(h, r, l, a, e)
         \/ \E h \in Hold : ReleaseReservation(h)
         \/ \E h \in Hold : TtlPasses(h)
         \/ \E h \in Hold, c \in Costs : SettleReservation(h, c)
         \/ ExpirePendingReservations
<1>1. ASSUME NEW h \in Hold, HoldOperation(h)
      PROVE  \/ \E r \in Run, l \in Lease \cup {NoLease}, a \in Amounts, e \in BOOLEAN :
                   TryReserve(h, r, l, a, e)
             \/ ReleaseReservation(h)
             \/ TtlPasses(h)
             \/ \E c \in Costs : SettleReservation(h, c)
  BY <1>1, RowValues DEF HoldOperation
<1>2. ASSUME NEW r \in Run, RunOperation(r)
      PROVE  CreateRun(r) \/ CloseRun(r) \/ \E c \in Costs : AppendLedger(r, c)
  BY <1>2 DEF RunOperation
<1> QED
  BY <1>1, <1>2, Zenon DEF Next, LeaseOperation

-----------------------------------------------------------------------------

(* The rows a query ranges over are finitely many.                         *)
LEMMA LedgerRows ==
  ASSUME TypeOK
  PROVE  /\ Len(ledger) \in Nat
         /\ DOMAIN ledger = 1 .. Len(ledger)
         /\ IsFiniteSet(DOMAIN ledger)
         /\ \A i \in DOMAIN ledger : ledger[i] \in Entry
<1>1. ledger \in Seq(Entry)
  BY DEF TypeOK
<1>2. Len(ledger) \in Nat /\ DOMAIN ledger = 1 .. Len(ledger)
  BY <1>1
<1>3. 1 \in Int /\ Len(ledger) \in Int
  BY <1>2
<1>4. IsFiniteSet(1 .. Len(ledger))
  BY <1>3, FS_Interval
<1>5. \A i \in 1 .. Len(ledger) : ledger[i] \in Entry
  BY <1>1, <1>2
<1> QED
  BY <1>2, <1>4, <1>5

(* A hold that is not absent is a row, and updating its status leaves its  *)
(* other columns alone.                                                    *)
LEMMA StatusUpdate ==
  ASSUME TypeOK, NEW h \in Hold, hold[h].status # "absent", NEW s \in HoldStatus
  PROVE  /\ hold[h] \in HoldRow
         /\ [hold[h] EXCEPT !.status = s] \in HoldRow
         /\ [hold[h] EXCEPT !.status = s].status = s
         /\ \A field \in {"run", "lease", "amount", "enforced"} :
              [hold[h] EXCEPT !.status = s][field] = hold[h][field]
<1>1. hold[h] \in HoldRow
  BY DEF TypeOK, NoHold
<1> QED
  BY <1>1 DEF HoldRow

(* Every operation that charges appends one entry to the ledger and leaves *)
(* the entries before it alone.                                            *)
LEMMA Appended ==
  ASSUME TypeOK, NEW r \in Run, NEW c \in Costs,
         ledger' = Append(ledger, [run |-> r, cost |-> c])
  PROVE  /\ ledger' \in Seq(Entry)
         /\ Len(ledger') = Len(ledger) + 1
         /\ DOMAIN ledger' = 1 .. (Len(ledger) + 1)
         /\ \A i \in DOMAIN ledger : i \in DOMAIN ledger' /\ ledger'[i] = ledger[i]
         /\ ledger'[Len(ledger) + 1] = [run |-> r, cost |-> c]
<1> DEFINE e == [run |-> r, cost |-> c]
<1>1. ledger \in Seq(Entry) /\ e \in Entry
  BY Money DEF TypeOK, Entry
<1>2. ledger' = Append(ledger, e)
  OBVIOUS
<1>3. DOMAIN ledger = 1 .. Len(ledger) /\ Len(ledger) \in Nat
  BY LedgerRows
<1> HIDE DEF e
<1>4. /\ ledger' \in Seq(Entry)
      /\ Len(ledger') = Len(ledger) + 1
      /\ DOMAIN ledger' = 1 .. (Len(ledger) + 1)
      /\ \A i \in 1 .. Len(ledger) : ledger'[i] = ledger[i]
      /\ ledger'[Len(ledger) + 1] = e
  BY <1>1, <1>2, <1>3
<1> QED
  BY <1>3, <1>4 DEF e

-----------------------------------------------------------------------------
(***************************************************************************)
(* Type correctness.                                                       *)
(***************************************************************************)

(* The rows keep the shape the schema gives them: statuses are those of    *)
(* the CHECK constraints, amounts and costs are not negative.              *)
THEOREM TypeCorrect == Spec => []TypeOK
<1>1. Init => TypeOK
  BY DEF Init, TypeOK, RunStatus, LeaseStatus, HoldRow, HoldStatus, NoHold
<1>2. TypeOK /\ [Next]_vars => TypeOK'
  <2> SUFFICES ASSUME TypeOK, [Next]_vars PROVE TypeOK'
    OBVIOUS
  <2> USE DEF TypeOK, RunStatus, LeaseStatus
  <2>1. ASSUME NEW r \in Run, CreateRun(r) PROVE TypeOK'
    BY <2>1 DEF CreateRun, moneyVars
  <2>2. ASSUME NEW r \in Run, CloseRun(r) PROVE TypeOK'
    BY <2>2 DEF CloseRun, moneyVars
  <2>3. ASSUME NEW r \in Run, NEW c \in Costs, AppendLedger(r, c) PROVE TypeOK'
    <3>1. ledger' \in Seq(Entry)
      BY <2>3, Appended DEF AppendLedger
    <3> QED
      BY <2>3, <3>1 DEF AppendLedger, runVars
  <2>4. ASSUME NEW l \in Lease, CreatePrincipalRunLease(LeaseRun[l], l) PROVE TypeOK'
    BY <2>4, RowValues DEF CreatePrincipalRunLease, moneyVars
  <2>5. ASSUME NEW l \in Lease, CreateLease(l) PROVE TypeOK'
    BY <2>5 DEF CreateLease, moneyVars
  <2>6. ASSUME NEW l \in Lease, RevokeLease(l) PROVE TypeOK'
    BY <2>6 DEF RevokeLease, moneyVars
  <2>7. ASSUME NEW l \in Lease, LeaseExpires(l) PROVE TypeOK'
    BY <2>7 DEF LeaseExpires, moneyVars
  <2>8. ASSUME NEW p \in Principal, RevokeLeasesForPrincipal(p) PROVE TypeOK'
    BY <2>8 DEF RevokeLeasesForPrincipal, moneyVars
  <2>9. ASSUME NEW h \in Hold, NEW r \in Run, NEW l \in Lease \cup {NoLease},
               NEW a \in Amounts, NEW e \in BOOLEAN, TryReserve(h, r, l, a, e)
        PROVE  TypeOK'
    <3>1. [status |-> "pending", run |-> r, lease |-> l, amount |-> a, enforced |-> e]
            \in HoldRow
      BY Money DEF HoldRow, HoldStatus
    <3> QED
      BY <2>9, <3>1 DEF TryReserve, runVars
  <2>10. ASSUME NEW h \in Hold, ReleaseReservation(h) PROVE TypeOK'
    <3>1. [hold[h] EXCEPT !.status = "released"] \in HoldRow
      BY <2>10, StatusUpdate DEF ReleaseReservation, HoldStatus
    <3> QED
      BY <2>10, <3>1 DEF ReleaseReservation, runVars
  <2>11. ASSUME NEW h \in Hold, TtlPasses(h) PROVE TypeOK'
    BY <2>11 DEF TtlPasses, runVars
  <2>12. ASSUME NEW h \in Hold, NEW c \in Costs, SettleReservation(h, c) PROVE TypeOK'
    <3>1. settlement' \in [Hold -> Nat]
      BY <2>12, LedgerRows DEF SettleReservation
    <3>2. hold[h] \in HoldRow
      BY <2>12 DEF SettleReservation, NoHold
    <3>3. [hold[h] EXCEPT !.status = "settled"] \in HoldRow
      BY <2>12, StatusUpdate DEF SettleReservation, HoldStatus
    <3>4. hold[h].run \in Run
      BY <3>2 DEF HoldRow
    <3>5. ledger' \in Seq(Entry)
      BY <2>12, <3>4, Appended DEF SettleReservation
    <3> QED
      BY <2>12, <3>1, <3>2, <3>3, <3>5 DEF SettleReservation, runVars
  <2>13. ASSUME ExpirePendingReservations PROVE TypeOK'
    <3>1. \A h \in Hold : hold[h].status = "pending" =>
                           [hold[h] EXCEPT !.status = "expired"] \in HoldRow
      BY StatusUpdate DEF HoldStatus
    <3> QED
      BY <2>13, <3>1 DEF ExpirePendingReservations, runVars
  <2>14. ASSUME UNCHANGED vars PROVE TypeOK'
    BY <2>14 DEF vars
  <2> HIDE DEF TypeOK
  <2>15. CASE Next
    BY <2>1, <2>2, <2>3, <2>4, <2>5, <2>6, <2>7, <2>8, <2>9, <2>10, <2>11, <2>12,
       <2>13, <2>15, StepCases, Zenon
  <2> QED
    BY <2>14, <2>15
<1> QED
  BY <1>1, <1>2, PTL DEF Spec

-----------------------------------------------------------------------------
(***************************************************************************)
(* Settlement integrity.                                                   *)
(***************************************************************************)

(* A hold with a settlement row was settled or expired, so a hold in any   *)
(* other state has none.                                                   *)
LEMMA Unsettled ==
  ASSUME SettlementIntegrity, NEW h \in Hold,
         hold[h].status \notin {"settled", "expired"}
  PROVE  settlement[h] = 0
BY DEF SettlementIntegrity

(* An operation that touches neither holds nor charges.                    *)
LEMMA MoneyUnchanged ==
  ASSUME SettlementIntegrity, UNCHANGED <<hold, ledger, settlement>>
  PROVE  SettlementIntegrity'
BY DEF SettlementIntegrity

(* The datastore charges a hold at most once, whatever order settlements,  *)
(* releases, sweeps and retries come in.                                   *)
THEOREM SettlementsAreSound == Spec => []SettlementIntegrity
<1>1. Init => SettlementIntegrity
  BY DEF Init, SettlementIntegrity, NoHold
<1>2. TypeOK /\ SettlementIntegrity /\ [Next]_vars => SettlementIntegrity'
  <2> SUFFICES ASSUME TypeOK, SettlementIntegrity, [Next]_vars
               PROVE  SettlementIntegrity'
    OBVIOUS
  <2>1. ASSUME NEW r \in Run, CreateRun(r) PROVE SettlementIntegrity'
    BY <2>1, MoneyUnchanged DEF CreateRun, moneyVars
  <2>2. ASSUME NEW r \in Run, CloseRun(r) PROVE SettlementIntegrity'
    BY <2>2, MoneyUnchanged DEF CloseRun, moneyVars
  <2>3. ASSUME NEW r \in Run, NEW c \in Costs, AppendLedger(r, c)
        PROVE  SettlementIntegrity'
    <3>1. \A i \in DOMAIN ledger : i \in DOMAIN ledger' /\ ledger'[i] = ledger[i]
      BY <2>3, Appended DEF AppendLedger
    <3>2. hold' = hold /\ settlement' = settlement
      BY <2>3 DEF AppendLedger
    <3> QED
      BY <3>1, <3>2 DEF SettlementIntegrity
  <2>4. ASSUME NEW l \in Lease, CreatePrincipalRunLease(LeaseRun[l], l)
        PROVE  SettlementIntegrity'
    BY <2>4, MoneyUnchanged DEF CreatePrincipalRunLease, moneyVars
  <2>5. ASSUME NEW l \in Lease, CreateLease(l) PROVE SettlementIntegrity'
    BY <2>5, MoneyUnchanged DEF CreateLease, moneyVars
  <2>6. ASSUME NEW l \in Lease, RevokeLease(l) PROVE SettlementIntegrity'
    BY <2>6, MoneyUnchanged DEF RevokeLease, moneyVars
  <2>7. ASSUME NEW l \in Lease, LeaseExpires(l) PROVE SettlementIntegrity'
    BY <2>7, MoneyUnchanged DEF LeaseExpires, moneyVars
  <2>8. ASSUME NEW p \in Principal, RevokeLeasesForPrincipal(p)
        PROVE  SettlementIntegrity'
    BY <2>8, MoneyUnchanged DEF RevokeLeasesForPrincipal, moneyVars
  <2>9. ASSUME NEW h \in Hold, NEW r \in Run, NEW l \in Lease \cup {NoLease},
               NEW a \in Amounts, NEW e \in BOOLEAN, TryReserve(h, r, l, a, e)
        PROVE  SettlementIntegrity'
    <3>1. settlement[h] = 0
      BY <2>9, Unsettled DEF TryReserve
    <3>2. hold'[h].status = "pending" /\ \A g \in Hold \ {h} : hold'[g] = hold[g]
      BY <2>9 DEF TryReserve, TypeOK
    <3>3. ledger' = ledger /\ settlement' = settlement
      BY <2>9 DEF TryReserve
    <3> QED
      BY <3>1, <3>2, <3>3 DEF SettlementIntegrity
  <2>10. ASSUME NEW h \in Hold, ReleaseReservation(h) PROVE SettlementIntegrity'
    <3>1. settlement[h] = 0
      BY <2>10, Unsettled DEF ReleaseReservation
    <3>2. hold'[h].status = "released" /\ \A g \in Hold \ {h} : hold'[g] = hold[g]
      BY <2>10, StatusUpdate DEF ReleaseReservation, TypeOK, HoldStatus
    <3>3. ledger' = ledger /\ settlement' = settlement
      BY <2>10 DEF ReleaseReservation
    <3> QED
      BY <3>1, <3>2, <3>3 DEF SettlementIntegrity
  <2>11. ASSUME NEW h \in Hold, TtlPasses(h) PROVE SettlementIntegrity'
    BY <2>11, MoneyUnchanged DEF TtlPasses
  <2>12. ASSUME NEW h \in Hold, NEW c \in Costs, SettleReservation(h, c)
         PROVE  SettlementIntegrity'
    <3>1. hold[h] \in HoldRow /\ hold[h].run \in Run
      BY <2>12, StatusUpdate DEF SettleReservation, HoldStatus, HoldRow
    <3>2. /\ \A i \in DOMAIN ledger : i \in DOMAIN ledger' /\ ledger'[i] = ledger[i]
          /\ Len(ledger) + 1 \in DOMAIN ledger'
          /\ ledger'[Len(ledger) + 1].run = hold[h].run
      <4>1. /\ \A i \in DOMAIN ledger : i \in DOMAIN ledger' /\ ledger'[i] = ledger[i]
            /\ DOMAIN ledger' = 1 .. (Len(ledger) + 1)
            /\ ledger'[Len(ledger) + 1] = [run |-> hold[h].run, cost |-> c]
        BY <2>12, <3>1, Appended DEF SettleReservation
      <4> QED
        BY <4>1, LedgerRows
    <3>3. /\ settlement'[h] = Len(ledger) + 1
          /\ \A g \in Hold \ {h} : settlement'[g] = settlement[g]
      BY <2>12 DEF SettleReservation, TypeOK
    <3>4. Len(ledger) + 1 # 0 /\ Len(ledger) + 1 \notin DOMAIN ledger
      BY LedgerRows
    <3>5. /\ hold'[h].status \in {"settled", "expired"}
          /\ hold'[h].run = hold[h].run
          /\ \A g \in Hold \ {h} : hold'[g] = hold[g]
      <4>1. CASE hold[h].status = "pending"
        BY <2>12, <4>1, StatusUpdate DEF SettleReservation, TypeOK, HoldStatus
      <4>2. CASE hold[h].status = "expired"
        BY <2>12, <4>2 DEF SettleReservation
      <4> QED
        BY <2>12, <4>1, <4>2 DEF SettleReservation
    <3> QED
      BY <3>2, <3>3, <3>4, <3>5 DEF SettlementIntegrity
  <2>13. ASSUME ExpirePendingReservations PROVE SettlementIntegrity'
    <3>1. ASSUME NEW h \in Hold, hold[h].status = "pending"
          PROVE  settlement[h] = 0
      BY <3>1, Unsettled
    <3>2. \A h \in Hold : \/ hold'[h] = hold[h]
                          \/ hold[h].status = "pending" /\ hold'[h].status = "expired"
      BY <2>13, StatusUpdate DEF ExpirePendingReservations, HoldStatus
    <3>3. ledger' = ledger /\ settlement' = settlement
      BY <2>13 DEF ExpirePendingReservations
    <3> QED
      BY <3>1, <3>2, <3>3 DEF SettlementIntegrity
  <2>14. ASSUME UNCHANGED vars PROVE SettlementIntegrity'
    BY <2>14, MoneyUnchanged DEF vars
  <2>15. CASE Next
    BY <2>1, <2>2, <2>3, <2>4, <2>5, <2>6, <2>7, <2>8, <2>9, <2>10, <2>11, <2>12,
       <2>13, <2>15, StepCases, Zenon
  <2> QED
    BY <2>14, <2>15
<1> QED
  BY <1>1, <1>2, TypeCorrect, PTL DEF Spec

-----------------------------------------------------------------------------
(***************************************************************************)
(* The hierarchy.                                                          *)
(***************************************************************************)

(* The two recursive queries agree: a run is in the subtree of exactly the *)
(* runs of its ancestry.                                                   *)
LEMMA SubtreeAncestors ==
  ASSUME NEW n \in Run, NEW x \in Run
  PROVE  x \in Subtree[n] <=> n \in Ancestors[x]
<1>1. ASSUME x \in Subtree[n], n \notin Ancestors[x] PROVE FALSE
  <2>1. PICK S \in SUBSET Run : x \in S /\ ClosedUpward(S) /\ n \notin S
    BY <1>1 DEF Ancestors
  <2>2. ClosedDownward(Run \ S)
    BY <2>1, RowValues DEF ClosedUpward, ClosedDownward
  <2> QED
    BY <1>1, <2>1, <2>2 DEF Subtree
<1>2. ASSUME n \in Ancestors[x], x \notin Subtree[n] PROVE FALSE
  <2>1. PICK S \in SUBSET Run : n \in S /\ ClosedDownward(S) /\ x \notin S
    BY <1>2 DEF Subtree
  <2>2. ClosedUpward(Run \ S)
    BY <2>1 DEF ClosedUpward, ClosedDownward
  <2> QED
    BY <1>2, <2>1, <2>2 DEF Ancestors
<1> QED
  BY <1>1, <1>2

(* Every run is in its own ancestry.                                       *)
LEMMA AncestorsReflexive ==
  ASSUME NEW r \in Run PROVE r \in Ancestors[r]
BY DEF Ancestors

(* The ancestry of a run is the run and the ancestry of its parent.        *)
LEMMA AncestorsStep ==
  ASSUME NEW r \in Run, NEW a \in Ancestors[r], a # r
  PROVE  Parent[r] \in Run /\ a \in Ancestors[Parent[r]]
<1>1. CASE Parent[r] \in Run
  <2> DEFINE S == {r} \cup Ancestors[Parent[r]]
  <2>1. S \in SUBSET Run /\ r \in S
    BY <1>1 DEF Ancestors
  <2>2. Parent[r] \in Ancestors[Parent[r]]
    BY <1>1, AncestorsReflexive
  <2>3. ASSUME NEW x \in Ancestors[Parent[r]], Parent[x] \in Run
        PROVE  Parent[x] \in Ancestors[Parent[r]]
    BY <1>1, <2>3 DEF Ancestors, ClosedUpward
  <2>4. ClosedUpward(S)
    BY <2>2, <2>3 DEF ClosedUpward
  <2>5. a \in S
    BY <2>1, <2>4 DEF Ancestors
  <2> QED
    BY <1>1, <2>5
<1>2. CASE Parent[r] \notin Run
  <2>1. ClosedUpward({r})
    BY <1>2 DEF ClosedUpward
  <2> QED
    BY <2>1 DEF Ancestors
<1> QED
  BY <1>1, <1>2

(* The ancestry of a run consists of runs.                                 *)
LEMMA AncestorsInRun ==
  ASSUME NEW r \in Run PROVE Ancestors[r] \subseteq Run
BY DEF Ancestors

(* The lock TryReserve takes on one principal covers every run whose       *)
(* budget it checks.                                                       *)
THEOREM HierarchiesHaveOnePrincipal == Spec => []OnePrincipalPerHierarchy
<1>1. Init => OnePrincipalPerHierarchy
  BY DEF Init, OnePrincipalPerHierarchy
<1>2. TypeOK /\ OnePrincipalPerHierarchy /\ [Next]_vars => OnePrincipalPerHierarchy'
  <2> SUFFICES ASSUME TypeOK, OnePrincipalPerHierarchy, [Next]_vars
               PROVE  OnePrincipalPerHierarchy'
    OBVIOUS
  <2>1. ASSUME NEW r \in Run, run[r] = "absent", run' = [run EXCEPT ![r] = "active"],
               Parent[r] # NoRun => /\ run[Parent[r]] = "active"
                                    /\ Owner[Parent[r]] = Owner[r]
        PROVE  OnePrincipalPerHierarchy'
    <3> SUFFICES ASSUME NEW x \in Run, run'[x] # "absent", NEW a \in Ancestors[x]
                 PROVE  run'[a] # "absent" /\ Owner[a] = Owner[x]
      BY DEF OnePrincipalPerHierarchy
    <3>1. a \in Run /\ run'[r] = "active" /\ \A y \in Run \ {r} : run'[y] = run[y]
      BY <2>1, AncestorsInRun DEF TypeOK
    <3>2. CASE x # r
      BY <2>1, <3>1, <3>2 DEF OnePrincipalPerHierarchy
    <3>3. CASE x = r /\ a # r
      <4>1. Parent[r] \in Run /\ a \in Ancestors[Parent[r]]
        BY <3>3, AncestorsStep
      <4>2. run[Parent[r]] = "active" /\ Owner[Parent[r]] = Owner[r]
        BY <2>1, <4>1, RowIdentities
      <4>3. run[a] # "absent" /\ Owner[a] = Owner[Parent[r]]
        BY <4>1, <4>2 DEF OnePrincipalPerHierarchy
      <4> QED
        BY <2>1, <3>1, <3>3, <4>2, <4>3
    <3>4. CASE x = r /\ a = r
      BY <3>1, <3>4
    <3> QED
      BY <3>2, <3>3, <3>4
  <2>2. ASSUME NEW r \in Run, CloseRun(r) PROVE OnePrincipalPerHierarchy'
    <3>1. \A y \in Run : run'[y] = "absent" <=> run[y] = "absent"
      BY <2>2 DEF CloseRun, TypeOK
    <3> QED
      BY <3>1, AncestorsInRun DEF OnePrincipalPerHierarchy
  <2>3. ASSUME run' = run PROVE OnePrincipalPerHierarchy'
    BY <2>3 DEF OnePrincipalPerHierarchy
  <2>4. ASSUME NEW r \in Run, CreateRun(r) PROVE OnePrincipalPerHierarchy'
    BY <2>1, <2>4 DEF CreateRun
  <2>5. ASSUME NEW l \in Lease, CreatePrincipalRunLease(LeaseRun[l], l)
        PROVE  OnePrincipalPerHierarchy'
    BY <2>1, <2>5, RowValues DEF CreatePrincipalRunLease
  <2>6. \/ run' = run
        \/ \E r \in Run : CreateRun(r) \/ CloseRun(r)
        \/ \E l \in Lease : CreatePrincipalRunLease(LeaseRun[l], l)
    <3>1. CASE Next
      BY <3>1, StepCases
         DEF AppendLedger, CreateLease, RevokeLease, LeaseExpires,
             RevokeLeasesForPrincipal, TryReserve, ReleaseReservation, TtlPasses,
             SettleReservation, ExpirePendingReservations, runVars
    <3>2. CASE UNCHANGED vars
      BY <3>2 DEF vars
    <3> QED
      BY <3>1, <3>2
  <2> QED
    BY <2>2, <2>3, <2>4, <2>5, <2>6
<1> QED
  BY <1>1, <1>2, TypeCorrect, PTL DEF Spec

-----------------------------------------------------------------------------
(***************************************************************************)
(* Steps.                                                                  *)
(***************************************************************************)

(* No operation changes or removes a charge: retrying a settlement finds   *)
(* the row of the first and leaves it.                                     *)
THEOREM ChargesStayFinal == Spec => ChargesAreFinal
<1>1. TypeOK /\ [Next]_vars => [ChargesKept]_vars
  <2> SUFFICES ASSUME TypeOK, Next PROVE ChargesKept
    BY DEF ChargesKept
  <2>1. ASSUME ledger' = ledger, settlement' = settlement PROVE ChargesKept
    BY <2>1, LedgerRows DEF ChargesKept
  <2>2. ASSUME NEW r \in Run, NEW c \in Costs, AppendLedger(r, c) PROVE ChargesKept
    <3>1. /\ Len(ledger') = Len(ledger) + 1
          /\ \A i \in DOMAIN ledger : ledger'[i] = ledger[i]
      BY <2>2, Appended DEF AppendLedger
    <3> QED
      BY <2>2, <3>1, LedgerRows DEF AppendLedger, ChargesKept
  <2>3. ASSUME NEW h \in Hold, NEW c \in Costs, SettleReservation(h, c) PROVE ChargesKept
    <3>1. hold[h].run \in Run
      BY <2>3, StatusUpdate DEF SettleReservation, HoldStatus, HoldRow
    <3>2. /\ Len(ledger') = Len(ledger) + 1
          /\ \A i \in DOMAIN ledger : ledger'[i] = ledger[i]
      BY <2>3, <3>1, Appended DEF SettleReservation
    <3>3. \A g \in Hold : settlement[g] # 0 => settlement'[g] = settlement[g]
      BY <2>3 DEF SettleReservation, TypeOK
    <3> QED
      BY <3>2, <3>3, LedgerRows DEF ChargesKept
  <2>4. \/ ledger' = ledger /\ settlement' = settlement
        \/ \E r \in Run, c \in Costs : AppendLedger(r, c)
        \/ \E h \in Hold, c \in Costs : SettleReservation(h, c)
    BY StepCases
       DEF CreateRun, CloseRun, CreatePrincipalRunLease, CreateLease, RevokeLease,
           LeaseExpires, RevokeLeasesForPrincipal, TryReserve, ReleaseReservation,
           TtlPasses, ExpirePendingReservations, moneyVars
  <2> QED
    BY <2>1, <2>2, <2>3, <2>4
<1> QED
  BY <1>1, TypeCorrect, PTL DEF Spec, ChargesAreFinal

(* Closing a run stops its whole subtree: every request and every lease    *)
(* looks at the whole ancestry.                                            *)
THEOREM ClosedRunsStayShut == Spec => ClosedRunsAdmitNothing
<1>1. TypeOK /\ [Next]_vars => [NothingStartsBelowClosed]_vars
  <2> SUFFICES ASSUME TypeOK, Next, NEW n \in Run, run[n] = "closed"
               PROVE  /\ PendingIn(n)' \subseteq PendingIn(n)
                      /\ LeasesIn(n)' \subseteq LeasesIn(n)
    BY DEF NothingStartsBelowClosed
  <2>1. ASSUME NEW r \in Run, r \in Subtree[n], AncestryActive(r) PROVE FALSE
    BY <2>1, SubtreeAncestors DEF AncestryActive
  <2>2. PendingIn(n)' \subseteq PendingIn(n)
    <3> SUFFICES ASSUME NEW g \in Hold, hold'[g].status = "pending",
                        hold'[g].run \in Subtree[n]
                 PROVE  hold[g].status = "pending" /\ hold[g].run \in Subtree[n]
      BY DEF PendingIn
    <3>1. ASSUME NEW h \in Hold, NEW r \in Run, NEW l \in Lease \cup {NoLease},
                 NEW a \in Amounts, NEW e \in BOOLEAN, TryReserve(h, r, l, a, e)
          PROVE  hold[g] = hold'[g]
      BY <2>1, <3>1 DEF TryReserve, TypeOK
    <3>2. ASSUME NEW h \in Hold, ReleaseReservation(h) PROVE hold[g] = hold'[g]
      BY <3>2, StatusUpdate DEF ReleaseReservation, TypeOK, HoldStatus
    <3>3. ASSUME NEW h \in Hold, NEW c \in Costs, SettleReservation(h, c)
          PROVE  hold[g] = hold'[g]
      BY <3>3, StatusUpdate DEF SettleReservation, TypeOK, HoldStatus
    <3>4. ASSUME ExpirePendingReservations PROVE hold[g] = hold'[g]
      BY <3>4, StatusUpdate DEF ExpirePendingReservations, HoldStatus
    <3>5. \/ hold' = hold
          \/ \E h \in Hold, r \in Run, l \in Lease \cup {NoLease}, a \in Amounts,
                e \in BOOLEAN : TryReserve(h, r, l, a, e)
          \/ \E h \in Hold : ReleaseReservation(h)
          \/ \E h \in Hold, c \in Costs : SettleReservation(h, c)
          \/ ExpirePendingReservations
      BY StepCases
         DEF CreateRun, CloseRun, AppendLedger, CreatePrincipalRunLease, CreateLease,
             RevokeLease, LeaseExpires, RevokeLeasesForPrincipal, TtlPasses, moneyVars
    <3> QED
      BY <3>1, <3>2, <3>3, <3>4, <3>5
  <2>3. LeasesIn(n)' \subseteq LeasesIn(n)
    <3> SUFFICES ASSUME NEW l \in Lease, lease'[l] # "absent", LeaseRun[l] \in Subtree[n],
                        lease[l] = "absent"
                 PROVE  FALSE
      BY DEF LeasesIn
    <3>1. ASSUME NEW k \in Lease, CreatePrincipalRunLease(LeaseRun[k], k) PROVE FALSE
      <4>1. k = l
        BY <3>1 DEF CreatePrincipalRunLease, TypeOK
      <4>2. n \in Ancestors[LeaseRun[l]]
        BY SubtreeAncestors, RowValues
      <4>3. n = LeaseRun[l]
        BY <3>1, <4>1, <4>2, AncestorsStep, RowValues, RowIdentities
           DEF CreatePrincipalRunLease
      <4> QED
        BY <3>1, <4>1, <4>3 DEF CreatePrincipalRunLease
    <3>2. ASSUME NEW k \in Lease, CreateLease(k) PROVE FALSE
      <4>1. k = l
        BY <3>2 DEF CreateLease, TypeOK
      <4> QED
        BY <2>1, <3>2, <4>1, RowValues DEF CreateLease
    <3>3. ASSUME NEW k \in Lease, RevokeLease(k) PROVE FALSE
      BY <3>3 DEF RevokeLease, TypeOK
    <3>4. ASSUME NEW k \in Lease, LeaseExpires(k) PROVE FALSE
      BY <3>4 DEF LeaseExpires, TypeOK
    <3>5. ASSUME NEW p \in Principal, RevokeLeasesForPrincipal(p) PROVE FALSE
      BY <3>5 DEF RevokeLeasesForPrincipal
    <3>6. \/ lease' = lease
          \/ \E k \in Lease : \/ CreatePrincipalRunLease(LeaseRun[k], k)
                              \/ CreateLease(k)
                              \/ RevokeLease(k)
                              \/ LeaseExpires(k)
          \/ \E p \in Principal : RevokeLeasesForPrincipal(p)
      BY StepCases
         DEF CreateRun, CloseRun, AppendLedger, TryReserve, ReleaseReservation,
             TtlPasses, SettleReservation, ExpirePendingReservations, runVars
    <3> QED
      BY <3>1, <3>2, <3>3, <3>4, <3>5, <3>6
  <2> QED
    BY <2>2, <2>3
<1> QED
  BY <1>1, TypeCorrect, PTL DEF Spec, ClosedRunsAdmitNothing

-----------------------------------------------------------------------------
(***************************************************************************)
(* Budgets.                                                                *)
(***************************************************************************)

(* Amounts of holds and costs of entries are natural numbers.              *)
LEMMA AmountsAndCosts ==
  ASSUME TypeOK
  PROVE  /\ \A h \in Hold : Amount[h] \in Nat /\ Amount[h] = hold[h].amount
         /\ \A i \in DOMAIN ledger : Cost[i] \in Nat /\ Cost[i] = ledger[i].cost
<1>1. \A h \in Hold : hold[h].amount \in Nat
  BY DEF TypeOK, HoldRow, NoHold
<1>2. \A i \in DOMAIN ledger : ledger[i].cost \in Nat
  BY LedgerRows DEF Entry
<1> QED
  BY <1>1, <1>2 DEF Amount, Cost

(* What a decision covers is at most its estimate.                         *)
LEMMA CoveredType ==
  TypeOK /\ SettlementIntegrity =>
    \A h \in Hold : Covered[h] \in Nat /\ Covered[h] <= hold[h].amount
<1> SUFFICES ASSUME TypeOK, SettlementIntegrity, NEW h \in Hold
             PROVE  Covered[h] \in Nat /\ Covered[h] <= hold[h].amount
  OBVIOUS
<1>1. hold[h].amount \in Nat
  BY AmountsAndCosts
<1>2. settlement[h] # 0 => ledger[settlement[h]].cost \in Nat
  BY AmountsAndCosts DEF SettlementIntegrity
<1> QED
  BY <1>1, <1>2 DEF Covered, LesserOf

(* The covered money of a set of holds is part of the balance of a query   *)
(* that counts its pending holds and the entries of its settled ones.      *)
LEMMA CoveredBound ==
  ASSUME TypeOK, SettlementIntegrity,
         NEW C \in SUBSET CoveredHolds,
         NEW P \in SUBSET Hold, NEW E \in SUBSET DOMAIN ledger,
         \A h \in C : hold[h].status = "pending" => h \in P,
         \A h \in C : hold[h].status = "settled" => settlement[h] \in E
  PROVE  /\ Total(E, Cost) \in Nat /\ Total(P, Amount) \in Nat
         /\ Total(C, Covered) \in Nat
         /\ Total(C, Covered) <= Total(E, Cost) + Total(P, Amount)
<1> DEFINE CP == {h \in C : hold[h].status = "pending"}
           CS == {h \in C : hold[h].status = "settled"}
<1>1. C = CS \cup CP /\ CS \cap CP = {} /\ C \subseteq Hold
  BY DEF CoveredHolds
<1>2. /\ IsFiniteSet(C) /\ IsFiniteSet(CP) /\ IsFiniteSet(CS)
      /\ IsFiniteSet(P) /\ IsFiniteSet(E)
  BY <1>1, FS_Subset, RowIdentities, LedgerRows
<1>3. \A h \in Hold : Covered[h] \in Nat
  BY CoveredType
<1>4. Total(E, Cost) \in Nat /\ Total(P, Amount) \in Nat
  BY <1>2, AmountsAndCosts, UnitsFinite
<1>5. /\ Total(C, Covered) \in Nat
      /\ Total(CS, Covered) \in Nat
      /\ Total(CP, Covered) \in Nat
  BY <1>1, <1>2, <1>3, UnitsFinite
<1>6. Total(C, Covered) = Total(CS, Covered) + Total(CP, Covered)
  BY <1>1, <1>2, <1>3, TotalDisjoint
<1>7. Total(CP, Covered) <= Total(P, Amount)
  <2>1. CP \in SUBSET P
    OBVIOUS
  <2>2. \A h \in CP : Covered[h] \in Nat /\ Covered[h] <= Amount[h]
    BY <1>1, CoveredType, AmountsAndCosts
  <2>3. \A h \in P : Amount[h] \in Nat
    BY AmountsAndCosts
  <2> QED
    BY <1>2, <2>1, <2>2, <2>3, TotalMonotone
<1>8. Total(CS, Covered) <= Total(E, Cost)
  <2> DEFINE f == [h \in CS |-> settlement[h]]
  <2>1. \A h \in CS : settlement[h] # 0 /\ settlement[h] \in DOMAIN ledger
    BY <1>1 DEF SettlementIntegrity
  <2>2. f \in [CS -> E]
    OBVIOUS
  <2>3. \A x, y \in CS : f[x] = f[y] => x = y
    BY <1>1, <2>1 DEF SettlementIntegrity
  <2>4. \A x \in CS : Covered[x] \in Nat /\ Covered[x] <= Cost[f[x]]
    <3> SUFFICES ASSUME NEW x \in CS
                 PROVE  Covered[x] \in Nat /\ Covered[x] <= Cost[settlement[x]]
      OBVIOUS
    <3>1. /\ hold[x].amount \in Nat
          /\ ledger[settlement[x]].cost \in Nat
          /\ Cost[settlement[x]] = ledger[settlement[x]].cost
      BY <1>1, <2>1, AmountsAndCosts
    <3>2. Covered[x] = LesserOf(hold[x].amount, ledger[settlement[x]].cost)
      BY <1>1, <2>1 DEF Covered
    <3> QED
      BY <3>1, <3>2 DEF LesserOf
  <2>5. \A i \in E : Cost[i] \in Nat
    BY AmountsAndCosts
  <2> HIDE DEF f
  <2> QED
    BY <1>2, <2>2, <2>3, <2>4, <2>5, TotalMatched
<1> QED
  BY <1>4, <1>5, <1>6, <1>7, <1>8

(* The covered money below a run is part of what the run spent and holds.  *)
LEMMA CoveredInBalance ==
  ASSUME TypeOK, SettlementIntegrity, NEW n \in Run
  PROVE  /\ Spent(n) \in Nat /\ Held(n) \in Nat /\ Total(CoveredIn(n), Covered) \in Nat
         /\ Total(CoveredIn(n), Covered) <= Spent(n) + Held(n)
<1>1. CoveredIn(n) \in SUBSET CoveredHolds /\ CoveredHolds \in SUBSET Hold
  BY DEF CoveredIn, CoveredHolds
<1>2. PendingIn(n) \in SUBSET Hold /\ EntriesIn(n) \in SUBSET DOMAIN ledger
  BY DEF PendingIn, EntriesIn
<1>3. \A h \in CoveredIn(n) : hold[h].status = "pending" => h \in PendingIn(n)
  BY <1>1 DEF CoveredIn, PendingIn
<1>4. \A h \in CoveredIn(n) : hold[h].status = "settled" => settlement[h] \in EntriesIn(n)
  BY <1>1 DEF CoveredIn, EntriesIn, SettlementIntegrity
<1> QED
  BY <1>1, <1>2, <1>3, <1>4, CoveredBound DEF Spent, Held

(* The same of a lease.                                                    *)
LEMMA CoveredUnderBalance ==
  ASSUME TypeOK, SettlementIntegrity, NEW l \in Lease
  PROVE  /\ LeaseSpent(l) \in Nat /\ LeaseHeld(l) \in Nat
         /\ Total(CoveredUnder(l), Covered) \in Nat
         /\ Total(CoveredUnder(l), Covered) <= LeaseSpent(l) + LeaseHeld(l)
<1>1. CoveredUnder(l) \in SUBSET CoveredHolds /\ CoveredHolds \in SUBSET Hold
  BY DEF CoveredUnder, CoveredHolds
<1>2. PendingOf(l) \in SUBSET Hold /\ EntriesOf(l) \in SUBSET DOMAIN ledger
  BY DEF PendingOf, EntriesOf
<1>3. \A h \in CoveredUnder(l) : hold[h].status = "pending" => h \in PendingOf(l)
  BY <1>1 DEF CoveredUnder, PendingOf
<1>4. \A h \in CoveredUnder(l) : hold[h].status = "settled" => settlement[h] \in EntriesOf(l)
  BY <1>1 DEF CoveredUnder, EntriesOf, SettlementIntegrity
<1> QED
  BY <1>1, <1>2, <1>3, <1>4, CoveredBound DEF LeaseSpent, LeaseHeld

-----------------------------------------------------------------------------
(***************************************************************************)
(* Enforcement.  EnforcedWithinBudget is not inductive alone: that a new   *)
(* estimate fits what the queries leave of a budget bounds the covered     *)
(* holds only because every covered hold is counted by the queries once,   *)
(* which is SettlementIntegrity.                                           *)
(***************************************************************************)

WithinLimits == EnforcedWithinBudget /\ EnforcedWithinCeiling

(* A step that admits nothing keeps within the limits: it covers no more   *)
(* holds than before, and no more of each.                                 *)
LEMMA CoverageShrinks ==
  ASSUME TypeOK, SettlementIntegrity, WithinLimits,
         CoveredHolds' \subseteq CoveredHolds,
         \A g \in CoveredHolds' : /\ hold'[g].run = hold[g].run
                                  /\ hold'[g].lease = hold[g].lease
                                  /\ Covered'[g] \in Nat
                                  /\ Covered'[g] <= Covered[g]
  PROVE  WithinLimits'
<1>1. CoveredHolds \subseteq Hold /\ \A h \in Hold : Covered[h] \in Nat
  BY CoveredType DEF CoveredHolds
<1>2. ASSUME NEW n \in Run, Budget[n] # 0
      PROVE  Total(CoveredIn(n), Covered)' <= Budget[n]
  <2>1. CoveredIn(n)' \in SUBSET CoveredIn(n)
    BY DEF CoveredIn
  <2>2. CoveredIn(n) \subseteq Hold /\ IsFiniteSet(CoveredIn(n))
    BY <1>1, FS_Subset, RowIdentities DEF CoveredIn
  <2>3. \A g \in CoveredIn(n)' : Covered'[g] \in Nat /\ Covered'[g] <= Covered[g]
    BY DEF CoveredIn
  <2>4. Total(CoveredIn(n)', Covered') <= Total(CoveredIn(n), Covered)
    BY <1>1, <2>1, <2>2, <2>3, TotalMonotone
  <2>5. Total(CoveredIn(n)', Covered') \in Nat /\ Total(CoveredIn(n), Covered) \in Nat
    <3>1. IsFiniteSet(CoveredIn(n)')
      BY <2>1, <2>2, FS_Subset
    <3> QED
      BY <1>1, <2>2, <2>3, <3>1, UnitsFinite
  <2>6. Total(CoveredIn(n), Covered) <= Budget[n]
    BY <1>2 DEF WithinLimits, EnforcedWithinBudget
  <2> QED
    BY <2>4, <2>5, <2>6, RowValues
<1>3. ASSUME NEW l \in Lease, Ceiling[l] # 0
      PROVE  Total(CoveredUnder(l), Covered)' <= Ceiling[l]
  <2>1. CoveredUnder(l)' \in SUBSET CoveredUnder(l)
    BY DEF CoveredUnder
  <2>2. CoveredUnder(l) \subseteq Hold /\ IsFiniteSet(CoveredUnder(l))
    BY <1>1, FS_Subset, RowIdentities DEF CoveredUnder
  <2>3. \A g \in CoveredUnder(l)' : Covered'[g] \in Nat /\ Covered'[g] <= Covered[g]
    BY DEF CoveredUnder
  <2>4. Total(CoveredUnder(l)', Covered') <= Total(CoveredUnder(l), Covered)
    BY <1>1, <2>1, <2>2, <2>3, TotalMonotone
  <2>5. Total(CoveredUnder(l)', Covered') \in Nat /\ Total(CoveredUnder(l), Covered) \in Nat
    <3>1. IsFiniteSet(CoveredUnder(l)')
      BY <2>1, <2>2, FS_Subset
    <3> QED
      BY <1>1, <2>2, <2>3, <3>1, UnitsFinite
  <2>6. Total(CoveredUnder(l), Covered) <= Ceiling[l]
    BY <1>3 DEF WithinLimits, EnforcedWithinCeiling
  <2> QED
    BY <2>4, <2>5, <2>6, RowValues
<1> QED
  BY <1>2, <1>3 DEF WithinLimits, EnforcedWithinBudget, EnforcedWithinCeiling

(* An estimate that is not refused fits: with it a limit is not exceeded   *)
(* if it was not before.                                                   *)
LEMMA FittingEstimate ==
  ASSUME NEW limit \in Nat, NEW spent \in Nat, NEW held \in Nat, NEW a \in Nat,
         NEW covered \in Nat, covered <= spent + held, covered <= limit,
         ~(a > Remaining(limit, spent, held))
  PROVE  covered + a <= limit
BY DEF Remaining

(* One more covered hold adds its amount.                                  *)
LEMMA CoverageGrows ==
  ASSUME NEW C \in SUBSET Hold, NEW h \in Hold, h \notin C, NEW a \in Nat,
         NEW before, NEW after,
         \A g \in C : before[g] \in Nat /\ after[g] = before[g],
         after[h] = a
  PROVE  Total(C \cup {h}, after) = Total(C, before) + a
<1>1. IsFiniteSet(C)
  BY FS_Subset, RowIdentities
<1>2. \A g \in C \cup {h} : after[g] \in Nat
  OBVIOUS
<1>3. Total(C \cup {h}, after) = Total(C, after) + after[h]
  BY <1>1, <1>2, TotalAdd
<1>4. Total(C, after) = Total(C, before)
  BY TotalSame
<1> QED
  BY <1>3, <1>4

(* An enforced reservation keeps within every budget of its ancestry and   *)
(* within its lease's ceiling.                                             *)
LEMMA EnforcedReserve ==
  ASSUME TypeOK, SettlementIntegrity, WithinLimits,
         NEW h \in Hold, NEW r \in Run, NEW l \in Lease \cup {NoLease},
         NEW a \in Amounts, TryReserve(h, r, l, a, TRUE)
  PROVE  WithinLimits'
<1>1. settlement[h] = 0 /\ h \notin CoveredHolds
  BY Unsettled DEF TryReserve, CoveredHolds
<1>2. /\ hold'[h] = [status |-> "pending", run |-> r, lease |-> l, amount |-> a,
                     enforced |-> TRUE]
      /\ \A g \in Hold \ {h} : hold'[g] = hold[g]
      /\ ledger' = ledger /\ settlement' = settlement
  BY DEF TryReserve, TypeOK
<1>3. CoveredHolds' = CoveredHolds \cup {h}
  BY <1>2 DEF CoveredHolds
<1>4. Covered'[h] = a /\ \A g \in CoveredHolds : Covered'[g] = Covered[g]
  BY <1>1, <1>2 DEF Covered, CoveredHolds
<1>5. a \in Nat /\ CoveredHolds \subseteq Hold /\ \A g \in Hold : Covered[g] \in Nat
  BY Money, CoveredType DEF CoveredHolds
<1>6. ASSUME NEW n \in Run, Budget[n] # 0
      PROVE  Total(CoveredIn(n), Covered)' <= Budget[n]
  <2>1. Total(CoveredIn(n), Covered) <= Budget[n]
    BY <1>6 DEF WithinLimits, EnforcedWithinBudget
  <2>2. CoveredIn(n) \in SUBSET Hold /\ h \notin CoveredIn(n)
    BY <1>1, <1>5 DEF CoveredIn
  <2>3. \A g \in CoveredIn(n) : Covered[g] \in Nat /\ Covered'[g] = Covered[g]
    BY <1>4, <1>5 DEF CoveredIn
  <2>4. CASE r \in Subtree[n]
    <3>1. CoveredIn(n)' = CoveredIn(n) \cup {h}
      BY <1>1, <1>2, <1>3, <2>4 DEF CoveredIn, CoveredHolds
    <3>2. ~(a > Remaining(Budget[n], Spent(n), Held(n)))
      BY <1>6, <2>4, SubtreeAncestors DEF TryReserve, WouldBlock, OverBudget
    <3>3. Total(CoveredIn(n), Covered) + a <= Budget[n]
      BY <1>5, <2>1, <3>2, CoveredInBalance, FittingEstimate, RowValues
    <3>4. Total(CoveredIn(n) \cup {h}, Covered') = Total(CoveredIn(n), Covered) + a
      BY <1>4, <1>5, <2>2, <2>3, CoverageGrows
    <3> QED
      BY <3>1, <3>3, <3>4
  <2>5. CASE r \notin Subtree[n]
    <3>1. CoveredIn(n)' = CoveredIn(n)
      BY <1>1, <1>2, <1>3, <2>5 DEF CoveredIn, CoveredHolds
    <3>2. Total(CoveredIn(n), Covered') = Total(CoveredIn(n), Covered)
      BY <2>3, TotalSame
    <3> QED
      BY <2>1, <3>1, <3>2
  <2> QED
    BY <2>4, <2>5
<1>7. ASSUME NEW k \in Lease, Ceiling[k] # 0
      PROVE  Total(CoveredUnder(k), Covered)' <= Ceiling[k]
  <2>1. Total(CoveredUnder(k), Covered) <= Ceiling[k]
    BY <1>7 DEF WithinLimits, EnforcedWithinCeiling
  <2>2. CoveredUnder(k) \in SUBSET Hold /\ h \notin CoveredUnder(k)
    BY <1>1, <1>5 DEF CoveredUnder
  <2>3. \A g \in CoveredUnder(k) : Covered[g] \in Nat /\ Covered'[g] = Covered[g]
    BY <1>4, <1>5 DEF CoveredUnder
  <2>4. CASE l = k
    <3>1. CoveredUnder(k)' = CoveredUnder(k) \cup {h}
      BY <1>1, <1>2, <1>3, <2>4 DEF CoveredUnder, CoveredHolds
    <3>2. ~(a > Remaining(Ceiling[k], LeaseSpent(k), LeaseHeld(k)))
      BY <1>7, <2>4, RowIdentities DEF TryReserve, WouldBlock, OverCeiling
    <3>3. Total(CoveredUnder(k), Covered) + a <= Ceiling[k]
      BY <1>5, <2>1, <3>2, CoveredUnderBalance, FittingEstimate, RowValues
    <3>4. Total(CoveredUnder(k) \cup {h}, Covered') = Total(CoveredUnder(k), Covered) + a
      BY <1>4, <1>5, <2>2, <2>3, CoverageGrows
    <3> QED
      BY <3>1, <3>3, <3>4
  <2>5. CASE l # k
    <3>1. CoveredUnder(k)' = CoveredUnder(k)
      BY <1>1, <1>2, <1>3, <2>5 DEF CoveredUnder, CoveredHolds
    <3>2. Total(CoveredUnder(k), Covered') = Total(CoveredUnder(k), Covered)
      BY <2>3, TotalSame
    <3> QED
      BY <2>1, <3>1, <3>2
  <2> QED
    BY <2>4, <2>5
<1> QED
  BY <1>6, <1>7 DEF WithinLimits, EnforcedWithinBudget, EnforcedWithinCeiling

(* Every other step only takes coverage away: it leaves the runs and the   *)
(* leases of holds alone and charges a hold with at most what it reserved. *)
LEMMA OtherStepsShrink ==
  ASSUME TypeOK, SettlementIntegrity, Next,
         \A h \in Hold, r \in Run, l \in Lease \cup {NoLease}, a \in Amounts :
            ~TryReserve(h, r, l, a, TRUE)
  PROVE  /\ CoveredHolds' \subseteq CoveredHolds
         /\ \A g \in CoveredHolds' : /\ hold'[g].run = hold[g].run
                                     /\ hold'[g].lease = hold[g].lease
                                     /\ Covered'[g] \in Nat
                                     /\ Covered'[g] <= Covered[g]
<1> DEFINE Shrinks(g) == /\ hold'[g].run = hold[g].run
                         /\ hold'[g].lease = hold[g].lease
                         /\ Covered'[g] \in Nat
                         /\ Covered'[g] <= Covered[g]
<1> SUFFICES ASSUME NEW g \in CoveredHolds'
             PROVE  g \in CoveredHolds /\ Shrinks(g)
  OBVIOUS
<1>1. /\ g \in Hold /\ hold'[g].enforced
      /\ hold'[g].status \in {"pending", "settled"}
  BY DEF CoveredHolds
<1>2. /\ Covered[g] \in Nat /\ Covered[g] <= hold[g].amount /\ hold[g].amount \in Nat
  BY <1>1, CoveredType, AmountsAndCosts
<1>3. settlement[g] # 0 => settlement[g] \in DOMAIN ledger
  BY <1>1 DEF SettlementIntegrity
<1>4. ASSUME hold'[g] = hold[g], settlement'[g] = settlement[g],
             settlement[g] # 0 => ledger'[settlement[g]] = ledger[settlement[g]]
      PROVE  g \in CoveredHolds /\ Shrinks(g)
  <2>1. Covered'[g] = Covered[g]
    BY <1>1, <1>4 DEF Covered
  <2> QED
    BY <1>1, <1>2, <1>4, <2>1 DEF CoveredHolds
<1>5. ASSUME UNCHANGED <<hold, ledger, settlement>>
      PROVE  g \in CoveredHolds /\ Shrinks(g)
  BY <1>4, <1>5
<1>6. ASSUME NEW r \in Run, NEW c \in Costs, AppendLedger(r, c)
      PROVE  g \in CoveredHolds /\ Shrinks(g)
  <2>1. \A i \in DOMAIN ledger : ledger'[i] = ledger[i]
    BY <1>6, Appended DEF AppendLedger
  <2> QED
    BY <1>3, <1>4, <1>6, <2>1 DEF AppendLedger
<1>7. ASSUME NEW h \in Hold, NEW r \in Run, NEW l \in Lease \cup {NoLease},
             NEW a \in Amounts, NEW e \in BOOLEAN, TryReserve(h, r, l, a, e)
      PROVE  g \in CoveredHolds /\ Shrinks(g)
  <2>1. e = FALSE
    BY <1>7
  <2>2. g # h
    BY <1>1, <1>7, <2>1 DEF TryReserve, TypeOK
  <2>3. hold'[g] = hold[g]
    BY <1>1, <1>7, <2>2 DEF TryReserve, TypeOK
  <2> QED
    BY <1>4, <1>7, <2>3 DEF TryReserve
<1>8. ASSUME NEW h \in Hold, ReleaseReservation(h)
      PROVE  g \in CoveredHolds /\ Shrinks(g)
  <2>1. hold'[g] = hold[g]
    BY <1>1, <1>8, StatusUpdate DEF ReleaseReservation, TypeOK, HoldStatus
  <2> QED
    BY <1>4, <1>8, <2>1 DEF ReleaseReservation
<1>9. ASSUME NEW h \in Hold, NEW c \in Costs, SettleReservation(h, c)
      PROVE  g \in CoveredHolds /\ Shrinks(g)
  <2>1. hold[h].run \in Run
    BY <1>9, StatusUpdate DEF SettleReservation, HoldStatus, HoldRow
  <2>2. /\ \A i \in DOMAIN ledger : ledger'[i] = ledger[i]
        /\ ledger'[Len(ledger) + 1] = [run |-> hold[h].run, cost |-> c]
    BY <1>9, <2>1, Appended DEF SettleReservation
  <2>3. CASE g # h
    BY <1>1, <1>3, <1>4, <1>9, <2>2, <2>3 DEF SettleReservation, TypeOK
  <2>4. CASE g = h
    <3>1. hold[g].status = "pending"
      BY <1>1, <1>9, <2>4 DEF SettleReservation
    <3>2. hold'[g] = [hold[g] EXCEPT !.status = "settled"]
      BY <1>1, <1>9, <2>4, <3>1 DEF SettleReservation, TypeOK
    <3>3. /\ hold'[g].run = hold[g].run /\ hold'[g].lease = hold[g].lease
          /\ hold'[g].amount = hold[g].amount /\ hold'[g].enforced = hold[g].enforced
      <4>1. hold[g] \in HoldRow
        BY <1>1, <3>1, StatusUpdate DEF HoldStatus
      <4> QED
        BY <3>2, <4>1 DEF HoldRow
    <3>4. Covered[g] = hold[g].amount
      BY <1>1, <1>9, <2>4 DEF SettleReservation, Covered
    <3>5. settlement'[g] = Len(ledger) + 1 /\ Len(ledger) + 1 # 0
      BY <1>1, <1>9, <2>4, LedgerRows DEF SettleReservation, TypeOK
    <3>6. Covered'[g] = LesserOf(hold[g].amount, c)
      BY <1>1, <2>2, <2>4, <3>3, <3>5 DEF Covered
    <3>7. Covered'[g] \in Nat /\ Covered'[g] <= Covered[g]
      BY <1>2, <3>4, <3>6, Money DEF LesserOf
    <3>8. g \in CoveredHolds
      BY <1>1, <3>1, <3>3 DEF CoveredHolds
    <3> QED
      BY <3>3, <3>7, <3>8
  <2> QED
    BY <2>3, <2>4
<1>10. ASSUME ExpirePendingReservations
       PROVE  g \in CoveredHolds /\ Shrinks(g)
  <2>1. hold'[g] = hold[g]
    BY <1>1, <1>10, StatusUpdate DEF ExpirePendingReservations, HoldStatus
  <2> QED
    BY <1>4, <1>10, <2>1 DEF ExpirePendingReservations
<1>11. \/ UNCHANGED <<hold, ledger, settlement>>
       \/ \E r \in Run, c \in Costs : AppendLedger(r, c)
       \/ \E h \in Hold, r \in Run, l \in Lease \cup {NoLease}, a \in Amounts,
             e \in BOOLEAN : TryReserve(h, r, l, a, e)
       \/ \E h \in Hold : ReleaseReservation(h)
       \/ \E h \in Hold, c \in Costs : SettleReservation(h, c)
       \/ ExpirePendingReservations
  BY StepCases
     DEF CreateRun, CloseRun, CreatePrincipalRunLease, CreateLease, RevokeLease,
         LeaseExpires, RevokeLeasesForPrincipal, TtlPasses, moneyVars
<1> HIDE DEF Shrinks
<1> QED
  BY <1>5, <1>6, <1>7, <1>8, <1>9, <1>10, <1>11, Zenon

(* What was admitted in enforce mode fits every budget of its ancestry and *)
(* its lease's ceiling, for any interleaving of the operations.            *)
LEMMA LimitsKept == Spec => []WithinLimits
<1>1. Init => WithinLimits
  <2> SUFFICES ASSUME Init PROVE WithinLimits
    OBVIOUS
  <2>1. CoveredHolds = {}
    BY DEF Init, CoveredHolds, NoHold
  <2>2. /\ \A n \in Run : CoveredIn(n) = {}
        /\ \A l \in Lease : CoveredUnder(l) = {}
    BY <2>1 DEF CoveredIn, CoveredUnder
  <2>3. /\ \A n \in Run : Total(CoveredIn(n), Covered) = 0
        /\ \A l \in Lease : Total(CoveredUnder(l), Covered) = 0
    BY <2>2, TotalEmpty
  <2> QED
    BY <2>3, RowValues
       DEF WithinLimits, EnforcedWithinBudget, EnforcedWithinCeiling
<1>2. TypeOK /\ SettlementIntegrity /\ WithinLimits /\ [Next]_vars => WithinLimits'
  <2> SUFFICES ASSUME TypeOK, SettlementIntegrity, WithinLimits, [Next]_vars
               PROVE  WithinLimits'
    OBVIOUS
  <2>1. ASSUME NEW h \in Hold, NEW r \in Run, NEW l \in Lease \cup {NoLease},
               NEW a \in Amounts, TryReserve(h, r, l, a, TRUE)
        PROVE  WithinLimits'
    BY <2>1, EnforcedReserve
  <2>2. CASE /\ Next
             /\ \A h \in Hold, r \in Run, l \in Lease \cup {NoLease}, a \in Amounts :
                   ~TryReserve(h, r, l, a, TRUE)
    BY <2>2, OtherStepsShrink, CoverageShrinks
  <2>3. CASE UNCHANGED vars
    BY <2>3 DEF vars, WithinLimits, EnforcedWithinBudget, EnforcedWithinCeiling,
                CoveredIn, CoveredUnder, CoveredHolds, Covered
  <2> QED
    BY <2>1, <2>2, <2>3
<1> QED
  BY <1>1, <1>2, TypeCorrect, SettlementsAreSound, PTL DEF Spec

(* Enforced admissions never add up to more than any budget above them.    *)
THEOREM BudgetsAreEnforced == Spec => []EnforcedWithinBudget
<1>1. WithinLimits => EnforcedWithinBudget
  BY DEF WithinLimits
<1> QED
  BY <1>1, LimitsKept, PTL

(* Enforced admissions never add up to more than their lease's ceiling.    *)
THEOREM CeilingsAreEnforced == Spec => []EnforcedWithinCeiling
<1>1. WithinLimits => EnforcedWithinCeiling
  BY DEF WithinLimits
<1> QED
  BY <1>1, LimitsKept, PTL

(* A run spends and holds more than its budget only by one of the four     *)
(* ways the code lets happen: when none did, every entry and every pending *)
(* hold is covered by an enforced decision.                                *)
THEOREM BudgetsHold == Spec => []BudgetHolds
<1>1. TypeOK /\ SettlementIntegrity /\ EnforcedWithinBudget => BudgetHolds
  <2> SUFFICES ASSUME TypeOK, SettlementIntegrity, EnforcedWithinBudget,
                      NEW n \in Run, Budget[n] # 0, ~Unplanned(n)
               PROVE  Spent(n) + Held(n) <= Budget[n]
    BY DEF BudgetHolds
  <2> DEFINE CP == {h \in CoveredIn(n) : hold[h].status = "pending"}
             CS == {h \in CoveredIn(n) : hold[h].status = "settled"}
             f == [i \in EntriesIn(n) |->
                     CHOOSE h \in CoveredHolds :
                       settlement[h] = i /\ ledger[i].cost <= hold[h].amount]
  <2>1. /\ CoveredIn(n) = CS \cup CP /\ CS \cap CP = {}
        /\ CoveredIn(n) \subseteq Hold
    BY DEF CoveredIn, CoveredHolds
  <2>2. IsFiniteSet(CS) /\ IsFiniteSet(CP)
    BY <2>1, FS_Subset, RowIdentities
  <2>3. \A h \in Hold : Covered[h] \in Nat
    BY CoveredType
  <2>4. Total(CoveredIn(n), Covered) = Total(CS, Covered) + Total(CP, Covered)
    BY <2>1, <2>2, <2>3, TotalDisjoint
  <2>5. ASSUME NEW i \in EntriesIn(n)
        PROVE  /\ f[i] \in CS /\ settlement[f[i]] = i
               /\ Cost[i] \in Nat /\ Cost[i] <= Covered[f[i]]
    <3> DEFINE Plan(h) == settlement[h] = i /\ ledger[i].cost <= hold[h].amount
    <3>1. \E h \in CoveredHolds : Plan(h)
      BY DEF Unplanned, Planned
    <3>2. f[i] \in CoveredHolds /\ Plan(f[i])
      <4>1. f[i] = CHOOSE h \in CoveredHolds : Plan(h)
        OBVIOUS
      <4> HIDE DEF f, Plan
      <4> QED
        BY <3>1, <4>1
    <3> HIDE DEF f
    <3>3. i \in DOMAIN ledger /\ i # 0 /\ ledger[i].run \in Subtree[n]
      BY LedgerRows DEF EntriesIn
    <3>4. f[i] \in Hold /\ hold[f[i]].status = "settled" /\ hold[f[i]].run \in Subtree[n]
      BY <3>2, <3>3 DEF CoveredHolds, SettlementIntegrity
    <3>5. /\ ledger[i].cost \in Nat /\ Cost[i] = ledger[i].cost
          /\ hold[f[i]].amount \in Nat
      BY <3>3, <3>4, AmountsAndCosts
    <3>6. Covered[f[i]] = LesserOf(hold[f[i]].amount, ledger[i].cost)
      BY <3>2, <3>3, <3>4 DEF Covered
    <3>7. Cost[i] \in Nat /\ Cost[i] <= Covered[f[i]]
      BY <3>2, <3>5, <3>6 DEF LesserOf
    <3> QED
      BY <3>2, <3>4, <3>7 DEF CoveredIn
  <2>6. Spent(n) <= Total(CS, Covered)
    <3>1. f \in [EntriesIn(n) -> CS]
      BY <2>5
    <3> HIDE DEF f
    <3>2. \A x, y \in EntriesIn(n) : f[x] = f[y] => x = y
      BY <2>5
    <3>3. \A x \in EntriesIn(n) : Cost[x] \in Nat /\ Cost[x] <= Covered[f[x]]
      BY <2>5
    <3>4. \A h \in CS : Covered[h] \in Nat
      BY <2>1, <2>3
    <3> QED
      BY <2>2, <3>1, <3>2, <3>3, <3>4, TotalMatched DEF Spent
  <2>7. Held(n) = Total(CP, Covered)
    <3>1. PendingIn(n) = CP
      BY DEF PendingIn, CoveredIn, CoveredHolds, Unplanned
    <3>2. \A h \in CP : Amount[h] = Covered[h]
      BY <2>1, Unsettled DEF Amount, Covered
    <3> QED
      BY <3>1, <3>2, TotalSame DEF Held
  <2>8. Total(CoveredIn(n), Covered) <= Budget[n]
    BY DEF EnforcedWithinBudget
  <2>9. /\ Spent(n) \in Nat /\ Total(CS, Covered) \in Nat /\ Total(CP, Covered) \in Nat
    BY <2>1, <2>2, <2>3, CoveredInBalance, UnitsFinite
  <2> QED
    BY <2>4, <2>6, <2>7, <2>8, <2>9, RowValues
<1> QED
  BY <1>1, TypeCorrect, SettlementsAreSound, BudgetsAreEnforced, PTL

-----------------------------------------------------------------------------

(* A set of natural numbers has a least one, if it has any.                *)
LEMMA LeastNumber ==
  ASSUME NEW S \in SUBSET Nat, S # {}
  PROVE  \E x \in S : \A y \in S : x <= y
<1>1. PICK x \in S : \A y \in S : ~(<<y, x>> \in OpToRel(<, Nat))
  BY NatLessThanWellFounded, WFMin
<1>2. \A y \in S : ~(y < x)
  BY <1>1 DEF OpToRel
<1> QED
  BY <1>2

(* The budget a caller is told beforehand is the one that decides: the     *)
(* two loops over the ancestry, BudgetStatus's and TryReserve's, agree,    *)
(* for every number of levels and whatever is spent and held at each.      *)
THEOREM StatusIsPredictive == Spec => []StatusPredictsDecision
<1>1. TypeOK /\ SettlementIntegrity => StatusPredictsDecision
  <2> SUFFICES ASSUME TypeOK, SettlementIntegrity, NEW r \in Run, NEW a \in Amounts
               PROVE  (AncestryActive(r) /\ ~WouldBlock(r, NoLease, a))
                      <=> (/\ BudgetStatus(r).spendAllowed
                           /\ \A x \in BudgetStatus(r).effective : a <= x)
    BY DEF StatusPredictsDecision
  <2> DEFINE limited   == {n \in Ancestors[r] : Budget[n] # 0}
             left(n)   == Remaining(Budget[n], Spent(n), Held(n))
             remaining == {left(n) : n \in limited}
             least     == {x \in remaining : \A y \in remaining : x <= y}
  <2>1. /\ BudgetStatus(r).spendAllowed = AncestryActive(r)
        /\ BudgetStatus(r).effective = least
    BY DEF BudgetStatus
  <2>2. \A n \in limited : n \in Run /\ left(n) \in Nat
    <3> TAKE n \in limited
    <3>1. n \in Run
      BY AncestorsInRun
    <3>2. Budget[n] \in Nat /\ Spent(n) \in Nat /\ Held(n) \in Nat
      BY <3>1, CoveredInBalance, RowValues
    <3> QED
      BY <3>1, <3>2 DEF Remaining
  <2>3. a \in Nat
    BY Money
  <2>4. WouldBlock(r, NoLease, a) <=> \E n \in limited : a > left(n)
    BY DEF WouldBlock, OverBudget
  <2> HIDE DEF left, limited
  <2>5. remaining \in SUBSET Nat
    BY <2>2
  <2>6. (\A n \in limited : ~(a > left(n))) <=> \A x \in remaining : a <= x
    BY <2>2, <2>3
  <2>7. (\A x \in remaining : a <= x) <=> \A x \in least : a <= x
    <3> HIDE DEF remaining
    <3>1. CASE remaining = {}
      BY <3>1
    <3>2. CASE remaining # {}
      <4>1. PICK x \in remaining : \A y \in remaining : x <= y
        BY <2>5, <3>2, LeastNumber
      <4> QED
        BY <2>3, <2>5, <4>1
    <3> QED
      BY <3>1, <3>2
  <2> QED
    BY <2>1, <2>4, <2>6, <2>7
<1> QED
  BY <1>1, TypeCorrect, SettlementsAreSound, PTL
=============================================================================
