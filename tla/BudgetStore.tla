---------------------------- MODULE BudgetStore -----------------------------
(***************************************************************************)
(* The datastore's budget operations: internal/store/sqlite/sqlite.go, the *)
(* one implementation behind both backends.                                *)
(*                                                                         *)
(* A run may carry a budget and may be the child of another run; a request *)
(* against a run holds (reserves) its estimated cost against every run of  *)
(* the ancestry and against its lease's ceiling, and later the hold is     *)
(* settled into a ledger entry, released, or expired by the sweeper.       *)
(*                                                                         *)
(* Each operation is one action.  The code runs it in one transaction      *)
(* under reserveMu and appendMu over a pool of one connection, so no other *)
(* operation's reads or writes fall inside it.  A call that ends in an     *)
(* error changes no row and is a stuttering step here; which error it is   *)
(* belongs to the callers.                                                 *)
(*                                                                         *)
(* Columns no UPDATE statement touches (the principal, parent and budget   *)
(* of a run, the run and ceiling of a lease) are constants: the identity   *)
(* of a row fixes the values it is created with.                           *)
(***************************************************************************)
EXTENDS Totals, Sequences

CONSTANTS
  Principal,        \* agents
  Run, Lease,       \* identities available to runs and leases
  Hold,             \* identities available to reservations
  NoRun, NoLease,   \* SQL NULL in parent_run_id, in lease_id
  Owner,            \* Owner[r]: runs.principal_id
  Parent,           \* Parent[r]: runs.parent_run_id, NoRun for a root
  Budget,           \* Budget[r]: runs.budget_nanos, 0 for no limit
  LeaseRun,         \* LeaseRun[l]: leases.run_id
  Ceiling,          \* Ceiling[l]: leases.ceiling_nanos, 0 for no ceiling
  Amounts,          \* the estimates a caller may reserve
  Costs,            \* the costs a response may turn out to have
  MaxEntries        \* bound on the length of the ledger

ASSUME RowIdentities ==
  /\ IsFiniteSet(Hold)
  /\ NoRun \notin Run
  /\ NoLease \notin Lease

ASSUME RowValues ==
  /\ Owner \in [Run -> Principal]
  /\ Parent \in [Run -> Run \cup {NoRun}]
  /\ Budget \in [Run -> Nat]
  /\ LeaseRun \in [Lease -> Run]
  /\ Ceiling \in [Lease -> Nat]

ASSUME Money ==
  /\ Amounts \subseteq Nat
  /\ Costs \subseteq Nat
  /\ MaxEntries \in Nat

VARIABLES
  run,          \* run[r]: "absent" until inserted, then runs.status
  lease,        \* lease[l]: "absent", or what revoked_at and expires_at say of it
  hold,         \* hold[h]: the row of table reservations
  overdue,      \* the holds whose expires_at has passed
  ledger,       \* table ledger in sequence order
  settlement    \* settlement[h]: reservation_settlements.ledger_seq, 0 for no row

runVars == <<run, lease>>
moneyVars == <<hold, overdue, ledger, settlement>>
vars == <<run, lease, hold, overdue, ledger, settlement>>

RunStatus == {"absent", "active", "closed"}
LeaseStatus == {"absent", "live", "expired", "revoked"}
HoldStatus == {"pending", "settled", "released", "expired"}

(* "enforced" is a history field: the enforce argument of the TryReserve   *)
(* that inserted the row.  No operation reads it.                          *)
HoldRow == [status   : HoldStatus,
            run      : Run,
            lease    : Lease \cup {NoLease},
            amount   : Nat,
            enforced : BOOLEAN]

(* No row with this identity has been inserted yet.                        *)
NoHold == [status |-> "absent", run |-> NoRun, lease |-> NoLease,
           amount |-> 0, enforced |-> FALSE]

Entry == [run : Run, cost : Nat]

TypeOK ==
  /\ run \in [Run -> RunStatus]
  /\ lease \in [Lease -> LeaseStatus]
  /\ hold \in [Hold -> HoldRow \cup {NoHold}]
  /\ overdue \subseteq Hold
  /\ ledger \in Seq(Entry)
  /\ settlement \in [Hold -> Nat]

Init ==
  /\ run = [r \in Run |-> "absent"]
  /\ lease = [l \in Lease |-> "absent"]
  /\ hold = [h \in Hold |-> NoHold]
  /\ overdue = {}
  /\ ledger = << >>
  /\ settlement = [h \in Hold |-> 0]

-----------------------------------------------------------------------------
(***************************************************************************)
(* The run hierarchy.  Both recursive queries compute a least fixed point: *)
(* ancestors starts from a run and adds the parent of what it has,         *)
(* subtree starts from a run and adds the children of what it has.         *)
(***************************************************************************)

ClosedUpward(S)   == \A x \in S : Parent[x] \in Run => Parent[x] \in S
ClosedDownward(S) == \A x \in Run : Parent[x] \in S => x \in S

Ancestors ==
  [r \in Run |-> {a \in Run :
     \A S \in SUBSET Run : r \in S /\ ClosedUpward(S) => a \in S}]

Subtree ==
  [n \in Run |-> {x \in Run :
     \A S \in SUBSET Run : n \in S /\ ClosedDownward(S) => x \in S}]

(* Mutant: only the run itself is looked at.                               *)
MutRunActive(r) == run[r] = "active"

(* The check TryReserve and CreateLease make: every run of the ancestry,   *)
(* not only the run itself, is active.                                     *)
AncestryActive(r) == \A a \in Ancestors[r] : run[a] = "active"

-----------------------------------------------------------------------------
(***************************************************************************)
(* Balances, as the queries of subtreeUsage and of the ceiling check.      *)
(***************************************************************************)

Amount == [h \in Hold |-> hold[h].amount]
Cost   == [i \in DOMAIN ledger |-> ledger[i].cost]

PendingIn(n) == {h \in Hold : hold[h].status = "pending" /\ hold[h].run \in Subtree[n]}
EntriesIn(n) == {i \in DOMAIN ledger : ledger[i].run \in Subtree[n]}

Held(n)  == Total(PendingIn(n), Amount)
Spent(n) == Total(EntriesIn(n), Cost)

(* Mutant: the ceiling is compared with what was spent, not with holds.    *)
MutPendingOf(l) == {}

(* A lease is charged with the entries its own holds settled into; an      *)
(* entry appended without a hold counts against no ceiling.                *)
PendingOf(l) == {h \in Hold : hold[h].status = "pending" /\ hold[h].lease = l}
EntriesOf(l) == {i \in DOMAIN ledger :
                   \E h \in Hold : settlement[h] = i /\ hold[h].lease = l}

LeaseHeld(l)  == Total(PendingOf(l), Amount)
LeaseSpent(l) == Total(EntriesOf(l), Cost)

(* What is left of a limit, clamped at zero after each subtraction.        *)
Remaining(limit, spent, held) ==
  LET unspent == IF spent >= limit THEN 0 ELSE limit - spent
  IN  IF held >= unspent THEN 0 ELSE unspent - held

(* Mutant: pending holds do not count against the budget.                  *)
MutOverBudget(n, a) == Budget[n] # 0 /\ a > Remaining(Budget[n], Spent(n), 0)

(* Some budget of the ancestry, or the lease's ceiling, cannot take a.     *)
OverBudget(n, a)  == Budget[n] # 0 /\ a > Remaining(Budget[n], Spent(n), Held(n))
OverCeiling(l, a) == Ceiling[l] # 0 /\ a > Remaining(Ceiling[l], LeaseSpent(l), LeaseHeld(l))

(* Mutant: a child's requests are not checked against the parent's budget. *)
MutWouldBlock(r, l, a) ==
  OverBudget(r, a) \/ (l # NoLease /\ OverCeiling(l, a))

WouldBlock(r, l, a) ==
  \/ \E n \in Ancestors[r] : OverBudget(n, a)
  \/ l # NoLease /\ OverCeiling(l, a)

(* Mutant: the budgets of the runs above are not part of the answer.       *)
MutBudgetStatus(r) ==
  LET remaining == IF Budget[r] = 0 THEN {}
                   ELSE {Remaining(Budget[r], Spent(r), Held(r))}
  IN  [spendAllowed |-> AncestryActive(r), effective |-> remaining]

(* BudgetStatus: what a caller is told before it asks.  It has a loop of   *)
(* its own over the ancestry.  effective is its EffectiveRemaining, the    *)
(* least of the budgets that limit, kept as a set: {} with no limit.       *)
BudgetStatus(r) ==
  LET limited   == {n \in Ancestors[r] : Budget[n] # 0}
      remaining == {Remaining(Budget[n], Spent(n), Held(n)) : n \in limited}
  IN  [spendAllowed |-> AncestryActive(r),
       effective    |-> {x \in remaining : \A y \in remaining : x <= y}]

-----------------------------------------------------------------------------
(***************************************************************************)
(* Runs and leases.                                                        *)
(***************************************************************************)

(* Mutant: the parent may belong to another principal.                     *)
MutCreateRun(r) ==
  /\ run[r] = "absent"
  /\ Parent[r] # NoRun => run[Parent[r]] = "active"
  /\ run' = [run EXCEPT ![r] = "active"]
  /\ UNCHANGED <<lease, moneyVars>>

(* A root run is inserted as it is; a child needs an active parent of the  *)
(* same principal.  Only the parent itself is looked at: a run may be      *)
(* created below a closed grandparent.                                     *)
CreateRun(r) ==
  /\ run[r] = "absent"
  /\ Parent[r] # NoRun => /\ run[Parent[r]] = "active"
                          /\ Owner[Parent[r]] = Owner[r]
  /\ run' = [run EXCEPT ![r] = "active"]
  /\ UNCHANGED <<lease, moneyVars>>

(* Onboarding inserts an agent's first run and lease together.             *)
CreatePrincipalRunLease(r, l) ==
  /\ run[r] = "absent" /\ Parent[r] = NoRun
  /\ lease[l] = "absent" /\ LeaseRun[l] = r
  /\ run' = [run EXCEPT ![r] = "active"]
  /\ lease' = [lease EXCEPT ![l] = "live"]
  /\ UNCHANGED moneyVars

CloseRun(r) ==
  /\ run[r] = "active"
  /\ run' = [run EXCEPT ![r] = "closed"]
  /\ UNCHANGED <<lease, moneyVars>>

CreateLease(l) ==
  /\ lease[l] = "absent"
  /\ AncestryActive(LeaseRun[l])
  /\ lease' = [lease EXCEPT ![l] = "live"]
  /\ UNCHANGED <<run, moneyVars>>

(* The first revocation time is kept; an expired lease may still be        *)
(* revoked by name, but revoking all of a principal's passes over it.      *)
RevokeLease(l) ==
  /\ lease[l] \in {"live", "expired"}
  /\ lease' = [lease EXCEPT ![l] = "revoked"]
  /\ UNCHANGED <<run, moneyVars>>

LeasesOfPrincipal(p) == {l \in Lease : Owner[LeaseRun[l]] = p}

RevokeLeasesForPrincipal(p) ==
  LET live == {l \in LeasesOfPrincipal(p) : lease[l] = "live"}
  IN  /\ live # {}
      /\ lease' = [l \in Lease |-> IF l \in live THEN "revoked" ELSE lease[l]]
      /\ UNCHANGED <<run, moneyVars>>

(* Time reaches leases.expires_at.                                         *)
LeaseExpires(l) ==
  /\ lease[l] = "live"
  /\ lease' = [lease EXCEPT ![l] = "expired"]
  /\ UNCHANGED <<run, moneyVars>>

-----------------------------------------------------------------------------
(***************************************************************************)
(* Reservations.                                                           *)
(***************************************************************************)

(* TryReserve for a request on run r under lease l (NoLease for an agent   *)
(* key).  A closed run anywhere in the ancestry is an error; an estimate   *)
(* that does not fit is refused in enforce mode and let through, hold and  *)
(* all, in observe mode.                                                   *)
TryReserve(h, r, l, a, enforce) ==
  /\ hold[h].status = "absent"
  /\ l # NoLease => lease[l] # "absent"
  /\ AncestryActive(r)
  /\ enforce => ~WouldBlock(r, l, a)
  /\ hold' = [hold EXCEPT ![h] = [status |-> "pending", run |-> r, lease |-> l,
                                  amount |-> a, enforced |-> enforce]]
  /\ UNCHANGED <<runVars, overdue, ledger, settlement>>

(* Mutants: the status of runs is written; a settled hold can be released. *)
MutReleaseStatus(h) ==
  /\ hold[h].status = "pending"
  /\ hold' = [hold EXCEPT ![h].status = "closed"]
  /\ UNCHANGED <<runVars, overdue, ledger, settlement>>

MutReleaseSettled(h) ==
  /\ hold[h].status \in {"pending", "settled"}
  /\ hold' = [hold EXCEPT ![h].status = "released"]
  /\ UNCHANGED <<runVars, overdue, ledger, settlement>>

(* ResolveReservation as Recorder.Release calls it.                        *)
ReleaseReservation(h) ==
  /\ hold[h].status = "pending"
  /\ hold' = [hold EXCEPT ![h].status = "released"]
  /\ UNCHANGED <<runVars, overdue, ledger, settlement>>

(* Time reaches reservations.expires_at.                                   *)
TtlPasses(h) ==
  /\ hold[h].status = "pending" /\ h \notin overdue
  /\ overdue' = overdue \cup {h}
  /\ UNCHANGED <<runVars, hold, ledger, settlement>>

(* Mutant: holds on closed runs are not reclaimed.                         *)
MutExpireActive ==
  LET due == {h \in overdue : hold[h].status = "pending" /\ run[hold[h].run] = "active"}
  IN  /\ due # {}
      /\ hold' = [h \in Hold |-> IF h \in due
                                 THEN [hold[h] EXCEPT !.status = "expired"]
                                 ELSE hold[h]]
      /\ UNCHANGED <<runVars, overdue, ledger, settlement>>

(* One UPDATE reclaims every overdue hold.                                 *)
ExpirePendingReservations ==
  LET due == {h \in overdue : hold[h].status = "pending"}
  IN  /\ due # {}
      /\ hold' = [h \in Hold |-> IF h \in due
                                 THEN [hold[h] EXCEPT !.status = "expired"]
                                 ELSE hold[h]]
      /\ UNCHANGED <<runVars, overdue, ledger, settlement>>

(* Mutant: reservation_settlements is not consulted.                       *)
MutSettleReservation(h, c) ==
  /\ hold[h].status \in {"pending", "expired"}
  /\ ledger' = Append(ledger, [run |-> hold[h].run, cost |-> c])
  /\ settlement' = [settlement EXCEPT ![h] = Len(ledger) + 1]
  /\ hold' = IF hold[h].status = "pending"
             THEN [hold EXCEPT ![h].status = "settled"]
             ELSE hold
  /\ UNCHANGED <<runVars, overdue>>

(* A hold with a settlement row is not charged again: the call returns the *)
(* entry already there.  A hold the sweeper expired is still charged, and  *)
(* stays expired.                                                          *)
SettleReservation(h, c) ==
  /\ settlement[h] = 0
  /\ hold[h].status \in {"pending", "expired"}
  /\ ledger' = Append(ledger, [run |-> hold[h].run, cost |-> c])
  /\ settlement' = [settlement EXCEPT ![h] = Len(ledger) + 1]
  /\ hold' = IF hold[h].status = "pending"
             THEN [hold EXCEPT ![h].status = "settled"]
             ELSE hold
  /\ UNCHANGED <<runVars, overdue>>

(* A charge that resolves no hold: an observed request whose reservation   *)
(* failed.  Neither the run's status nor any budget is looked at.          *)
AppendLedger(r, c) ==
  /\ run[r] # "absent"
  /\ ledger' = Append(ledger, [run |-> r, cost |-> c])
  /\ UNCHANGED <<runVars, hold, overdue, settlement>>

-----------------------------------------------------------------------------

LedgerBound == Len(ledger) < MaxEntries

RunOperation(r) ==
  \/ CreateRun(r)
  \/ CloseRun(r)
  \/ \E c \in Costs : LedgerBound /\ AppendLedger(r, c)

LeaseOperation(l) ==
  \/ CreatePrincipalRunLease(LeaseRun[l], l)
  \/ CreateLease(l)
  \/ RevokeLease(l)
  \/ LeaseExpires(l)

HoldOperation(h) ==
  \/ \E r \in Run, a \in Amounts, e \in BOOLEAN : TryReserve(h, r, NoLease, a, e)
  \/ \E l \in Lease, a \in Amounts, e \in BOOLEAN : TryReserve(h, LeaseRun[l], l, a, e)
  \/ ReleaseReservation(h)
  \/ TtlPasses(h)
  \/ \E c \in Costs : LedgerBound /\ SettleReservation(h, c)

Next ==
  \/ \E r \in Run : RunOperation(r)
  \/ \E l \in Lease : LeaseOperation(l)
  \/ \E p \in Principal : RevokeLeasesForPrincipal(p)
  \/ \E h \in Hold : HoldOperation(h)
  \/ ExpirePendingReservations

Spec == Init /\ [][Next]_vars

(* The sweeper's ticker fires until shutdown and time passes; nothing is   *)
(* assumed of callers, which may never settle or release.                  *)
Fairness ==
  /\ \A h \in Hold : WF_vars(TtlPasses(h))
  /\ WF_vars(ExpirePendingReservations)

FairSpec == Spec /\ Fairness

-----------------------------------------------------------------------------
(***************************************************************************)
(* Properties.                                                             *)
(***************************************************************************)

(* What an enforced decision answers for: the whole estimate of a pending  *)
(* hold, and of a settled one the part of the charge within the estimate.  *)
LesserOf(a, b) == IF a <= b THEN a ELSE b

Covered ==
  [h \in Hold |-> IF settlement[h] = 0 THEN hold[h].amount
                  ELSE LesserOf(hold[h].amount, ledger[settlement[h]].cost)]

CoveredHolds   == {h \in Hold : hold[h].enforced /\ hold[h].status \in {"pending", "settled"}}
CoveredIn(n)   == {h \in CoveredHolds : hold[h].run \in Subtree[n]}
CoveredUnder(l) == {h \in CoveredHolds : hold[h].lease = l}

(* However requests on a run and on all its descendants interleave with    *)
(* settlements, releases, expiry, observed requests and direct charges,    *)
(* what TryReserve admitted in enforce mode never adds up to more than the *)
(* budget of any run of the ancestry.                                      *)
EnforcedWithinBudget ==
  \A n \in Run : Budget[n] # 0 => Total(CoveredIn(n), Covered) <= Budget[n]

(* The same of a lease's ceiling.                                          *)
EnforcedWithinCeiling ==
  \A l \in Lease : Ceiling[l] # 0 => Total(CoveredUnder(l), Covered) <= Ceiling[l]

(* The ways a budget can be overrun, all by design of the code: a hold     *)
(* admitted in observe mode, a charge with no hold, a charge on a hold     *)
(* that had expired, a charge above its estimate.                          *)
Planned(i) == \E h \in CoveredHolds : /\ settlement[h] = i
                                      /\ ledger[i].cost <= hold[h].amount
Unplanned(n) ==
  \/ \E h \in PendingIn(n) : ~hold[h].enforced
  \/ \E i \in EntriesIn(n) : ~Planned(i)

(* A run none of them happened to, itself or its descendants, has not      *)
(* spent and held more than its budget.                                    *)
BudgetHolds ==
  \A n \in Run : Budget[n] # 0 /\ ~Unplanned(n) => Spent(n) + Held(n) <= Budget[n]

(* What a doc says: a parent is not overspent by its children.  When every *)
(* hold was admitted in enforce mode and every charge settles a hold and   *)
(* is within it, no run has spent more than its budget.                    *)
WithinEstimates ==
  /\ \A h \in Hold : hold[h].status # "absent" => hold[h].enforced
  /\ \A i \in DOMAIN ledger :
       \E h \in Hold : settlement[h] = i /\ ledger[i].cost <= hold[h].amount

ChildrenWithinParent ==
  \A n \in Run : Budget[n] # 0 /\ WithinEstimates => Spent(n) <= Budget[n]

(* The hold, its status, its settlement row and its ledger entry agree: a  *)
(* hold is charged at most once, on its own run, no entry answers two      *)
(* holds, what is settled was charged, what is pending or released was     *)
(* not.                                                                    *)
SettlementIntegrity ==
  /\ \A h \in Hold : settlement[h] # 0 =>
       /\ settlement[h] \in DOMAIN ledger
       /\ ledger[settlement[h]].run = hold[h].run
       /\ hold[h].status \in {"settled", "expired"}
  /\ \A h \in Hold : hold[h].status = "settled" => settlement[h] # 0
  /\ \A g, h \in Hold : settlement[g] = settlement[h] /\ settlement[g] # 0 => g = h

(* lockBudgetTx locks one principal to protect every budget of a chain:    *)
(* the ancestry of a run that exists exists, under the same principal.     *)
OnePrincipalPerHierarchy ==
  \A r \in Run : run[r] # "absent" =>
    \A a \in Ancestors[r] : run[a] # "absent" /\ Owner[a] = Owner[r]

(* What BudgetStatus tells a caller is what TryReserve decides next: an    *)
(* enforced request of the run, with no lease, is admitted exactly when    *)
(* spending is allowed and the estimate is within the effective remaining. *)
StatusPredictsDecision ==
  \A r \in Run, a \in Amounts :
    LET told == BudgetStatus(r)
    IN  (AncestryActive(r) /\ ~WouldBlock(r, NoLease, a))
        <=> (told.spendAllowed /\ \A x \in told.effective : a <= x)

LeasesIn(n) == {l \in Lease : lease[l] # "absent" /\ LeaseRun[l] \in Subtree[n]}

NothingStartsBelowClosed ==
  \A n \in Run : run[n] = "closed" => /\ PendingIn(n)' \subseteq PendingIn(n)
                                      /\ LeasesIn(n)' \subseteq LeasesIn(n)

ChargesKept ==
  /\ Len(ledger') >= Len(ledger)
  /\ \A i \in DOMAIN ledger : ledger'[i] = ledger[i]
  /\ \A h \in Hold : settlement[h] # 0 => settlement'[h] = settlement[h]

(* Once a run is closed nothing starts below it: no hold and no lease on   *)
(* it or on any descendant, created before or after the close.             *)
ClosedRunsAdmitNothing == [][NothingStartsBelowClosed]_vars

(* A charge is final: the ledger only grows at its end, and a hold's       *)
(* settlement is neither removed nor pointed at another entry.             *)
ChargesAreFinal == [][ChargesKept]_vars

(* A hold whose request never comes back does not keep budget for ever.    *)
HoldsAreReclaimed ==
  \A h \in Hold : hold[h].status = "pending" ~> hold[h].status # "pending"

(* A closed run's budget becomes free of holds, whatever was in flight     *)
(* below it when it was closed.                                            *)
ClosedRunsDrain ==
  \A n \in Run : run[n] = "closed" ~> Held(n) = 0
=============================================================================
