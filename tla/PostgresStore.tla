--------------------------- MODULE PostgresStore ---------------------------
(***************************************************************************)
(* The datastore shared by several gateway replicas: the SQL of            *)
(* internal/store/sqlite/sqlite.go run by internal/store/postgres.         *)
(*                                                                         *)
(* A replica's reserveMu and appendMu keep out only its own goroutines.    *)
(* What separates replicas is PostgreSQL: transactions at READ COMMITTED,  *)
(* where every statement sees what was committed before it began;          *)
(* transaction-scoped advisory locks, one per principal for decisions on   *)
(* its runs and one for the head of the ledger; locks on the rows a        *)
(* transaction updated; and the ledger's primary key.  A transaction is    *)
(* therefore a sequence of statements here, between which transactions of  *)
(* other replicas commit; an UPDATE outside a transaction is one action.   *)
(*                                                                         *)
(* The committed rows are those of BudgetStore, except that a ledger entry *)
(* carries the fields of the hash chain.                                   *)
(***************************************************************************)
EXTENDS LedgerChain, Totals

CONSTANTS
  Principal, Run, Lease, Hold, NoRun, NoLease,
  Owner, Parent, Budget, LeaseRun, Ceiling,
  Amounts, Costs,   \* as in BudgetStore
  Session,          \* the replicas, by the connection reserveMu lets one goroutine use
  Home, RunOf, LeaseOf,   \* of the request a hold is for: its replica, run and lease
  Modes,            \* the enforce arguments of TryReserve
  LegacyRuns,       \* the runs an entry of the old format may be for
  Details,          \* what a row's itemized usage and provenance can be
  MaxEntries        \* bound on the length of the ledger

(* The parent of a run is of the run's principal: CreateRun inserts no     *)
(* other, and no UPDATE touches the two columns.                           *)
ASSUME RowIdentities ==
  /\ IsFiniteSet(Hold)
  /\ NoRun \notin Run
  /\ NoLease \notin Lease

ASSUME RowValues ==
  /\ Owner \in [Run -> Principal]
  /\ Parent \in [Run -> Run \cup {NoRun}]
  /\ Budget \in [Run -> Nat]
  /\ LeaseRun \in [Lease -> Run]
  /\ Ceiling \in [Lease -> Nat]
  /\ \A r \in Run : Parent[r] # NoRun => Owner[Parent[r]] = Owner[r]

ASSUME Requests ==
  /\ Home \in [Hold -> Session]
  /\ RunOf \in [Hold -> Run]
  /\ LeaseOf \in [Hold -> Lease \cup {NoLease}]
  /\ Modes \subseteq BOOLEAN
  /\ LegacyRuns \subseteq Run

ASSUME Money ==
  /\ Amounts \subseteq Nat
  /\ Costs \subseteq Nat /\ Costs # {}
  /\ Details # {}
  /\ MaxEntries \in Nat

VARIABLES
  run, lease, hold, overdue, settlement,   \* as in BudgetStore
  rows,             \* table ledger in sequence order
  tx,               \* tx[s]: the transaction session s is in
  lapsed            \* history: the holds ExpirePendingReservations reclaimed

tables == <<run, lease, hold, overdue, settlement, rows, lapsed>>
vars == <<tables, tx>>

Charges == [i \in DOMAIN rows |-> [run |-> rows[i].run, cost |-> rows[i].cost]]

Store == INSTANCE BudgetStore WITH ledger <- Charges

Idle == [op |-> "none"]

(* What a session may ask for.  "at" is the statement it is to run next.   *)
Reserving(h) == [op : {"reserve"}, at : {"lock"}, hold : {h}, run : {RunOf[h]},
                 lease : {LeaseOf[h]}, amount : Amounts, enforce : Modes]
Settling(h)  == [op : {"settle"}, at : {"lock"}, hold : {h}, cost : Costs]
Appending    == [op : {"append"}, at : {"lock"}, run : Run, cost : Costs]
Closing      == [op : {"close"}, at : {"lock"}, run : Run]

LegacyRow(r) == Seal([seq |-> 1, run |-> r, cost |-> CHOOSE c \in Costs : TRUE, version |-> HashVersionLegacy,
                      detail |-> CHOOSE d \in Details : TRUE], GenesisHash)

(* Runs and leases exist and are active; the ledger is empty, or holds an  *)
(* entry from before migration 0003 gave its row a hash version.           *)
Init ==
  /\ run = [r \in Run |-> "active"]
  /\ lease = [l \in Lease |-> "live"]
  /\ hold = [h \in Hold |-> Store!NoHold]
  /\ overdue = {}
  /\ settlement = [h \in Hold |-> 0]
  /\ rows \in {<< >>} \cup {<<LegacyRow(r)>> : r \in LegacyRuns}
  /\ tx = [s \in Session |-> Idle]
  /\ lapsed = {}

-----------------------------------------------------------------------------
(***************************************************************************)
(* Locks.  pg_advisory_xact_lock is released with its transaction.         *)
(***************************************************************************)

Holds(s, ops) == tx[s].op \in ops /\ tx[s].at # "lock"

Deciding(s, p)  == Holds(s, {"reserve", "close"}) /\ Owner[tx[s].run] = p
AtHead(s)       == Holds(s, {"settle", "append"})

(* Mutants: the lock is not taken.                                         *)
MutBudgetLockFree(p) == TRUE
MutLedgerLockFree == TRUE

BudgetLockFree(p) == \A s \in Session : ~Deciding(s, p)
LedgerLockFree    == \A s \in Session : ~AtHead(s)

(* A settlement that has updated its hold keeps the row until it ends.     *)
RowFree(h) == \A s \in Session : ~(Holds(s, {"settle"}) /\ tx[s].at = "commit"
                                   /\ tx[s].hold = h /\ tx[s].status = "pending")

Proceed(s, t) == tx' = [tx EXCEPT ![s] = t]
Finish(s)     == Proceed(s, Idle)

(* Bound on the ledger, with the rows of transactions in progress.         *)
LedgerBound ==
  Len(rows) + Cardinality({s \in Session : tx[s].op \in {"settle", "append"}}) < MaxEntries

(* BEGIN.                                                                  *)
Begin(s) ==
  /\ tx[s] = Idle
  /\ \/ \E h \in Hold : \E t \in Reserving(h) \cup Settling(h) :
          /\ Home[h] = s
          /\ t.op = "reserve" <=> hold[h].status = "absent"
          /\ t.op = "settle" => LedgerBound
          /\ Proceed(s, t)
     \/ \E t \in Appending : LedgerBound /\ Proceed(s, t)
     \/ \E t \in Closing : Proceed(s, t)
  /\ UNCHANGED tables

(* lockBudgetTx or lockLedgerTx: waits until no other transaction has it.  *)
Lock(s) ==
  /\ tx[s] # Idle /\ tx[s].at = "lock"
  /\ \/ /\ tx[s].op \in {"reserve", "close"}
        /\ BudgetLockFree(Owner[tx[s].run])
        /\ Proceed(s, [tx[s] EXCEPT !.at = IF tx[s].op = "reserve" THEN "chain" ELSE "write"])
     \/ /\ tx[s].op \in {"settle", "append"}
        /\ LedgerLockFree
        /\ Proceed(s, [tx[s] EXCEPT !.at = IF tx[s].op = "settle" THEN "hold" ELSE "head"])
  /\ UNCHANGED tables

(* The connection, or the caller's context, goes away: ROLLBACK.           *)
Abort(s) ==
  /\ tx[s] # Idle
  /\ Finish(s)
  /\ UNCHANGED tables

-----------------------------------------------------------------------------
(***************************************************************************)
(* TryReserve and CloseRun: under the principal's budget lock.             *)
(***************************************************************************)

(* The limits of a chain still to be read, from the run upwards.           *)
Nearest(levels) == {n \in levels : \A m \in levels : n \in Store!Subtree[m]}

(* One statement reads the statuses and budgets of the ancestry.           *)
ReadChain(s) ==
  /\ Holds(s, {"reserve"}) /\ tx[s].at = "chain"
  /\ LET t == tx[s] IN
     IF Store!AncestryActive(t.run)
     THEN Proceed(s, [op |-> "reserve", at |-> "levels", hold |-> t.hold, run |-> t.run,
                      lease |-> t.lease, amount |-> t.amount, enforce |-> t.enforce,
                      left |-> {n \in Store!Ancestors[t.run] : Budget[n] # 0},
                      wouldBlock |-> FALSE])
     ELSE Finish(s)
  /\ UNCHANGED tables

(* subtreeUsage, one statement per level.                                  *)
ReadLevel(s) ==
  /\ Holds(s, {"reserve"}) /\ tx[s].at = "levels"
  /\ \E n \in Nearest(tx[s].left) :
       Proceed(s, [tx[s] EXCEPT !.left = @ \ {n},
                                !.wouldBlock = @ \/ Store!OverBudget(n, tx[s].amount)])
  /\ UNCHANGED tables

(* The lease's ceiling, then INSERT and COMMIT.  The ceiling is not looked *)
(* at when the request has no lease; a hold is not inserted when enforcing *)
(* finds no room.                                                          *)
ReadCeiling(s) ==
  /\ Holds(s, {"reserve"}) /\ tx[s].at = "levels" /\ tx[s].left = {}
  /\ LET t == tx[s]
         block == t.wouldBlock \/ (t.lease # NoLease /\ Store!OverCeiling(t.lease, t.amount))
     IN  IF t.enforce /\ block
         THEN Finish(s)
         ELSE Proceed(s, [tx[s] EXCEPT !.at = "write"])
  /\ UNCHANGED tables

CommitHold(s) ==
  /\ Holds(s, {"reserve"}) /\ tx[s].at = "write"
  /\ hold' = [hold EXCEPT ![tx[s].hold] =
                 [status |-> "pending", run |-> tx[s].run, lease |-> tx[s].lease,
                  amount |-> tx[s].amount, enforced |-> tx[s].enforce]]
  /\ Finish(s)
  /\ UNCHANGED <<run, lease, overdue, settlement, rows, lapsed>>

(* Mutant: the run gets a status of the reservations.                      *)
MutCommitClose(s) ==
  /\ Holds(s, {"close"})
  /\ run' = [run EXCEPT ![tx[s].run] = "settled"]
  /\ Finish(s)
  /\ UNCHANGED <<lease, hold, overdue, settlement, rows, lapsed>>

CommitClose(s) ==
  /\ Holds(s, {"close"})
  /\ run' = [run EXCEPT ![tx[s].run] = "closed"]
  /\ Finish(s)
  /\ UNCHANGED <<lease, hold, overdue, settlement, rows, lapsed>>

-----------------------------------------------------------------------------
(***************************************************************************)
(* SettleReservation and AppendLedger: under the lock on the ledger head.  *)
(***************************************************************************)

(* Mutants: the transaction stays open when there is nothing to charge; a  *)
(* hold is charged without a look at its settlement row.                   *)
MutReadHoldOpen(s) ==
  /\ Holds(s, {"settle"}) /\ tx[s].at = "hold"
  /\ LET h == tx[s].hold IN
     /\ settlement[h] = 0 /\ hold[h].status \in {"pending", "expired"}
     /\ Proceed(s, [op |-> "settle", at |-> "head", hold |-> h, run |-> hold[h].run,
                    cost |-> tx[s].cost, status |-> hold[h].status])
  /\ UNCHANGED tables

MutReadHoldTwice(s) ==
  /\ Holds(s, {"settle"}) /\ tx[s].at = "hold"
  /\ LET h == tx[s].hold IN
     IF hold[h].status \in {"pending", "expired", "settled"}
     THEN Proceed(s, [op |-> "settle", at |-> "head", hold |-> h, run |-> hold[h].run,
                      cost |-> tx[s].cost, status |-> hold[h].status])
     ELSE Finish(s)
  /\ UNCHANGED tables

(* A hold with a settlement row is not charged again; the status read here *)
(* decides whether the hold is updated.                                    *)
ReadHold(s) ==
  /\ Holds(s, {"settle"}) /\ tx[s].at = "hold"
  /\ LET h == tx[s].hold IN
     IF settlement[h] = 0 /\ hold[h].status \in {"pending", "expired"}
     THEN Proceed(s, [op |-> "settle", at |-> "head", hold |-> h, run |-> hold[h].run,
                      cost |-> tx[s].cost, status |-> hold[h].status])
     ELSE Finish(s)
  /\ UNCHANGED tables

(* appendLedgerTx: read the head, seal the successor, INSERT.              *)
NextRow(r, c) == Seal([seq |-> Len(rows) + 1, run |-> r, cost |-> c,
                       version |-> HashVersionUsage, detail |-> CHOOSE d \in Details : TRUE],
                      HeadHash(rows))

ReadHead(s) ==
  /\ Holds(s, {"settle", "append"}) /\ tx[s].at = "head"
  /\ Proceed(s, IF tx[s].op = "settle"
                THEN [op |-> "settle", at |-> "row", hold |-> tx[s].hold,
                      status |-> tx[s].status, row |-> NextRow(tx[s].run, tx[s].cost)]
                ELSE [op |-> "append", at |-> "commit", row |-> NextRow(tx[s].run, tx[s].cost)])
  /\ UNCHANGED tables

(* UPDATE reservations SET status = 'settled' WHERE id = ?, and no look at *)
(* the status: what another replica committed since is overwritten.        *)
UpdateHold(s) ==
  /\ Holds(s, {"settle"}) /\ tx[s].at = "row"
  /\ Proceed(s, [tx[s] EXCEPT !.at = "commit"])
  /\ UNCHANGED tables

(* COMMIT.  A row whose number is taken violates the primary key, and the  *)
(* transaction with it.                                                    *)
CommitRow(s) ==
  /\ Holds(s, {"settle", "append"}) /\ tx[s].at = "commit"
  /\ LET t == tx[s] IN
     IF t.row.seq = Len(rows) + 1
     THEN /\ rows' = Append(rows, t.row)
          /\ settlement' = IF t.op = "settle"
                           THEN [settlement EXCEPT ![t.hold] = t.row.seq]
                           ELSE settlement
          /\ hold' = IF t.op = "settle" /\ t.status = "pending"
                     THEN [hold EXCEPT ![t.hold].status = "settled"]
                     ELSE hold
     ELSE UNCHANGED <<rows, settlement, hold>>
  /\ Finish(s)
  /\ UNCHANGED <<run, lease, overdue, lapsed>>

-----------------------------------------------------------------------------
(***************************************************************************)
(* Single statements, and the passing of time.                             *)
(***************************************************************************)

(* Mutant: the status is not part of the WHERE clause.                     *)
MutReleaseReservation(h) ==
  /\ hold[h].status \in {"pending", "settled"}
  /\ tx[Home[h]] = Idle
  /\ hold' = [hold EXCEPT ![h].status = "released"]
  /\ UNCHANGED <<run, lease, overdue, settlement, rows, lapsed, tx>>

(* A request that failed; reserveMu keeps it out of its own settlement.    *)
ReleaseReservation(h) ==
  /\ hold[h].status = "pending"
  /\ tx[Home[h]] = Idle
  /\ hold' = [hold EXCEPT ![h].status = "released"]
  /\ UNCHANGED <<run, lease, overdue, settlement, rows, lapsed, tx>>

TtlPasses(h) ==
  /\ hold[h].status = "pending" /\ h \notin overdue
  /\ overdue' = overdue \cup {h}
  /\ UNCHANGED <<run, lease, hold, settlement, rows, lapsed, tx>>

(* The UPDATE waits for rows another transaction updated and looks at them *)
(* again once that has committed.                                          *)
ExpirePendingReservations(s) ==
  LET due == {h \in overdue : hold[h].status = "pending"}
  IN  /\ due # {} /\ tx[s] = Idle
      /\ \A h \in due : RowFree(h)
      /\ hold' = [h \in Hold |-> IF h \in due
                                 THEN [hold[h] EXCEPT !.status = "expired"]
                                 ELSE hold[h]]
      /\ lapsed' = lapsed \cup due
      /\ UNCHANGED <<run, lease, overdue, settlement, rows, tx>>

-----------------------------------------------------------------------------

(* The statements of a transaction already begun.                          *)
Statement(s) ==
  \/ ReadChain(s) \/ ReadLevel(s) \/ ReadCeiling(s) \/ CommitHold(s)
  \/ CommitClose(s)
  \/ ReadHold(s) \/ ReadHead(s) \/ UpdateHold(s)
  \/ CommitRow(s)

Next ==
  \/ \E s \in Session : \/ Begin(s) \/ Lock(s) \/ Statement(s) \/ Abort(s)
                        \/ ExpirePendingReservations(s)
  \/ \E h \in Hold : ReleaseReservation(h) \/ TtlPasses(h)

Spec == Init /\ [][Next]_vars

(* A statement runs to its end, and PostgreSQL serves the waiters of an    *)
(* advisory lock in the order they came.  Nothing is assumed of callers.   *)
Fairness ==
  \A s \in Session : WF_vars(Statement(s)) /\ SF_vars(Lock(s))

FairSpec == Spec /\ Fairness

-----------------------------------------------------------------------------
(***************************************************************************)
(* Properties.                                                             *)
(***************************************************************************)

RowType == [seq : Nat, run : Run, cost : Nat, version : {1, 2}, detail : Details]

Columns(r) == [seq |-> r.seq, run |-> r.run, cost |-> r.cost,
               version |-> r.version, detail |-> r.detail]

TypeOK ==
  /\ Store!TypeOK
  /\ \A i \in DOMAIN rows : Columns(rows[i]) \in RowType
  /\ lapsed \subseteq Hold
  /\ \A s \in Session :
       tx[s].op \in {"none", "reserve", "settle", "append", "close"}

(* The decision of one replica reads level after level while others settle *)
(* and reclaim; still, what was admitted in enforce mode and never expired *)
(* adds up to no more than the budget of any run of the ancestry.          *)
EnforcedWithinBudget ==
  \A n \in Run : Budget[n] # 0 =>
    Total(Store!CoveredIn(n) \ lapsed, Store!Covered) <= Budget[n]

(* Whichever replicas append, the ledger is numbered without gaps and      *)
(* verifies from the first row, rows of the old format included.           *)
ChainVerifies ==
  /\ VerifyChain(rows)
  /\ \A i \in DOMAIN rows : rows[i].seq = i

(* A row is sealed onto the head the transaction read, and that is the     *)
(* head still: no append ever fails on the ledger's primary key.           *)
SealedOntoHead ==
  \A s \in Session : "row" \in DOMAIN tx[s] =>
    /\ tx[s].row.seq = Len(rows) + 1
    /\ tx[s].row.prev = HeadHash(rows)

(* What verification detects of changes made behind the ledger's back: any *)
(* altered cost, run, number or format, a row dropped before the last, two *)
(* rows exchanged; and an altered detail, unless the row is of the old     *)
(* format, which does not cover it.                                        *)
AlteredRows(i) ==
  {Edited(rows, i, "cost", rows[i].cost + 1)}
  \cup {Edited(rows, i, "run", r) : r \in Run \ {rows[i].run}}
  \cup {Edited(rows, i, "version", v) : v \in {1, 2} \ {rows[i].version}}
  \cup {Edited(rows, i, "seq", n) : n \in DOMAIN rows \ {i}}
  \cup {Edited(rows, i, "detail", d) :
          d \in IF rows[i].version = HashVersionLegacy THEN {} ELSE Details \ {rows[i].detail}}

TamperEvident ==
  /\ \A i \in DOMAIN rows : \A altered \in AlteredRows(i) : ~VerifyChain(altered)
  /\ \A i \in 1 .. Len(rows) - 1 : /\ ~VerifyChain(Dropped(rows, i))
                                   /\ ~VerifyChain(Exchanged(rows, i))

(* A hold, its settlement row and its ledger entry agree, also when the    *)
(* sweeper of another replica reclaims the hold between the statements of  *)
(* its settlement.                                                         *)
SettlementIntegrity == Store!SettlementIntegrity

(* Nothing starts below a closed run, whichever replica closes it and      *)
(* whichever decides on a request meanwhile.                               *)
ClosedRunsAdmitNothing == [][Store!NothingStartsBelowClosed]_vars

(* No replica waits for ever: neither on a lock nor on a row.              *)
TransactionsEnd ==
  \A s \in Session : tx[s] # Idle ~> tx[s] = Idle

(* The replicas together keep one ledger as SpendLog promises: an entry    *)
(* and the reservation it charges are there at once, and stay as they are. *)
ChargedHold(i) == {h \in Hold : settlement[h] = i}

SpendLog == INSTANCE SpendLog WITH
         Charge <- [run : Run, cost : Costs],
         Hold   <- {{h} : h \in Hold},
         NoHold <- {},
         log    <- [i \in DOMAIN rows |-> [charge |-> Charges[i], hold |-> ChargedHold(i)]]

KeepsSpendLog == SpendLog!Spec
=============================================================================
