--------------------------- MODULE PostgresProofs ---------------------------
(***************************************************************************)
(* The safety of the datastore several replicas share, for every number of *)
(* replicas, principals, runs and holds: two advisory locks, and the rows  *)
(* a transaction has updated, are enough.                                  *)
(***************************************************************************)
EXTENDS PostgresStore, TotalsProofs

(* The theorems on the operators of BudgetStore, over the same tables.     *)
Enf == INSTANCE EnforcementProofs WITH ledger <- Charges

-----------------------------------------------------------------------------
(***************************************************************************)
(* The inductive invariant.                                                *)
(***************************************************************************)

(* What a transaction may be, statement by statement.  A row to insert was *)
(* made of the head of the ledger as it still is.                          *)
Asking    == [op : {"reserve"}, at : {"lock", "chain"}, hold : Hold, run : Run,
              lease : Lease \cup {NoLease}, amount : Amounts, enforce : Modes]
Checking  == [op : {"reserve"}, at : {"levels", "write"}, hold : Hold, run : Run,
              lease : Lease \cup {NoLease}, amount : Amounts, enforce : Modes,
              left : SUBSET Run, wouldBlock : BOOLEAN]
Finding   == [op : {"settle"}, at : {"lock", "hold"}, hold : Hold, cost : Costs]
Charging  == [op : {"settle"}, at : {"head"}, hold : Hold, run : Run, cost : Costs,
              status : {"pending", "expired"}]
Adding    == [op : {"append"}, at : {"lock", "head"}, run : Run, cost : Costs]
Shutting  == [op : {"close"}, at : {"lock", "write"}, run : Run]

Sealed    == {NextRow(r, c) : r \in Run, c \in Costs}
Charged   == [op : {"settle"}, at : {"row", "commit"}, hold : Hold,
              status : {"pending", "expired"}, row : Sealed]
Added     == [op : {"append"}, at : {"commit"}, row : Sealed]

Unsealed  == {Idle} \cup Asking \cup Checking \cup Finding \cup Charging \cup Adding
                    \cup Shutting
Stages    == Unsealed \cup Charged \cup Added

HasHead(t)      == t.op \in {"settle", "append"} /\ t.at # "lock"
HasBudget(t, p) == t.op \in {"reserve", "close"} /\ t.at # "lock" /\ Owner[t.run] = p

(* A hold is its replica's own, and not inserted before its transaction;   *)
(* once a settlement has read its hold, the hold stays to be charged: only *)
(* the sweeper can have come between, to let it expire.                    *)
OwnHold(s, t) ==
  /\ t.op \in {"reserve", "settle"} => Home[t.hold] = s
  /\ t.op = "reserve" => hold[t.hold].status = "absent"
  /\ t.op = "settle" => hold[t.hold].status # "absent"

ToCharge(t) ==
  t.op = "settle" /\ t.at \in {"head", "row", "commit"} =>
    /\ settlement[t.hold] = 0
    /\ hold[t.hold].status \in {"pending", "expired"}
    /\ t.status = "expired" => hold[t.hold].status = "expired"
    /\ t.at = "head" => t.run = hold[t.hold].run
    /\ t.at # "head" => t.row.run = hold[t.hold].run

Sound(s, t) == t \in Stages /\ OwnHold(s, t) /\ ToCharge(t)

(* The advisory locks keep others out.                                     *)
OneHead   == \A q, s \in Session : HasHead(tx[q]) /\ HasHead(tx[s]) => q = s
OneBudget == \A q, s \in Session : \A p :
               HasBudget(tx[q], p) /\ HasBudget(tx[s], p) => q = s

RowSet == {rows[i] : i \in DOMAIN rows}

Transactions ==
  /\ tx = [s \in Session |-> tx[s]]
  /\ \A s \in Session : Sound(s, tx[s])
  /\ OneHead
  /\ OneBudget

Tables ==
  /\ Store!TypeOK
  /\ rows \in Seq(RowSet)
  /\ \A i \in DOMAIN rows : Columns(rows[i]) \in RowType /\ rows[i].cost \in Costs
  /\ lapsed \subseteq Hold

SharedInv == Tables /\ Transactions

-----------------------------------------------------------------------------

LEMMA StageOf ==
  ASSUME NEW t \in Stages
  PROVE  /\ t.op \in {"none", "reserve", "settle", "append", "close"}
         /\ t.op = "none" => t = Idle
         /\ t.op = "reserve" /\ t.at \in {"lock", "chain"} => t \in Asking
         /\ t.op = "reserve" /\ t.at \notin {"lock", "chain"} => t \in Checking
         /\ t.op = "settle" /\ t.at \in {"lock", "hold"} => t \in Finding
         /\ t.op = "settle" /\ t.at = "head" => t \in Charging
         /\ t.op = "settle" /\ t.at \notin {"lock", "hold", "head"} => t \in Charged
         /\ t.op = "append" /\ t.at \in {"lock", "head"} => t \in Adding
         /\ t.op = "append" /\ t.at \notin {"lock", "head"} => t \in Added
         /\ t.op = "close" => t \in Shutting
<1>1. CASE t = Idle
  BY <1>1 DEF Idle
<1>2. CASE t \in Asking \cup Checking
  BY <1>2 DEF Asking, Checking
<1>3. CASE t \in Finding \cup Charging \cup Charged
  <2> HIDE DEF Sealed
  <2> QED
    BY <1>3 DEF Finding, Charging, Charged
<1>4. CASE t \in Adding \cup Added \cup Shutting
  BY <1>4 DEF Adding, Added, Shutting
<1> QED
  BY <1>1, <1>2, <1>3, <1>4 DEF Stages, Unsealed

(* The stages change with the ledger only.                                 *)
LEMMA StagesKept ==
  ASSUME rows' = rows PROVE Stages' = Stages
<1>1. Sealed' = Sealed
  BY DEF Sealed, NextRow
<1> HIDE DEF Sealed
<1> QED
  BY <1>1 DEF Stages, Charged, Added

(* Only the head's holder has a row made.                                  *)
LEMMA SealedAtHead ==
  ASSUME NEW t \in Stages, t \notin Unsealed
  PROVE  HasHead(t) /\ t.at \in {"row", "commit"}
<1>1. CASE t \in Charged
  BY <1>1 DEF Charged, HasHead
<1>2. CASE t \in Added
  BY <1>2 DEF Added, HasHead
<1> QED
  BY <1>1, <1>2 DEF Stages

(* A statement that writes nothing yet: it takes a transaction from one    *)
(* sound stage to another, and takes a lock only if it is free.            *)
LEMMA Reading ==
  ASSUME SharedInv, NEW s \in Session, NEW t, Sound(s, t),
         Proceed(s, t), UNCHANGED tables,
         HasHead(t) => HasHead(tx[s]) \/ LedgerLockFree,
         \A p : HasBudget(t, p) => HasBudget(tx[s], p) \/ BudgetLockFree(p)
  PROVE  SharedInv'
<1>1. Tables'
  BY DEF SharedInv, Tables, tables, Store!TypeOK, RowSet, Charges
<1>2. /\ tx' = [q \in Session |-> tx'[q]]
      /\ tx'[s] = t
      /\ \A q \in Session \ {s} : tx'[q] = tx[q]
  BY DEF SharedInv, Transactions, Proceed
<1>3. \A q \in Session : Sound(q, tx'[q])
  BY <1>2 DEF SharedInv, Transactions
<1>4. hold' = hold /\ settlement' = settlement /\ rows' = rows
  BY DEF tables
<1>5. Stages' = Stages
  BY <1>4, StagesKept
<1>6. (\A q \in Session : Sound(q, tx[q]))'
  BY <1>3, <1>4, <1>5 DEF Sound, OwnHold, ToCharge
<1>7. \A q \in Session : HasHead(tx[q]) <=> AtHead(q)
  BY DEF HasHead, AtHead, Holds
<1>8. OneHead'
  BY <1>2, <1>7 DEF OneHead, LedgerLockFree, SharedInv, Transactions
<1>9. \A q \in Session : \A p : HasBudget(tx[q], p) <=> Deciding(q, p)
  BY DEF HasBudget, Deciding, Holds
<1>10. OneBudget'
  BY <1>2, <1>9 DEF OneBudget, BudgetLockFree, SharedInv, Transactions
<1> QED
  BY <1>1, <1>2, <1>6, <1>8, <1>10 DEF SharedInv, Transactions

(* A sound transaction's columns.                                          *)
LEMMA HoldColumns ==
  ASSUME Store!TypeOK, NEW h \in Hold, hold[h].status # "absent"
  PROVE  /\ hold[h].status \in Store!HoldStatus
         /\ hold[h].run \in Run
         /\ hold[h].lease \in Lease \cup {NoLease}
         /\ hold[h].amount \in Nat
         /\ hold[h].enforced \in BOOLEAN
         /\ hold[h] \in Store!HoldRow
         /\ \A status \in Store!HoldStatus :
              /\ [hold[h] EXCEPT !.status = status] \in Store!HoldRow
              /\ [hold[h] EXCEPT !.status = status].status = status
              /\ \A field \in {"run", "lease", "amount", "enforced"} :
                   [hold[h] EXCEPT !.status = status][field] = hold[h][field]
<1>1. hold[h] \in Store!HoldRow
  BY DEF Store!TypeOK, Store!NoHold
<1> QED
  BY <1>1 DEF Store!HoldRow

LEMMA IdleSound == ASSUME NEW s PROVE Sound(s, Idle) /\ ~HasHead(Idle) /\ \A p : ~HasBudget(Idle, p)
BY DEF Sound, Stages, Unsealed, OwnHold, ToCharge, Idle, HasHead, HasBudget

LEMMA BeginSound ==
  ASSUME SharedInv, NEW s \in Session, Begin(s) PROVE SharedInv'
<1> DEFINE Starts(t) == Sound(s, t) /\ t.at = "lock"
<1>1. ASSUME NEW h \in Hold, NEW t \in Reserving(h), Home[h] = s,
             t.op = "reserve" => hold[h].status = "absent"
      PROVE  Starts(t)
  <2>1. t \in Asking /\ t.hold = h /\ t.op = "reserve" /\ t.at = "lock"
    BY <1>1, Requests DEF Reserving, Asking
  <2> QED
    BY <1>1, <2>1 DEF Sound, Stages, Unsealed, OwnHold, ToCharge
<1>2. ASSUME NEW h \in Hold, NEW t \in Settling(h), Home[h] = s,
             t.op # "reserve" => hold[h].status # "absent"
      PROVE  Starts(t)
  <2>1. t \in Finding /\ t.hold = h /\ t.op = "settle" /\ t.at = "lock"
    BY <1>2 DEF Settling, Finding
  <2> QED
    BY <1>2, <2>1 DEF Sound, Stages, Unsealed, OwnHold, ToCharge
<1>3. ASSUME NEW t \in Appending PROVE Starts(t)
  <2>1. t \in Adding /\ t.op = "append" /\ t.at = "lock"
    BY <1>3 DEF Appending, Adding
  <2> QED
    BY <2>1 DEF Sound, Stages, Unsealed, OwnHold, ToCharge
<1>4. ASSUME NEW t \in Closing PROVE Starts(t)
  <2>1. t \in Shutting /\ t.op = "close" /\ t.at = "lock"
    BY <1>4 DEF Closing, Shutting
  <2> QED
    BY <2>1 DEF Sound, Stages, Unsealed, OwnHold, ToCharge
<1> HIDE DEF Starts
<1>5. PICK t : Starts(t) /\ Proceed(s, t)
  BY <1>1, <1>2, <1>3, <1>4 DEF Begin
<1>6. UNCHANGED tables
  BY DEF Begin
<1>7. Sound(s, t) /\ ~HasHead(t) /\ \A p : ~HasBudget(t, p)
  BY <1>5 DEF Starts, HasHead, HasBudget
<1> QED
  BY <1>5, <1>6, <1>7, Reading
LEMMA LockSound ==
  ASSUME SharedInv, NEW s \in Session, Lock(s) PROVE SharedInv'
<1> DEFINE w == tx[s]
<1>1. w \in Stages /\ Sound(s, w)
  BY DEF SharedInv, Transactions, Sound
<1>2. ASSUME NEW a, w.op = "reserve", w.at = "lock", a = "chain"
      PROVE  /\ Sound(s, [w EXCEPT !.at = a]) /\ ~HasHead([w EXCEPT !.at = a])
             /\ \A p : HasBudget([w EXCEPT !.at = a], p) => p = Owner[w.run]
  <2>1. w \in Asking
    BY <1>1, <1>2, StageOf
  <2> HIDE DEF w
  <2>2. [w EXCEPT !.at = a] \in Asking /\ [w EXCEPT !.at = a].hold = w.hold
        /\ [w EXCEPT !.at = a].run = w.run
    BY <1>2, <2>1 DEF Asking
  <2> QED
    BY <1>1, <1>2, <2>1, <2>2
       DEF Sound, Stages, Unsealed, OwnHold, ToCharge, HasHead, HasBudget, Asking
<1>3. ASSUME NEW a, w.op = "close", w.at = "lock", a = "write"
      PROVE  /\ Sound(s, [w EXCEPT !.at = a]) /\ ~HasHead([w EXCEPT !.at = a])
             /\ \A p : HasBudget([w EXCEPT !.at = a], p) => p = Owner[w.run]
  <2>1. w \in Shutting
    BY <1>1, <1>3, StageOf
  <2> HIDE DEF w
  <2>2. [w EXCEPT !.at = a] \in Shutting /\ [w EXCEPT !.at = a].run = w.run
    BY <1>3, <2>1 DEF Shutting
  <2> QED
    BY <1>1, <1>3, <2>1, <2>2
       DEF Sound, Stages, Unsealed, OwnHold, ToCharge, HasHead, HasBudget, Shutting
<1>4. ASSUME NEW a, w.op = "settle", w.at = "lock", a = "hold"
      PROVE  Sound(s, [w EXCEPT !.at = a]) /\ \A p : ~HasBudget([w EXCEPT !.at = a], p)
  <2>1. w \in Finding
    BY <1>1, <1>4, StageOf
  <2> HIDE DEF w
  <2>2. [w EXCEPT !.at = a] \in Finding /\ [w EXCEPT !.at = a].hold = w.hold
        /\ [w EXCEPT !.at = a].at = "hold"
    BY <1>4, <2>1 DEF Finding
  <2> QED
    BY <1>1, <1>4, <2>1, <2>2
       DEF Sound, Stages, Unsealed, OwnHold, ToCharge, HasBudget, Finding
<1>5. ASSUME NEW a, w.op = "append", w.at = "lock", a = "head"
      PROVE  Sound(s, [w EXCEPT !.at = a]) /\ \A p : ~HasBudget([w EXCEPT !.at = a], p)
  <2>1. w \in Adding
    BY <1>1, <1>5, StageOf
  <2> HIDE DEF w
  <2>2. [w EXCEPT !.at = a] \in Adding
    BY <1>5, <2>1 DEF Adding
  <2> QED
    BY <1>1, <1>5, <2>1, <2>2
       DEF Sound, Stages, Unsealed, OwnHold, ToCharge, HasBudget, Adding
<1> HIDE DEF w
<1>6. CASE /\ w.op \in {"reserve", "close"} /\ w.at = "lock"
           /\ BudgetLockFree(Owner[w.run])
           /\ Proceed(s, [w EXCEPT !.at = IF w.op = "reserve" THEN "chain" ELSE "write"])
  <2>1. PICK a : a = IF w.op = "reserve" THEN "chain" ELSE "write"
    OBVIOUS
  <2> DEFINE t == [w EXCEPT !.at = a]
  <2>2. Sound(s, t) /\ ~HasHead(t) /\ \A p : HasBudget(t, p) => p = Owner[w.run]
    BY <1>2, <1>3, <1>6, <2>1
  <2>3. Proceed(s, t) /\ UNCHANGED tables
    BY <1>6, <2>1 DEF Lock
  <2> HIDE DEF t
  <2> QED
    BY <1>6, <2>2, <2>3, Reading
<1>7. CASE /\ w.op \in {"settle", "append"} /\ w.at = "lock"
           /\ LedgerLockFree
           /\ Proceed(s, [w EXCEPT !.at = IF w.op = "settle" THEN "hold" ELSE "head"])
  <2>1. PICK a : a = IF w.op = "settle" THEN "hold" ELSE "head"
    OBVIOUS
  <2> DEFINE t == [w EXCEPT !.at = a]
  <2>2. Sound(s, t) /\ \A p : ~HasBudget(t, p)
    BY <1>4, <1>5, <1>7, <2>1
  <2>3. Proceed(s, t) /\ UNCHANGED tables
    BY <1>7, <2>1 DEF Lock
  <2> HIDE DEF t
  <2> QED
    BY <1>7, <2>2, <2>3, Reading
<1> QED
  BY <1>6, <1>7 DEF Lock, w

(* A statement that leaves the transaction without its locks.              *)
LEMMA Finishing ==
  ASSUME SharedInv, NEW s \in Session, Finish(s), UNCHANGED tables
  PROVE  SharedInv'
BY IdleSound, Reading DEF Finish

LEMMA ReadChainSound ==
  ASSUME SharedInv, NEW s \in Session, ReadChain(s) PROVE SharedInv'
<1> DEFINE w == tx[s]
           t == [op |-> "reserve", at |-> "levels", hold |-> w.hold, run |-> w.run,
                 lease |-> w.lease, amount |-> w.amount, enforce |-> w.enforce,
                 left |-> {n \in Store!Ancestors[w.run] : Budget[n] # 0},
                 wouldBlock |-> FALSE]
<1>1. Sound(s, w) /\ w \in Stages /\ w.op = "reserve" /\ w.at = "chain"
  BY DEF SharedInv, Transactions, Sound, ReadChain, Holds
<1>2. w \in Asking
  BY <1>1, StageOf
<1>3. UNCHANGED tables /\ (Finish(s) \/ Proceed(s, t))
  BY DEF ReadChain
<1> HIDE DEF w
<1>4. t.left \in SUBSET Run
  BY <1>2 DEF Asking, Store!Ancestors
<1>5. /\ t \in Checking
      /\ t.op = "reserve" /\ t.at = "levels" /\ t.hold = w.hold /\ t.run = w.run
  BY <1>2, <1>4 DEF Asking, Checking
<1> HIDE DEF t
<1>6. Sound(s, t) /\ ~HasHead(t) /\ \A p : HasBudget(t, p) => HasBudget(w, p)
  BY <1>1, <1>5 DEF Sound, Stages, Unsealed, OwnHold, ToCharge, HasHead, HasBudget
<1> QED
  BY <1>3, <1>6, Reading, Finishing DEF w

(* A decision goes on with another level or with its INSERT.               *)
LEMMA Deciding1 ==
  ASSUME SharedInv, NEW s \in Session, NEW t \in Checking,
         tx[s].op = "reserve", tx[s].at = "levels",
         t.hold = tx[s].hold, t.run = tx[s].run,
         Proceed(s, t), UNCHANGED tables
  PROVE  SharedInv'
<1>1. Sound(s, tx[s])
  BY DEF SharedInv, Transactions
<1>2. t.op = "reserve" /\ t.at \in {"levels", "write"}
  BY DEF Checking
<1>3. Sound(s, t) /\ ~HasHead(t) /\ \A p : HasBudget(t, p) => HasBudget(tx[s], p)
  BY <1>1, <1>2 DEF Sound, Stages, Unsealed, OwnHold, ToCharge, HasHead, HasBudget
<1> QED
  BY <1>3, Reading

LEMMA ReadLevelSound ==
  ASSUME SharedInv, NEW s \in Session, ReadLevel(s) PROVE SharedInv'
<1> DEFINE w == tx[s]
<1>1. w \in Checking /\ w.op = "reserve" /\ w.at = "levels"
  BY StageOf DEF SharedInv, Transactions, Sound, ReadLevel, Holds
<1>2. PICK n, b : /\ b \in BOOLEAN
                  /\ Proceed(s, [w EXCEPT !.left = @ \ {n}, !.wouldBlock = b])
  <2>1. PICK n : Proceed(s, [w EXCEPT !.left = @ \ {n},
                                !.wouldBlock = @ \/ Store!OverBudget(n, w.amount)])
    BY DEF ReadLevel
  <2>2. (w.wouldBlock \/ Store!OverBudget(n, w.amount)) \in BOOLEAN
    BY <1>1 DEF Checking, Store!OverBudget
  <2> QED
    BY <2>1, <2>2
<1>3. UNCHANGED tables
  BY DEF ReadLevel
<1> HIDE DEF w
<1> DEFINE t == [w EXCEPT !.left = @ \ {n}, !.wouldBlock = b]
<1>4. t \in Checking /\ t.hold = w.hold /\ t.run = w.run
  BY <1>1, <1>2 DEF Checking
<1> HIDE DEF t
<1> QED
  BY <1>1, <1>2, <1>3, <1>4, Deciding1 DEF w, t

LEMMA ReadCeilingSound ==
  ASSUME SharedInv, NEW s \in Session, ReadCeiling(s) PROVE SharedInv'
<1> DEFINE w == tx[s]
           t == [w EXCEPT !.at = "write"]
<1>1. w \in Checking /\ w.op = "reserve" /\ w.at = "levels"
  BY StageOf DEF SharedInv, Transactions, Sound, ReadCeiling, Holds
<1>2. UNCHANGED tables /\ (Finish(s) \/ Proceed(s, t))
  BY DEF ReadCeiling
<1> HIDE DEF w
<1>3. t \in Checking /\ t.hold = w.hold /\ t.run = w.run
  BY <1>1 DEF Checking
<1> HIDE DEF t
<1> QED
  BY <1>1, <1>2, <1>3, Deciding1, Finishing DEF w

LEMMA ReadHoldSound ==
  ASSUME SharedInv, NEW s \in Session, ReadHold(s) PROVE SharedInv'
<1> DEFINE w == tx[s]
           h == w.hold
           t == [op |-> "settle", at |-> "head", hold |-> h, run |-> hold[h].run,
                 cost |-> w.cost, status |-> hold[h].status]
<1>1. Sound(s, w) /\ w \in Finding /\ w.op = "settle" /\ w.at = "hold"
  BY StageOf DEF SharedInv, Transactions, Sound, ReadHold, Holds
<1>2. UNCHANGED tables
  BY DEF ReadHold
<1>3. CASE Finish(s)
  BY <1>2, <1>3, Finishing
<1>4. CASE /\ settlement[h] = 0 /\ hold[h].status \in {"pending", "expired"}
           /\ Proceed(s, t)
  <2>1. HasHead(w) /\ h \in Hold /\ w.cost \in Costs
    BY <1>1 DEF HasHead, Finding
  <2> HIDE DEF w
  <2>2. hold[h].run \in Run
    BY <1>4, <2>1, HoldColumns DEF SharedInv, Tables
  <2>3. /\ t \in Charging
        /\ t.op = "settle" /\ t.at = "head" /\ t.hold = h
        /\ t.run = hold[h].run /\ t.status = hold[h].status
    BY <1>4, <2>1, <2>2 DEF Charging
  <2>4. Proceed(s, t)
    BY <1>4
  <2> HIDE DEF t
  <2>5. Sound(s, t) /\ \A p : ~HasBudget(t, p)
    BY <1>1, <1>4, <2>3 DEF Sound, Stages, Unsealed, OwnHold, ToCharge, HasBudget
  <2> QED
    BY <1>2, <2>1, <2>4, <2>5, Reading DEF w
<1> QED
  BY <1>3, <1>4 DEF ReadHold

LEMMA NextRowColumns ==
  ASSUME NEW r, NEW c PROVE /\ NextRow(r, c).run = r /\ NextRow(r, c).cost = c
                            /\ NextRow(r, c).seq = Len(rows) + 1
                            /\ NextRow(r, c).prev = HeadHash(rows)
BY DEF NextRow, Seal

LEMMA ReadHeadSound ==
  ASSUME SharedInv, NEW s \in Session, ReadHead(s) PROVE SharedInv'
<1> DEFINE w == tx[s]
<1>1. /\ Sound(s, w) /\ HasHead(w) /\ w.at = "head"
      /\ \/ w.op = "settle" /\ w \in Charging
         \/ w.op = "append" /\ w \in Adding
  BY StageOf DEF SharedInv, Transactions, Sound, ReadHead, Holds, HasHead
<1>2. UNCHANGED tables
  BY DEF ReadHead
<1>3. PICK row : row = NextRow(w.run, w.cost)
  OBVIOUS
<1>4. CASE w.op = "settle"
  <2> DEFINE t == [op |-> "settle", at |-> "row", hold |-> w.hold, status |-> w.status,
                   row |-> row]
  <2>1. Proceed(s, t)
    BY <1>3, <1>4 DEF ReadHead
  <2> HIDE DEF w
  <2>2. row \in Sealed /\ row.run = w.run
    BY <1>1, <1>3, <1>4, NextRowColumns DEF Sealed, Charging
  <2> HIDE DEF Sealed
  <2>3. /\ t \in Charged
        /\ t.op = "settle" /\ t.at = "row" /\ t.hold = w.hold
        /\ t.status = w.status /\ t.row = row
    BY <1>1, <1>4, <2>2 DEF Charging, Charged
  <2> HIDE DEF t
  <2>4. Sound(s, t) /\ \A p : ~HasBudget(t, p)
    BY <1>1, <1>4, <2>2, <2>3 DEF Sound, Stages, OwnHold, ToCharge, HasBudget
  <2> QED
    BY <1>1, <1>2, <2>1, <2>4, Reading DEF w
<1>5. CASE w.op = "append"
  <2> DEFINE t == [op |-> "append", at |-> "commit", row |-> row]
  <2>1. Proceed(s, t)
    BY <1>3, <1>5 DEF ReadHead
  <2> HIDE DEF w
  <2>2. row \in Sealed
    BY <1>1, <1>3, <1>5 DEF Sealed, Adding
  <2> HIDE DEF Sealed
  <2>3. t \in Added /\ t.op = "append"
    BY <2>2 DEF Added
  <2> HIDE DEF t
  <2>4. Sound(s, t) /\ \A p : ~HasBudget(t, p)
    BY <2>3 DEF Sound, Stages, OwnHold, ToCharge, HasBudget
  <2> QED
    BY <1>1, <1>2, <2>1, <2>4, Reading DEF w
<1> QED
  BY <1>1, <1>4, <1>5

LEMMA UpdateHoldSound ==
  ASSUME SharedInv, NEW s \in Session, UpdateHold(s) PROVE SharedInv'
<1> DEFINE w == tx[s]
           t == [w EXCEPT !.at = "commit"]
<1>1. /\ Sound(s, w) /\ HasHead(w) /\ w.at = "row"
      /\ w.op = "settle" /\ w \in Charged
  BY StageOf DEF SharedInv, Transactions, Sound, UpdateHold, Holds, HasHead
<1>2. UNCHANGED tables /\ Proceed(s, t)
  BY DEF UpdateHold
<1> HIDE DEF w
<1>3. /\ t \in Charged
      /\ t.op = "settle" /\ t.at = "commit" /\ t.hold = w.hold
      /\ t.status = w.status /\ t.row = w.row
  <2> HIDE DEF Sealed
  <2> QED
    BY <1>1 DEF Charged
<1> HIDE DEF t
<1>4. Sound(s, t) /\ \A p : ~HasBudget(t, p)
  BY <1>1, <1>3 DEF Sound, Stages, OwnHold, ToCharge, HasBudget
<1> QED
  BY <1>1, <1>2, <1>4, Reading DEF w
-----------------------------------------------------------------------------
(***************************************************************************)
(* Statements that write.                                                  *)
(***************************************************************************)

(* A write of one session leaves the transactions of the others sound, if  *)
(* it lets a hold one of them is about as it is or lets it expire, and     *)
(* adds to the ledger only when none of them has the head.                 *)
LEMMA Writing ==
  ASSUME SharedInv, Tables',
         tx' = [q \in Session |-> tx'[q]],
         \A q \in Session : tx'[q] = tx[q] \/ tx'[q] = Idle,
         \A q \in Session : tx'[q] = tx[q] => rows' = rows \/ ~HasHead(tx[q]),
         \A q \in Session :
           tx'[q] = tx[q] /\ tx[q].op \in {"reserve", "settle"} =>
             /\ settlement'[tx[q].hold] = settlement[tx[q].hold]
             /\ hold'[tx[q].hold].run = hold[tx[q].hold].run
             /\ \/ hold'[tx[q].hold].status = hold[tx[q].hold].status
                \/ /\ hold[tx[q].hold].status = "pending"
                   /\ hold'[tx[q].hold].status = "expired"
  PROVE  SharedInv'
<1>1. \A q \in Session : Sound(q, tx[q])
  BY DEF SharedInv, Transactions
<1>2. ASSUME NEW q \in Session, NEW t, t = tx'[q] PROVE Sound(q, t)'
  <2>1. CASE t = Idle
    <3>1. Idle \in Stages'
      BY DEF Stages, Unsealed
    <3> QED
      BY <2>1, <3>1 DEF Sound, OwnHold, ToCharge, Idle
  <2>2. CASE t # Idle
    <3>1. t = tx[q]
      BY <1>2, <2>2
    <3>2. t \in Stages'
      <4>1. CASE rows' = rows
        BY <1>1, <3>1, <4>1, StagesKept DEF Sound
      <4>2. CASE ~HasHead(t)
        <5>1. t \in Unsealed
          BY <1>1, <3>1, <4>2, SealedAtHead DEF Sound
        <5> QED
          BY <5>1 DEF Stages
      <4> QED
        BY <1>2, <3>1, <4>1, <4>2
    <3>3. /\ Home[t.hold] = q \/ t.op \notin {"reserve", "settle"}
          /\ OwnHold(q, t) /\ ToCharge(t)
      BY <1>1, <3>1 DEF Sound, OwnHold
    <3>4. t.op \in {"reserve", "settle"} =>
             /\ settlement'[t.hold] = settlement[t.hold]
             /\ hold'[t.hold].run = hold[t.hold].run
             /\ \/ hold'[t.hold].status = hold[t.hold].status
                \/ /\ hold[t.hold].status = "pending"
                   /\ hold'[t.hold].status = "expired"
      BY <1>2, <3>1
    <3>5. OwnHold(q, t)'
      BY <3>3, <3>4 DEF OwnHold
    <3>6. ToCharge(t)'
      BY <3>3, <3>4 DEF ToCharge
    <3> QED
      BY <3>2, <3>5, <3>6 DEF Sound
  <2> QED
    BY <2>1, <2>2
<1>3. (\A q \in Session : Sound(q, tx[q]))'
  <2> SUFFICES ASSUME NEW q \in Session PROVE Sound(q, tx[q])'
    OBVIOUS
  <2>1. PICK t : t = tx'[q]
    OBVIOUS
  <2>2. Sound(q, t)'
    BY <1>2, <2>1
  <2> QED
    BY <2>1, <2>2 DEF Sound, OwnHold, ToCharge
<1>4. \A q \in Session : /\ HasHead(tx'[q]) => HasHead(tx[q])
                         /\ \A p : HasBudget(tx'[q], p) => HasBudget(tx[q], p)
  BY IdleSound
<1>5. OneHead' /\ OneBudget'
  BY <1>4 DEF OneHead, OneBudget, HasHead, HasBudget, SharedInv, Transactions
<1> QED
  BY <1>3, <1>5 DEF SharedInv, Transactions

(* Transactions are about holds of their own.                              *)
LEMMA HoldsApart ==
  ASSUME SharedInv, NEW q \in Session, tx[q].op \in {"reserve", "settle"},
         NEW h \in Hold, Home[h] # q \/ tx[Home[h]] = Idle
  PROVE  tx[q].hold # h
BY DEF SharedInv, Transactions, Sound, OwnHold, Idle

(* The end of a session's transaction.                                     *)
LEMMA Finished ==
  ASSUME SharedInv, NEW s \in Session, Finish(s)
  PROVE  /\ tx' = [q \in Session |-> tx'[q]]
         /\ tx'[s] = Idle
         /\ \A q \in Session \ {s} : tx'[q] = tx[q]
         /\ \A q \in Session : tx'[q] = tx[q] \/ tx'[q] = Idle
BY DEF SharedInv, Transactions, Finish, Proceed

LEMMA CommitHoldSound ==
  ASSUME SharedInv, NEW s \in Session, CommitHold(s) PROVE SharedInv'
<1> DEFINE w == tx[s]
           new == [status |-> "pending", run |-> w.run, lease |-> w.lease,
                   amount |-> w.amount, enforced |-> w.enforce]
<1>1. Sound(s, w) /\ w \in Checking /\ w.op = "reserve" /\ w # Idle
  BY StageOf DEF SharedInv, Transactions, Sound, CommitHold, Holds, Idle
<1>2. hold' = [hold EXCEPT ![w.hold] = new] /\ Finish(s)
  BY DEF CommitHold
<1>3. UNCHANGED <<run, lease, overdue, settlement, rows, lapsed>>
  BY DEF CommitHold
<1> HIDE DEF w
<1>4. new \in Store!HoldRow
  BY <1>1, Money, Requests DEF Checking, Store!HoldRow, Store!HoldStatus
<1> HIDE DEF new
<1>5. w.hold \in Hold /\ Home[w.hold] = s
  BY <1>1 DEF Checking, Sound, OwnHold
<1>6. Tables'
  BY <1>2, <1>3, <1>4, <1>5 DEF SharedInv, Tables, Store!TypeOK, RowSet, Charges
<1>7. /\ tx' = [q \in Session |-> tx'[q]]
      /\ tx'[s] = Idle /\ tx[s] # Idle
      /\ \A q \in Session : tx'[q] = tx[q] \/ tx'[q] = Idle
  BY <1>1, <1>2, Finished DEF w
<1>8. ASSUME NEW q \in Session, tx'[q] = tx[q], tx[q].op \in {"reserve", "settle"}
      PROVE  tx[q].hold # w.hold /\ tx[q].hold \in Hold
  <2>1. q # s
    BY <1>7, <1>8
  <2>2. tx[q].hold \in Hold
    BY <1>8, StageOf
       DEF SharedInv, Transactions, Sound, Asking, Checking, Finding, Charging, Charged
  <2> QED
    BY <1>5, <1>8, <2>1, <2>2, HoldsApart
<1>9. \A h \in Hold \ {w.hold} : hold'[h] = hold[h]
  BY <1>2, <1>5 DEF SharedInv, Tables, Store!TypeOK
<1> QED
  BY <1>3, <1>6, <1>7, <1>8, <1>9, Writing

LEMMA CommitCloseSound ==
  ASSUME SharedInv, NEW s \in Session, CommitClose(s) PROVE SharedInv'
<1>1. run' = [run EXCEPT ![tx[s].run] = "closed"] /\ Finish(s)
  BY DEF CommitClose
<1>2. UNCHANGED <<lease, hold, overdue, settlement, rows, lapsed>>
  BY DEF CommitClose
<1>3. Tables'
  BY <1>1, <1>2 DEF SharedInv, Tables, Store!TypeOK, Store!RunStatus, RowSet, Charges
<1>4. /\ tx' = [q \in Session |-> tx'[q]]
      /\ \A q \in Session : tx'[q] = tx[q] \/ tx'[q] = Idle
  BY <1>1, Finished
<1> QED
  BY <1>2, <1>3, <1>4, Writing

(* The rows of the ledger and of a ledger with one row more.               *)
LEMMA LedgerShape ==
  ASSUME Tables
  PROVE  /\ Len(rows) \in Nat /\ DOMAIN rows = 1 .. Len(rows)
         /\ DOMAIN Charges = DOMAIN rows
         /\ \A i \in DOMAIN rows : Charges[i].run = rows[i].run /\ Charges[i].cost = rows[i].cost
         /\ rows \in Seq(RowSet)
         /\ Len(Charges) = Len(rows)
BY DEF Tables, Charges

LEMMA RowAppended ==
  ASSUME Tables, NEW row \in Sealed, rows' = Append(rows, row)
  PROVE  /\ Len(rows') = Len(rows) + 1
         /\ DOMAIN rows' = 1 .. (Len(rows) + 1)
         /\ \A i \in DOMAIN rows : i \in DOMAIN rows' /\ rows'[i] = rows[i]
         /\ rows'[Len(rows) + 1] = row
         /\ rows' \in Seq(RowSet')
         /\ \A i \in DOMAIN rows' : Columns(rows'[i]) \in RowType /\ rows'[i].cost \in Costs
         /\ Charges' \in Seq(Store!Entry)
<1> DEFINE S == RowSet \cup {row}
           n == Len(rows) + 1
<1>1. rows \in Seq(S) /\ row \in S /\ Len(rows) \in Nat /\ DOMAIN rows = 1 .. Len(rows)
  BY LedgerShape DEF Tables
<1> HIDE DEF S
<1>2. /\ rows' \in Seq(S)
      /\ Len(rows') = n
      /\ DOMAIN rows' = 1 .. n
      /\ \A i \in 1 .. Len(rows) : rows'[i] = rows[i]
      /\ rows'[n] = row
  BY <1>1
<1>3. \A i \in DOMAIN rows : i \in DOMAIN rows' /\ rows'[i] = rows[i]
  BY <1>1, <1>2
<1>4. rows' \in Seq(RowSet')
  <2>1. \A i \in 1 .. n : rows'[i] \in RowSet'
    BY <1>2 DEF RowSet
  <2> QED
    BY <1>2, <2>1
<1>5. Columns(row) \in RowType /\ row.cost \in Costs
  <2>1. PICK r \in Run, c \in Costs : row = NextRow(r, c)
    BY DEF Sealed
  <2>2. c \in Nat /\ n \in Nat /\ (CHOOSE d \in Details : TRUE) \in Details
    BY <1>1, Money
  <2> QED
    BY <2>1, <2>2 DEF NextRow, Seal, Columns, RowType, HashVersionUsage
<1>6. \A i \in DOMAIN rows' : Columns(rows'[i]) \in RowType /\ rows'[i].cost \in Costs
  <2>1. \A i \in DOMAIN rows : Columns(rows[i]) \in RowType /\ rows[i].cost \in Costs
    BY DEF Tables
  <2>2. \A i \in 1 .. n : i \in 1 .. Len(rows) \/ i = n
    BY <1>1
  <2> QED
    BY <1>1, <1>2, <1>5, <2>1, <2>2
<1>7. Charges' \in Seq(Store!Entry)
  <2>1. \A i \in 1 .. n : [run |-> rows'[i].run, cost |-> rows'[i].cost] \in Store!Entry
    BY <1>2, <1>6 DEF Columns, RowType, Store!Entry
  <2>2. Charges' = [i \in 1 .. n |-> [run |-> rows'[i].run, cost |-> rows'[i].cost]]
    BY <1>2 DEF Charges
  <2>3. n \in Nat
    BY <1>1
  <2> QED
    BY <2>1, <2>2, <2>3
<1> QED
  BY <1>2, <1>3, <1>4, <1>6, <1>7

LEMMA CommitRowSound ==
  ASSUME SharedInv, NEW s \in Session, CommitRow(s) PROVE SharedInv'
<1> DEFINE w == tx[s]
<1>1. /\ Sound(s, w) /\ HasHead(w) /\ w.at = "commit" /\ w # Idle
      /\ \/ w.op = "settle" /\ w \in Charged
         \/ w.op = "append" /\ w \in Added
  BY StageOf DEF SharedInv, Transactions, Sound, CommitRow, Holds, HasHead, Idle
<1>2. UNCHANGED <<run, lease, overdue, lapsed>> /\ Finish(s)
  BY DEF CommitRow
<1>3. /\ tx' = [q \in Session |-> tx'[q]]
      /\ tx'[s] = Idle /\ tx[s] # Idle
      /\ \A q \in Session : tx'[q] = tx[q] \/ tx'[q] = Idle
  BY <1>1, <1>2, Finished DEF w
<1>4. ASSUME NEW q \in Session, tx'[q] = tx[q] PROVE ~HasHead(tx[q])
  <2>1. q # s
    BY <1>3, <1>4
  <2> QED
    BY <1>1, <2>1 DEF SharedInv, Transactions, OneHead, w
<1>5. CASE UNCHANGED <<rows, settlement, hold>>
  <2>1. Tables'
    BY <1>2, <1>5 DEF SharedInv, Tables, Store!TypeOK, RowSet, Charges
  <2> QED
    BY <1>3, <1>5, <2>1, Writing
<1>6. CASE /\ rows' = Append(rows, w.row)
           /\ settlement' = IF w.op = "settle"
                            THEN [settlement EXCEPT ![w.hold] = w.row.seq]
                            ELSE settlement
           /\ hold' = IF w.op = "settle" /\ w.status = "pending"
                      THEN [hold EXCEPT ![w.hold].status = "settled"]
                      ELSE hold
  <2>1. w.row \in Sealed
    <3> HIDE DEF Sealed, w
    <3> QED
      BY <1>1 DEF Charged, Added
  <2>2. w.row.seq \in Nat
    BY <2>1, NextRowColumns, LedgerShape DEF SharedInv, Sealed
  <2>3. w.op = "settle" => /\ w.hold \in Hold /\ Home[w.hold] = s
                           /\ hold[w.hold].status # "absent"
    <3> HIDE DEF Sealed, w
    <3> QED
      BY <1>1 DEF Charged, Sound, OwnHold
  <2> HIDE DEF w
  <2>4. settlement' \in [Hold -> Nat]
    BY <1>6, <2>2, <2>3 DEF SharedInv, Tables, Store!TypeOK
  <2>5. hold' \in [Hold -> Store!HoldRow \cup {Store!NoHold}]
    <3>1. w.op = "settle" => [hold[w.hold] EXCEPT !.status = "settled"] \in Store!HoldRow
      BY <2>3, HoldColumns DEF SharedInv, Tables, Store!HoldStatus
    <3>2. hold \in [Hold -> Store!HoldRow \cup {Store!NoHold}]
      BY DEF SharedInv, Tables, Store!TypeOK
    <3> QED
      BY <1>6, <2>3, <3>1, <3>2
  <2>6. Tables'
    BY <1>2, <1>6, <2>1, <2>4, <2>5, RowAppended DEF SharedInv, Tables, Store!TypeOK
  <2>7. ASSUME NEW q \in Session, tx'[q] = tx[q], tx[q].op \in {"reserve", "settle"}
        PROVE  /\ settlement'[tx[q].hold] = settlement[tx[q].hold]
               /\ hold'[tx[q].hold] = hold[tx[q].hold]
    <3>1. q # s
      BY <1>3, <2>7
    <3>2. w.op = "settle" => tx[q].hold # w.hold
      BY <2>3, <2>7, <3>1, HoldsApart
    <3> QED
      BY <1>6, <2>3, <3>2 DEF SharedInv, Tables, Store!TypeOK
  <2> QED
    BY <1>3, <1>4, <2>6, <2>7, Writing
<1> QED
  BY <1>5, <1>6 DEF CommitRow

LEMMA ReleaseSound ==
  ASSUME SharedInv, NEW h \in Hold, ReleaseReservation(h) PROVE SharedInv'
<1>1. /\ hold[h].status = "pending" /\ tx[Home[h]] = Idle
      /\ hold' = [hold EXCEPT ![h].status = "released"]
      /\ UNCHANGED <<run, lease, overdue, settlement, rows, lapsed, tx>>
  BY DEF ReleaseReservation
<1>2. [hold[h] EXCEPT !.status = "released"] \in Store!HoldRow
  BY <1>1, HoldColumns DEF SharedInv, Tables, Store!HoldStatus
<1>3. Tables'
  BY <1>1, <1>2 DEF SharedInv, Tables, Store!TypeOK, RowSet, Charges
<1>4. tx' = [q \in Session |-> tx'[q]] /\ \A q \in Session : tx'[q] = tx[q]
  BY <1>1 DEF SharedInv, Transactions
<1>5. \A q \in Session : tx[q].op \in {"reserve", "settle"} =>
        hold'[tx[q].hold] = hold[tx[q].hold]
  BY <1>1, HoldsApart DEF SharedInv, Tables, Store!TypeOK
<1> QED
  BY <1>1, <1>3, <1>4, <1>5, Writing

LEMMA TtlSound ==
  ASSUME SharedInv, NEW h \in Hold, TtlPasses(h) PROVE SharedInv'
<1>1. /\ overdue' = overdue \cup {h}
      /\ UNCHANGED <<run, lease, hold, settlement, rows, lapsed, tx>>
  BY DEF TtlPasses
<1>2. Tables'
  BY <1>1 DEF SharedInv, Tables, Store!TypeOK, RowSet, Charges
<1>3. tx' = [q \in Session |-> tx'[q]] /\ \A q \in Session : tx'[q] = tx[q]
  BY <1>1 DEF SharedInv, Transactions
<1> QED
  BY <1>1, <1>2, <1>3, Writing

LEMMA ExpireSound ==
  ASSUME SharedInv, NEW s \in Session, ExpirePendingReservations(s) PROVE SharedInv'
<1> DEFINE due == {h \in overdue : hold[h].status = "pending"}
<1>1. /\ hold' = [h \in Hold |-> IF h \in due THEN [hold[h] EXCEPT !.status = "expired"]
                                 ELSE hold[h]]
      /\ lapsed' = lapsed \cup due
      /\ UNCHANGED <<run, lease, overdue, settlement, rows, tx>>
  BY DEF ExpirePendingReservations
<1>2. ASSUME NEW h \in due PROVE /\ h \in Hold
                                 /\ [hold[h] EXCEPT !.status = "expired"] \in Store!HoldRow
  BY HoldColumns DEF SharedInv, Tables, Store!TypeOK, Store!HoldStatus
<1>3. Tables'
  BY <1>1, <1>2 DEF SharedInv, Tables, Store!TypeOK, RowSet, Charges
<1>4. tx' = [q \in Session |-> tx'[q]] /\ \A q \in Session : tx'[q] = tx[q]
  BY <1>1 DEF SharedInv, Transactions
<1>5. ASSUME NEW h \in Hold
      PROVE  /\ hold'[h].run = hold[h].run
             /\ \/ hold'[h].status = hold[h].status
                \/ hold[h].status = "pending" /\ hold'[h].status = "expired"
  <2>1. CASE h \in due
    BY <1>1, <2>1, HoldColumns DEF SharedInv, Tables, Store!HoldStatus
  <2>2. CASE h \notin due
    BY <1>1, <2>2
  <2> QED
    BY <2>1, <2>2
<1>6. \A q \in Session : tx[q].op \in {"reserve", "settle"} => tx[q].hold \in Hold
  BY StageOf DEF SharedInv, Transactions, Sound, Asking, Checking, Finding, Charging, Charged
<1> QED
  BY <1>1, <1>3, <1>4, <1>5, <1>6, Writing
-----------------------------------------------------------------------------

(* An entry of the old format, if there is one, is the first.              *)
LEMMA FirstRows ==
  ASSUME Init
  PROVE  /\ rows \in Seq(RowSet) /\ Charges \in Seq(Store!Entry)
         /\ Len(rows) \in {0, 1} /\ DOMAIN rows = 1 .. Len(rows)
         /\ \A i \in DOMAIN rows :
              /\ i = 1
              /\ \E r \in Run : rows[i] = LegacyRow(r)
              /\ Columns(rows[i]) \in RowType
              /\ rows[i].cost \in Costs
<1>1. CASE rows = << >>
  <2>1. DOMAIN rows = {} /\ Len(rows) = 0 /\ DOMAIN rows = 1 .. 0
    BY <1>1
  <2>2. Charges = << >>
    BY <1>1 DEF Charges
  <2> QED
    BY <1>1, <2>1, <2>2
<1>2. CASE \E r \in LegacyRuns : rows = <<LegacyRow(r)>>
  <2>1. PICK r \in Run : rows = <<LegacyRow(r)>>
    BY <1>2, Requests
  <2>2. PICK row : row = LegacyRow(r)
    OBVIOUS
  <2>3. Len(rows) = 1 /\ DOMAIN rows = 1 .. 1 /\ rows[1] = row /\ rows = <<row>>
    BY <2>1, <2>2
  <2>4. rows \in Seq(RowSet)
    <3>1. row \in RowSet
      BY <2>3 DEF RowSet
    <3> QED
      BY <2>3, <3>1
  <2>5. Columns(row) \in RowType /\ row.cost \in Costs /\ row.run = r
    <3>1. (CHOOSE c \in Costs : TRUE) \in Costs /\ (CHOOSE d \in Details : TRUE) \in Details
      BY Money
    <3> QED
      BY <2>2, <3>1, Money DEF LegacyRow, Seal, Columns, RowType, HashVersionLegacy
  <2>6. Charges = [i \in 1 .. 1 |-> [run |-> r, cost |-> row.cost]]
    BY <2>3, <2>5 DEF Charges
  <2>7. Charges \in Seq(Store!Entry)
    <3>1. [run |-> r, cost |-> row.cost] \in Store!Entry
      BY <2>5, Money DEF Store!Entry
    <3> QED
      BY <2>6, <3>1
  <2> QED
    BY <2>2, <2>3, <2>4, <2>5, <2>7
<1> QED
  BY <1>1, <1>2 DEF Init

LEMMA SharedInit == Init => SharedInv
<1> SUFFICES ASSUME Init PROVE SharedInv
  OBVIOUS
<1>1. Store!TypeOK
  BY FirstRows
     DEF Init, Store!TypeOK, Store!RunStatus, Store!LeaseStatus, Store!HoldRow, Store!NoHold
<1>2. Tables
  BY <1>1, FirstRows DEF Tables, Init
<1>3. \A s \in Session : tx[s] = Idle
  BY DEF Init
<1>4. Transactions
  BY <1>3, IdleSound DEF Transactions, OneHead, OneBudget, Init
<1> QED
  BY <1>2, <1>4 DEF SharedInv

LEMMA SharedStep ==
  ASSUME SharedInv, [Next]_vars PROVE SharedInv'
<1>1. ASSUME NEW s \in Session, Statement(s) PROVE SharedInv'
  BY <1>1, ReadChainSound, ReadLevelSound, ReadCeilingSound, CommitHoldSound, CommitCloseSound,
     ReadHoldSound, ReadHeadSound, UpdateHoldSound, CommitRowSound DEF Statement
<1>2. ASSUME NEW s \in Session, Abort(s) PROVE SharedInv'
  BY <1>2, Finishing DEF Abort
<1>3. CASE UNCHANGED vars
  <2>1. Tables'
    BY <1>3 DEF vars, tables, SharedInv, Tables, Store!TypeOK, RowSet, Charges
  <2>2. Stages' = Stages
    BY <1>3, StagesKept DEF vars, tables
  <2>3. Transactions'
    BY <1>3, <2>2
       DEF vars, tables, SharedInv, Transactions, Sound, OwnHold, ToCharge, OneHead, OneBudget,
           HasHead, HasBudget
  <2> QED
    BY <2>1, <2>3 DEF SharedInv
<1>4. CASE Next
  BY <1>1, <1>2, <1>4, BeginSound, LockSound, ExpireSound, ReleaseSound, TtlSound DEF Next
<1> QED
  BY <1>3, <1>4

(* At any moment the transactions of all replicas are at a statement of    *)
(* theirs, about holds of their own, and alone under the locks they have.  *)
THEOREM TransactionsAreSound == Spec => []SharedInv
<1>1. SharedInv /\ [Next]_vars => SharedInv'
  BY SharedStep
<1> QED
  BY <1>1, SharedInit, PTL DEF Spec

(* The tables keep the shape the schema gives them, for every number of    *)
(* replicas, and a transaction is one of the four.                         *)
THEOREM PostgresTypes == Spec => []TypeOK
<1>1. SharedInv => TypeOK
  BY StageOf DEF SharedInv, Tables, Transactions, Sound, TypeOK
<1> QED
  BY <1>1, TransactionsAreSound, PTL
-----------------------------------------------------------------------------
(***************************************************************************)
(* The hash chain.                                                         *)
(***************************************************************************)

(* A commit appends a row made for the head, the row of a settlement that  *)
(* charges a hold not charged before or that of a charge without a hold;   *)
(* its INSERT does not fail.                                               *)
LEMMA RowCommitted ==
  ASSUME SharedInv, NEW s \in Session, CommitRow(s)
  PROVE  /\ tx[s].row \in Sealed
         /\ rows' = Append(rows, tx[s].row)
         /\ \/ tx[s].op = "append" /\ settlement' = settlement /\ hold' = hold
            \/ /\ tx[s].op = "settle" /\ tx[s].hold \in Hold
               /\ tx[s].status \in {"pending", "expired"}
               /\ settlement[tx[s].hold] = 0
               /\ hold[tx[s].hold].status \in {"pending", "expired"}
               /\ tx[s].status = "expired" => hold[tx[s].hold].status = "expired"
               /\ tx[s].row.run = hold[tx[s].hold].run
               /\ settlement' = [settlement EXCEPT ![tx[s].hold] = Len(rows) + 1]
               /\ hold' = IF tx[s].status = "pending"
                          THEN [hold EXCEPT ![tx[s].hold].status = "settled"]
                          ELSE hold
<1> DEFINE w == tx[s]
<1>1. /\ Sound(s, w) /\ w.at = "commit"
      /\ \/ w.op = "settle" /\ w \in Charged
         \/ w.op = "append" /\ w \in Added
  BY StageOf DEF SharedInv, Transactions, Sound, CommitRow, Holds
<1>2. IF w.row.seq = Len(rows) + 1
      THEN /\ rows' = Append(rows, w.row)
           /\ settlement' = IF w.op = "settle"
                            THEN [settlement EXCEPT ![w.hold] = w.row.seq]
                            ELSE settlement
           /\ hold' = IF w.op = "settle" /\ w.status = "pending"
                      THEN [hold EXCEPT ![w.hold].status = "settled"]
                      ELSE hold
      ELSE UNCHANGED <<rows, settlement, hold>>
  BY <1>1 DEF CommitRow
<1> HIDE DEF w
<1>3. /\ w.row \in Sealed
      /\ w.op = "settle" => w.hold \in Hold /\ w.status \in {"pending", "expired"}
  <2> HIDE DEF Sealed
  <2> QED
    BY <1>1 DEF Charged, Added
<1>4. w.row.seq = Len(rows) + 1
  BY <1>3, NextRowColumns DEF Sealed
<1>5. w.op = "settle" =>
        /\ settlement[w.hold] = 0
        /\ hold[w.hold].status \in {"pending", "expired"}
        /\ w.status = "expired" => hold[w.hold].status = "expired"
        /\ w.row.run = hold[w.hold].run
  BY <1>1 DEF Sound, ToCharge
<1> QED
  BY <1>1, <1>2, <1>3, <1>4, <1>5 DEF w

(* No other step touches the ledger.                                       *)
LEMMA LedgerSteps ==
  ASSUME [Next]_vars
  PROVE  \/ rows' = rows /\ settlement' = settlement
         \/ \E s \in Session : CommitRow(s)
BY DEF Next, Statement, Begin, Lock, Abort, ExpirePendingReservations, ReleaseReservation,
       TtlPasses, ReadChain, ReadLevel, ReadCeiling, CommitHold, CommitClose, ReadHold,
       ReadHead, UpdateHold, tables, vars

(* A row is one that Seal made, onto the hash of the row before it.        *)
Chained ==
  \A i \in DOMAIN rows :
    /\ rows[i] = Seal(rows[i], rows[i].prev)
    /\ rows[i].seq = i
    /\ rows[i].version \in {HashVersionLegacy, HashVersionUsage}
    /\ rows[i].prev = PrevHash(rows, i)

LEMMA SealedChains ==
  ASSUME NEW e, NEW prev
  PROVE  LET row == Seal(e, prev) IN row = Seal(row, row.prev) /\ row.prev = prev
<1>1. PICK row : row = Seal(e, prev)
  OBVIOUS
<1>2. /\ row.seq = e.seq /\ row.run = e.run /\ row.cost = e.cost
      /\ row.version = e.version /\ row.detail = e.detail /\ row.prev = prev
  BY <1>1 DEF Seal
<1>3. ComputeHash(row, prev) = ComputeHash(e, prev)
  BY <1>2 DEF ComputeHash
<1>4. Seal(row, row.prev) = row
  BY <1>1, <1>2, <1>3 DEF Seal
<1> QED
  BY <1>1, <1>2, <1>4

LEMMA ChainedInit == Init => Chained
<1> SUFFICES ASSUME Init, NEW i \in DOMAIN rows
             PROVE  /\ rows[i] = Seal(rows[i], rows[i].prev)
                    /\ rows[i].seq = i
                    /\ rows[i].version \in {HashVersionLegacy, HashVersionUsage}
                    /\ rows[i].prev = PrevHash(rows, i)
  BY DEF Chained
<1>1. PICK r \in Run : rows[i] = LegacyRow(r) /\ i = 1
  BY FirstRows
<1>2. rows[i].seq = 1 /\ rows[i].version = HashVersionLegacy /\ rows[i].prev = GenesisHash
  BY <1>1 DEF LegacyRow, Seal
<1>3. rows[i] = Seal(rows[i], rows[i].prev)
  BY <1>1, SealedChains DEF LegacyRow
<1> QED
  BY <1>1, <1>2, <1>3 DEF PrevHash

LEMMA ChainedStep ==
  ASSUME SharedInv, Chained, [Next]_vars PROVE Chained'
<1>1. CASE rows' = rows
  BY <1>1 DEF Chained, PrevHash
<1>2. ASSUME NEW s \in Session, tx[s].row \in Sealed, rows' = Append(rows, tx[s].row)
      PROVE  Chained'
  <2>1. PICK r \in Run, c \in Costs : tx[s].row = NextRow(r, c)
    BY <1>2 DEF Sealed
  <2>2. PICK row : row = NextRow(r, c)
    OBVIOUS
  <2>3. /\ row = Seal(row, row.prev) /\ row.seq = Len(rows) + 1
        /\ row.version = HashVersionUsage /\ row.prev = PrevHash(rows, Len(rows) + 1)
    <3>1. row = Seal(row, row.prev)
      BY <2>2, SealedChains DEF NextRow
    <3>2. row.seq = Len(rows) + 1 /\ row.version = HashVersionUsage
      BY <2>2 DEF NextRow, Seal
    <3> QED
      BY <2>2, <3>1, <3>2, NextRowColumns DEF HeadHash
  <2>4. /\ DOMAIN rows' = 1 .. (Len(rows) + 1)
        /\ \A i \in DOMAIN rows : rows'[i] = rows[i]
        /\ rows'[Len(rows) + 1] = row
    BY <1>2, <2>1, <2>2, RowAppended DEF SharedInv
  <2>5. Len(rows) \in Nat /\ DOMAIN rows = 1 .. Len(rows)
    BY LedgerShape DEF SharedInv
  <2>6. \A i \in DOMAIN rows' : PrevHash(rows', i) = PrevHash(rows, i)
    <3> SUFFICES ASSUME NEW i \in DOMAIN rows' PROVE PrevHash(rows', i) = PrevHash(rows, i)
      OBVIOUS
    <3>1. CASE i = 1
      BY <3>1 DEF PrevHash
    <3>2. CASE i # 1
      <4>1. i - 1 \in DOMAIN rows
        BY <2>4, <2>5, <3>2
      <4> QED
        BY <2>4, <3>2, <4>1 DEF PrevHash
    <3> QED
      BY <3>1, <3>2
  <2>7. ASSUME NEW i \in DOMAIN rows'
        PROVE  /\ rows'[i] = Seal(rows'[i], rows'[i].prev)
               /\ rows'[i].seq = i
               /\ rows'[i].version \in {HashVersionLegacy, HashVersionUsage}
               /\ rows'[i].prev = PrevHash(rows', i)
    <3>1. CASE i \in DOMAIN rows
      BY <2>4, <2>6, <3>1 DEF Chained
    <3>2. CASE i = Len(rows) + 1
      BY <2>3, <2>4, <2>6, <3>2
    <3> QED
      BY <2>4, <2>5, <3>1, <3>2
  <2> QED
    BY <2>7 DEF Chained
<1> QED
  BY <1>1, <1>2, LedgerSteps, RowCommitted

LEMMA RowsAreChained == Spec => []Chained
<1>1. SharedInv /\ Chained /\ [Next]_vars => Chained'
  BY ChainedStep
<1> QED
  BY <1>1, ChainedInit, TransactionsAreSound, PTL DEF Spec

(* Whichever replicas append, the ledger verifies from the first row to    *)
(* the last, and its numbers have no gap.                                  *)
THEOREM LedgerVerifies == Spec => []ChainVerifies
<1>1. Chained => ChainVerifies
  <2> SUFFICES ASSUME Chained, NEW i \in DOMAIN rows
               PROVE  Linked(rows, i) /\ rows[i].seq = i
    BY DEF ChainVerifies, VerifyChain
  <2>1. rows[i] = Seal(rows[i], rows[i].prev) /\ rows[i].prev = PrevHash(rows, i)
    BY DEF Chained
  <2>2. rows[i].hash = ComputeHash(rows[i], rows[i].prev)
    <3>1. PICK row : row = rows[i]
      OBVIOUS
    <3>2. Seal(row, row.prev).hash = ComputeHash(row, row.prev)
      BY DEF Seal
    <3> QED
      BY <2>1, <3>1, <3>2
  <2> QED
    BY <2>1, <2>2 DEF Chained, Linked
<1> QED
  BY <1>1, RowsAreChained, PTL

(* A row is inserted after the head it was sealed onto: under the lock no  *)
(* other replica's row comes between.                                      *)
THEOREM RowsAreSealedOntoHead == Spec => []SealedOntoHead
<1>1. SharedInv => SealedOntoHead
  <2> SUFFICES ASSUME SharedInv, NEW s \in Session, "row" \in DOMAIN tx[s]
               PROVE  tx[s].row.seq = Len(rows) + 1 /\ tx[s].row.prev = HeadHash(rows)
    BY DEF SealedOntoHead
  <2>1. tx[s] \notin Unsealed
    BY DEF Unsealed, Idle, Asking, Checking, Finding, Charging, Adding, Shutting
  <2>2. tx[s] \in Charged \cup Added
    BY <2>1 DEF SharedInv, Transactions, Sound, Stages
  <2>3. tx[s].row \in Sealed
    <3> HIDE DEF Sealed
    <3> QED
      BY <2>2 DEF Charged, Added
  <2> QED
    BY <2>3, NextRowColumns DEF Sealed
<1> QED
  BY <1>1, TransactionsAreSound, PTL
(* What a digest covers: two rows with one digest have the same number,    *)
(* run, cost, format and predecessor, and the same detail unless they are  *)
(* of the old format.                                                      *)
LEMMA HashCovers ==
  ASSUME NEW e, NEW f, NEW p, NEW q,
         e.version \in {1, 2}, f.version \in {1, 2},
         ComputeHash(e, p) = ComputeHash(f, q)
  PROVE  /\ e.seq = f.seq /\ e.run = f.run /\ e.cost = f.cost /\ p = q
         /\ e.version = f.version
         /\ e.version = 2 => e.detail = f.detail
<1>1. CASE e.version = 2 /\ f.version = 2
  BY <1>1 DEF ComputeHash, HashVersionUsage
<1>2. CASE e.version = 1 /\ f.version = 1
  BY <1>2 DEF ComputeHash, HashVersionUsage
<1>3. CASE e.version # f.version
  <2>1. <<e.seq, e.run, e.cost, e.version, e.detail, p>> # <<f.seq, f.run, f.cost, q>>
    OBVIOUS
  <2>2. <<f.seq, f.run, f.cost, f.version, f.detail, q>> # <<e.seq, e.run, e.cost, p>>
    OBVIOUS
  <2> QED
    BY <1>3, <2>1, <2>2 DEF ComputeHash, HashVersionUsage
<1> QED
  BY <1>1, <1>2, <1>3

(* A digest names its row's number, so it is not that of the row before.   *)
LEMMA DigestsDiffer ==
  ASSUME Tables, Chained, NEW i \in DOMAIN rows
  PROVE  rows[i].hash # PrevHash(rows, i)
<1>1. ASSUME NEW j \in DOMAIN rows
      PROVE  rows[j].hash # GenesisHash /\ rows[j].hash[1] = j
  <2>1. PICK row : row = rows[j]
    OBVIOUS
  <2>2. row = Seal(row, row.prev) /\ row.seq = j /\ row.version \in {1, 2}
    BY <2>1 DEF Chained, HashVersionLegacy, HashVersionUsage
  <2>3. row.hash = ComputeHash(row, row.prev)
    <3>1. Seal(row, row.prev).hash = ComputeHash(row, row.prev)
      BY DEF Seal
    <3> QED
      BY <2>2, <3>1
  <2>4. ComputeHash(row, row.prev)[1] = j /\ ComputeHash(row, row.prev) # << >>
    <3>1. CASE row.version = 2
      BY <2>2, <3>1 DEF ComputeHash, HashVersionUsage
    <3>2. CASE row.version = 1
      BY <2>2, <3>2 DEF ComputeHash, HashVersionUsage
    <3> QED
      BY <2>2, <3>1, <3>2
  <2> QED
    BY <2>1, <2>3, <2>4 DEF GenesisHash
<1>2. CASE i = 1
  BY <1>1, <1>2 DEF PrevHash
<1>3. CASE i # 1
  <2>1. i - 1 \in DOMAIN rows /\ i \in Nat
    BY <1>3, LedgerShape
  <2>2. rows[i - 1].hash[1] = i - 1 /\ rows[i].hash[1] = i
    BY <1>1, <2>1
  <2> QED
    BY <1>3, <2>1, <2>2 DEF PrevHash
<1> QED
  BY <1>2, <1>3

(* A row edited in any column its digest covers no longer matches it.      *)
LEMMA EditShows ==
  ASSUME Tables, Chained, NEW i \in DOMAIN rows, NEW e,
         e.prev = rows[i].prev, e.hash = rows[i].hash, e.version \in {1, 2},
         \/ e.seq # rows[i].seq \/ e.run # rows[i].run \/ e.cost # rows[i].cost
         \/ e.version # rows[i].version
         \/ rows[i].version = 2 /\ e.detail # rows[i].detail
  PROVE  ~VerifyChain([rows EXCEPT ![i] = e])
<1> SUFFICES ASSUME VerifyChain([rows EXCEPT ![i] = e]) PROVE FALSE
  OBVIOUS
<1>1. PICK altered : altered = [rows EXCEPT ![i] = e]
  OBVIOUS
<1>2. i \in DOMAIN altered /\ altered[i] = e
  BY <1>1, LedgerShape
<1>3. Linked(altered, i)
  BY <1>1, <1>2 DEF VerifyChain
<1>4. e.hash = ComputeHash(e, e.prev)
  BY <1>2, <1>3 DEF Linked
<1>5. PICK row : row = rows[i]
  OBVIOUS
<1>6. row = Seal(row, row.prev) /\ row.version \in {1, 2}
  BY <1>5 DEF Chained, HashVersionLegacy, HashVersionUsage
<1>7. row.hash = ComputeHash(row, row.prev)
  <2>1. Seal(row, row.prev).hash = ComputeHash(row, row.prev)
    BY DEF Seal
  <2> QED
    BY <1>6, <2>1
<1>8. ComputeHash(row, row.prev) = ComputeHash(e, e.prev)
  BY <1>4, <1>5, <1>7
<1> QED
  BY <1>5, <1>6, <1>8, HashCovers

(* A chain whose row at i is linked where row i is, is the chain itself.   *)
LEMMA NextIsNotHere ==
  ASSUME Tables, Chained, NEW i \in 1 .. Len(rows) - 1, NEW altered,
         i \in DOMAIN altered, altered[i] = rows[i + 1],
         i # 1 => altered[i - 1] = rows[i - 1]
  PROVE  ~VerifyChain(altered)
<1>1. i \in DOMAIN rows /\ i + 1 \in DOMAIN rows /\ i + 1 # 1 /\ (i + 1) - 1 = i
  BY LedgerShape
<1>2. rows[i + 1].prev = rows[i].hash
  BY <1>1 DEF Chained, PrevHash
<1>3. PrevHash(altered, i) = PrevHash(rows, i)
  BY DEF PrevHash
<1> QED
  BY <1>1, <1>2, <1>3, DigestsDiffer DEF VerifyChain, Linked

(* A change behind the ledger's back shows when the chain is verified.     *)
THEOREM TamperingShows == Spec => []TamperEvident
<1>1. Tables /\ Chained => TamperEvident
  <2> SUFFICES ASSUME Tables, Chained PROVE TamperEvident
    OBVIOUS
  <2>1. ASSUME NEW i \in DOMAIN rows, NEW altered \in AlteredRows(i)
        PROVE  ~VerifyChain(altered)
    <3>1. PICK row : row = rows[i]
      OBVIOUS
    <3>2. row = Seal(row, row.prev) /\ row.version \in {1, 2} /\ row.seq = i
      BY <3>1 DEF Chained, HashVersionLegacy, HashVersionUsage
    <3>3. row.cost \in Nat
      BY <3>1, Money DEF Tables
    <3> DEFINE Differs(e) ==
                 /\ e.prev = row.prev /\ e.hash = row.hash /\ e.version \in {1, 2}
                 /\ \/ e.seq # row.seq \/ e.run # row.run \/ e.cost # row.cost
                    \/ e.version # row.version
                    \/ row.version = 2 /\ e.detail # row.detail
    <3>4. ASSUME NEW e, Differs(e) PROVE ~VerifyChain([rows EXCEPT ![i] = e])
      BY <3>1, <3>4, EditShows
    <3>5. CASE altered = Edited(rows, i, "cost", row.cost + 1)
      <4>1. row.cost + 1 # row.cost
        BY <3>3
      <4>2. Differs([row EXCEPT !["cost"] = row.cost + 1])
        BY <3>2, <4>1 DEF Seal
      <4> QED
        BY <3>1, <3>4, <3>5, <4>2 DEF Edited
    <3>6. ASSUME NEW r \in Run \ {row.run}, altered = Edited(rows, i, "run", r)
          PROVE  ~VerifyChain(altered)
      <4>1. Differs([row EXCEPT !["run"] = r])
        BY <3>2 DEF Seal
      <4> QED
        BY <3>1, <3>4, <3>6, <4>1 DEF Edited
    <3>7. ASSUME NEW v \in {1, 2} \ {row.version}, altered = Edited(rows, i, "version", v)
          PROVE  ~VerifyChain(altered)
      <4>1. Differs([row EXCEPT !["version"] = v])
        BY <3>2 DEF Seal
      <4> QED
        BY <3>1, <3>4, <3>7, <4>1 DEF Edited
    <3>8. ASSUME NEW n \in DOMAIN rows \ {i}, altered = Edited(rows, i, "seq", n)
          PROVE  ~VerifyChain(altered)
      <4>1. Differs([row EXCEPT !["seq"] = n])
        BY <3>2 DEF Seal
      <4> QED
        BY <3>1, <3>4, <3>8, <4>1 DEF Edited
    <3>9. ASSUME row.version # HashVersionLegacy, NEW d \in Details \ {row.detail},
                 altered = Edited(rows, i, "detail", d)
          PROVE  ~VerifyChain(altered)
      <4>1. row.version = 2
        BY <3>2, <3>9 DEF HashVersionLegacy
      <4>2. Differs([row EXCEPT !["detail"] = d])
        BY <3>2, <4>1 DEF Seal
      <4> QED
        BY <3>1, <3>4, <3>9, <4>2 DEF Edited
    <3> QED
      BY <3>1, <3>5, <3>6, <3>7, <3>8, <3>9 DEF AlteredRows
  <2>2. ASSUME NEW i \in 1 .. Len(rows) - 1 PROVE ~VerifyChain(Dropped(rows, i))
    <3>1. PICK altered : altered = Dropped(rows, i)
      OBVIOUS
    <3>2. /\ i \in DOMAIN altered /\ altered[i] = rows[i + 1]
          /\ i # 1 => altered[i - 1] = rows[i - 1]
      BY <3>1, LedgerShape DEF Dropped
    <3> QED
      BY <3>1, <3>2, NextIsNotHere
  <2>3. ASSUME NEW i \in 1 .. Len(rows) - 1 PROVE ~VerifyChain(Exchanged(rows, i))
    <3>1. PICK altered : altered = Exchanged(rows, i)
      OBVIOUS
    <3>2. /\ i \in DOMAIN altered /\ altered[i] = rows[i + 1]
          /\ i # 1 => altered[i - 1] = rows[i - 1]
      BY <3>1, LedgerShape DEF Exchanged
    <3> QED
      BY <3>1, <3>2, NextIsNotHere
  <2> QED
    BY <2>1, <2>2, <2>3 DEF TamperEvident
<1>2. SharedInv => Tables
  BY DEF SharedInv
<1> QED
  BY <1>1, <1>2, TransactionsAreSound, RowsAreChained, PTL
-----------------------------------------------------------------------------
(***************************************************************************)
(* Settlements and the log of what was spent.                              *)
(***************************************************************************)

LEMMA IntegrityInit == Init => SettlementIntegrity
BY DEF Init, SettlementIntegrity, Store!SettlementIntegrity, Store!NoHold

LEMMA IntegrityStep ==
  ASSUME SharedInv, SettlementIntegrity, [Next]_vars
  PROVE  SettlementIntegrity'
<1> USE DEF SettlementIntegrity, Store!SettlementIntegrity
<1>1. DOMAIN Charges = DOMAIN rows
  BY DEF Charges
<1>2. ASSUME rows' = rows, settlement' = settlement,
             \A h \in Hold : \/ hold'[h] = hold[h]
                             \/ /\ hold[h].status \notin {"settled", "expired"}
                                /\ hold'[h].status # "settled"
      PROVE  SettlementIntegrity'
  <2>1. Charges' = Charges
    BY <1>2 DEF Charges
  <2>2. \A h \in Hold : settlement[h] # 0 => hold'[h] = hold[h]
    BY <1>2
  <2> QED
    BY <1>2, <2>1, <2>2
<1>3. ASSUME NEW s \in Session, CommitHold(s) PROVE SettlementIntegrity'
  <2>1. /\ tx[s].hold \in Hold /\ hold[tx[s].hold].status = "absent"
    BY <1>3, StageOf
       DEF SharedInv, Transactions, Sound, OwnHold, CommitHold, Holds, Checking
  <2>2. /\ hold'[tx[s].hold].status = "pending"
        /\ \A h \in Hold \ {tx[s].hold} : hold'[h] = hold[h]
    BY <1>3, <2>1 DEF CommitHold, SharedInv, Tables, Store!TypeOK
  <2>3. rows' = rows /\ settlement' = settlement
    BY <1>3 DEF CommitHold
  <2> HIDE DEF SettlementIntegrity
  <2> QED
    BY <1>2, <2>1, <2>2, <2>3
<1>4. ASSUME NEW h \in Hold, ReleaseReservation(h) PROVE SettlementIntegrity'
  <2>1. /\ hold[h].status = "pending"
        /\ hold'[h].status = "released"
        /\ \A g \in Hold \ {h} : hold'[g] = hold[g]
    BY <1>4, HoldColumns
       DEF ReleaseReservation, SharedInv, Tables, Store!TypeOK, Store!HoldStatus
  <2>2. rows' = rows /\ settlement' = settlement
    BY <1>4 DEF ReleaseReservation
  <2> HIDE DEF SettlementIntegrity
  <2> QED
    BY <1>2, <2>1, <2>2
<1>5. ASSUME NEW s \in Session, ExpirePendingReservations(s) PROVE SettlementIntegrity'
  <2>1. \A h \in Hold : \/ hold'[h] = hold[h]
                        \/ hold[h].status = "pending" /\ hold'[h].status = "expired"
    BY <1>5, HoldColumns
       DEF ExpirePendingReservations, SharedInv, Tables, Store!TypeOK, Store!HoldStatus
  <2>2. rows' = rows /\ settlement' = settlement
    BY <1>5 DEF ExpirePendingReservations
  <2> HIDE DEF SettlementIntegrity
  <2> QED
    BY <1>2, <2>1, <2>2
<1>6. ASSUME NEW s \in Session, tx[s].row \in Sealed, rows' = Append(rows, tx[s].row)
      PROVE  /\ \A i \in DOMAIN rows : i \in DOMAIN rows' /\ Charges'[i] = Charges[i]
             /\ Len(rows) + 1 \in DOMAIN rows' /\ Len(rows) + 1 \notin DOMAIN rows
             /\ Len(rows) + 1 # 0
             /\ Charges'[Len(rows) + 1].run = tx[s].row.run
             /\ DOMAIN Charges' = DOMAIN rows'
  <2>1. PICK row : row = tx[s].row
    OBVIOUS
  <2>2. /\ DOMAIN rows' = 1 .. (Len(rows) + 1)
        /\ \A i \in DOMAIN rows : i \in DOMAIN rows' /\ rows'[i] = rows[i]
        /\ rows'[Len(rows) + 1] = row
    BY <1>6, <2>1, RowAppended DEF SharedInv
  <2>3. Len(rows) \in Nat /\ DOMAIN rows = 1 .. Len(rows)
    BY LedgerShape DEF SharedInv
  <2> QED
    BY <2>1, <2>2, <2>3 DEF Charges
<1>7. ASSUME NEW s \in Session, CommitRow(s), tx[s].row \in Sealed,
             rows' = Append(rows, tx[s].row),
             settlement' = settlement, hold' = hold
      PROVE  SettlementIntegrity'
  BY <1>1, <1>6, <1>7
<1>8. ASSUME NEW s \in Session, tx[s].row \in Sealed,
             rows' = Append(rows, tx[s].row),
             NEW h \in Hold, tx[s].hold = h,
             tx[s].status \in {"pending", "expired"},
             settlement[h] = 0,
             hold[h].status \in {"pending", "expired"},
             tx[s].status = "expired" => hold[h].status = "expired",
             tx[s].row.run = hold[h].run,
             settlement' = [settlement EXCEPT ![h] = Len(rows) + 1],
             hold' = IF tx[s].status = "pending"
                     THEN [hold EXCEPT ![h].status = "settled"]
                     ELSE hold
      PROVE  SettlementIntegrity'
  <2>1. /\ settlement'[h] = Len(rows) + 1
        /\ \A g \in Hold \ {h} : settlement'[g] = settlement[g]
    BY <1>8 DEF SharedInv, Tables, Store!TypeOK
  <2>2. /\ hold'[h].status \in {"settled", "expired"}
        /\ hold'[h].run = hold[h].run
        /\ \A g \in Hold \ {h} : hold'[g] = hold[g]
    <3>1. CASE tx[s].status = "pending"
      BY <1>8, <3>1, HoldColumns DEF SharedInv, Tables, Store!TypeOK, Store!HoldStatus
    <3>2. CASE tx[s].status = "expired"
      BY <1>8, <3>2
    <3> QED
      BY <1>8, <3>1, <3>2
  <2>3. /\ \A i \in DOMAIN rows : i \in DOMAIN rows' /\ Charges'[i] = Charges[i]
        /\ Len(rows) + 1 \in DOMAIN rows' /\ Len(rows) + 1 \notin DOMAIN rows
        /\ Len(rows) + 1 # 0
        /\ Charges'[Len(rows) + 1].run = hold[h].run
        /\ DOMAIN Charges' = DOMAIN rows'
    BY <1>6, <1>8
  <2> QED
    BY <1>1, <2>1, <2>2, <2>3
<1>9. CASE UNCHANGED <<hold, rows, settlement>>
  <2> HIDE DEF SettlementIntegrity
  <2> QED
    BY <1>2, <1>9
<1>10. \/ UNCHANGED <<hold, rows, settlement>>
       \/ \E s \in Session : CommitHold(s) \/ CommitRow(s) \/ ExpirePendingReservations(s)
       \/ \E h \in Hold : ReleaseReservation(h)
  BY DEF Next, Statement, Begin, Lock, Abort, TtlPasses, ReadChain, ReadLevel, ReadCeiling,
         CommitClose, ReadHold, ReadHead, UpdateHold, tables, vars
<1> HIDE DEF SettlementIntegrity
<1>11. ASSUME NEW s \in Session, CommitRow(s) PROVE SettlementIntegrity'
  BY <1>7, <1>8, <1>11, RowCommitted
<1> QED
  BY <1>3, <1>4, <1>5, <1>9, <1>10, <1>11

(* The hold, its settlement row and its entry agree, also when a sweep of  *)
(* another replica falls between the statements of the settlement.         *)
THEOREM SharedSettlementsAreSound == Spec => []SettlementIntegrity
<1>1. SharedInv /\ SettlementIntegrity /\ [Next]_vars => SettlementIntegrity'
  BY IntegrityStep
<1> QED
  BY <1>1, IntegrityInit, TransactionsAreSound, PTL DEF Spec

(* A sequence with one element more at its end.                            *)
LEMMA AppendIs ==
  ASSUME NEW T, NEW l \in Seq(T), NEW x \in T, NEW m \in Seq(T),
         Len(m) = Len(l) + 1, \A i \in 1 .. Len(l) : m[i] = l[i],
         m[Len(l) + 1] = x
  PROVE  m = Append(l, x)
OBVIOUS

Log == [i \in DOMAIN rows |-> [charge |-> Charges[i], hold |-> ChargedHold(i)]]

(* The log grows by the charge of the new row, with the hold it settled.   *)
LEMMA LogAppended ==
  ASSUME SharedInv, SettlementIntegrity, NEW s \in Session, CommitRow(s),
         NEW H, H = {h \in Hold : settlement'[h] = Len(rows) + 1},
         \A i \in DOMAIN rows : ChargedHold(i)' = ChargedHold(i)
  PROVE  \E e \in [run : Run, cost : Costs] :
            /\ e.run = tx[s].row.run
            /\ Log' = Append(Log, [charge |-> e, hold |-> H])
<1>1. PICK row : row = tx[s].row
  OBVIOUS
<1>2. row \in Sealed /\ rows' = Append(rows, row)
  BY <1>1, RowCommitted
<1>3. /\ DOMAIN rows' = 1 .. (Len(rows) + 1)
      /\ \A i \in DOMAIN rows : i \in DOMAIN rows' /\ rows'[i] = rows[i]
      /\ rows'[Len(rows) + 1] = row
  BY <1>2, RowAppended DEF SharedInv
<1>4. Len(rows) \in Nat /\ DOMAIN rows = 1 .. Len(rows)
  BY LedgerShape DEF SharedInv
<1>5. row.run \in Run /\ row.cost \in Costs
  BY <1>2, NextRowColumns DEF Sealed
<1> DEFINE e == [run |-> row.run, cost |-> row.cost]
           x == [charge |-> e, hold |-> H]
<1>6. PICK n : n = Len(rows)
  OBVIOUS
<1>7. PICK l, m : l = Log /\ m = Log'
  OBVIOUS
<1>8. /\ DOMAIN l = 1 .. n /\ DOMAIN m = 1 .. (n + 1) /\ n \in Nat
      /\ l = [i \in 1 .. n |-> l[i]] /\ m = [i \in 1 .. n + 1 |-> m[i]]
      /\ \A i \in 1 .. n : m[i] = l[i]
      /\ m[n + 1] = x
  <2>1. \A i \in 1 .. n : Charges'[i] = Charges[i]
    BY <1>3, <1>4, <1>6 DEF Charges
  <2>2. Charges'[n + 1] = e
    BY <1>3, <1>4, <1>6 DEF Charges
  <2>3. \A i \in 1 .. n : m[i] = l[i]
    BY <1>3, <1>4, <1>6, <1>7, <2>1 DEF Log
  <2>4. m[n + 1] = x
    <3>1. n + 1 \in DOMAIN rows'
      BY <1>3, <1>4, <1>6
    <3>2. Log'[n + 1] = [charge |-> Charges'[n + 1],
                         hold |-> {h \in Hold : settlement'[h] = n + 1}]
      BY <3>1 DEF Log, ChargedHold
    <3> QED
      BY <1>6, <1>7, <2>2, <3>2
  <2> QED
    BY <1>3, <1>4, <1>6, <1>7, <2>3, <2>4 DEF Log
<1> DEFINE T == {m[i] : i \in 1 .. n + 1}
<1> HIDE DEF x
<1>9. l \in Seq(T) /\ m \in Seq(T) /\ x \in T /\ Len(l) = n /\ Len(m) = n + 1
  <2>1. \A i \in 1 .. n + 1 : m[i] \in T
    OBVIOUS
  <2>2. \A i \in 1 .. n : i \in 1 .. n + 1
    BY <1>8
  <2>3. x \in T
    <3>1. n + 1 \in 1 .. n + 1
      BY <1>8
    <3> QED
      BY <1>8, <3>1
  <2> HIDE DEF T
  <2>4. \A i \in 1 .. n : l[i] \in T
    BY <1>8, <2>1, <2>2
  <2>5. n \in Nat /\ n + 1 \in Nat
    BY <1>8
  <2>6. l \in Seq(T) /\ Len(l) = n
    BY <1>8, <2>4, <2>5
  <2>7. m \in Seq(T) /\ Len(m) = n + 1
    BY <1>8, <2>1, <2>5
  <2> QED
    BY <2>3, <2>6, <2>7
<1> HIDE DEF T
<1>10. m = Append(l, x)
  BY <1>8, <1>9, AppendIs
<1>11. e \in [run : Run, cost : Costs] /\ e.run = row.run
  BY <1>5
<1> QED
  BY <1>1, <1>7, <1>10, <1>11 DEF x
LEMMA LogGrows ==
  ASSUME SharedInv, SettlementIntegrity, [Next]_vars
  PROVE  SpendLog!Next \/ Log' = Log
<1>1. \A i \in DOMAIN rows : i # 0 /\ i # Len(rows) + 1
  BY LedgerShape DEF SharedInv
<1>2. /\ Len(rows) \in Nat /\ Len(rows) + 1 # 0 /\ DOMAIN Charges = DOMAIN rows
      /\ Len(rows) + 1 \notin DOMAIN rows
  BY LedgerShape DEF SharedInv
<1>3. \A h \in Hold : settlement[h] # 0 => settlement[h] \in DOMAIN rows
  BY <1>2 DEF SettlementIntegrity, Store!SettlementIntegrity
<1>4. ASSUME NEW s \in Session, CommitRow(s), settlement' = settlement
      PROVE  SpendLog!Next
  <2>1. \A i \in DOMAIN rows : ChargedHold(i)' = ChargedHold(i)
    BY <1>4 DEF ChargedHold
  <2>2. PICK H : H = {h \in Hold : settlement'[h] = Len(rows) + 1}
    OBVIOUS
  <2>3. H = {}
    BY <1>2, <1>3, <1>4, <2>2
  <2>4. \E e \in [run : Run, cost : Costs] : Log' = Append(Log, [charge |-> e, hold |-> H])
    BY <1>4, <2>1, <2>2, LogAppended
  <2> QED
    BY <2>3, <2>4 DEF SpendLog!Next, SpendLog!AppendLedger, SpendLog!Entry, Log
<1>5. ASSUME NEW s \in Session, CommitRow(s), NEW h \in Hold, settlement[h] = 0,
             settlement' = [settlement EXCEPT ![h] = Len(rows) + 1]
      PROVE  SpendLog!Next
  <2>1. settlement'[h] = Len(rows) + 1 /\ \A g \in Hold \ {h} : settlement'[g] = settlement[g]
    BY <1>5 DEF SharedInv, Tables, Store!TypeOK
  <2>2. \A i \in DOMAIN rows : ChargedHold(i)' = ChargedHold(i)
    BY <1>1, <1>5, <2>1 DEF ChargedHold
  <2>3. PICK H : H = {g \in Hold : settlement'[g] = Len(rows) + 1}
    OBVIOUS
  <2>4. H = {h}
    BY <1>2, <1>3, <2>1, <2>3
  <2>5. \E e \in [run : Run, cost : Costs] : Log' = Append(Log, [charge |-> e, hold |-> H])
    BY <1>5, <2>2, <2>3, LogAppended
  <2>6. ~SpendLog!Charged({h})
    <3>1. \A i \in DOMAIN rows : h \notin ChargedHold(i)
      BY <1>1, <1>5 DEF ChargedHold
    <3>2. DOMAIN Log = DOMAIN rows /\ \A i \in DOMAIN rows : Log[i].hold = ChargedHold(i)
      BY DEF Log
    <3>3. SpendLog!Charged({h}) <=> \E i \in DOMAIN Log : Log[i].hold = {h}
      BY DEF SpendLog!Charged, Log
    <3> QED
      BY <3>1, <3>2, <3>3
  <2>7. \E e \in [run : Run, cost : Costs] : SpendLog!SettleReservation({h}, e)
    BY <2>4, <2>5, <2>6 DEF SpendLog!SettleReservation, SpendLog!Entry, Log
  <2> QED
    BY <2>7 DEF SpendLog!Next
<1>6. ASSUME NEW s \in Session, CommitRow(s) PROVE SpendLog!Next
  BY <1>4, <1>5, <1>6, RowCommitted
<1>7. CASE rows' = rows /\ settlement' = settlement
  BY <1>7 DEF Log, Charges, ChargedHold
<1> QED
  BY <1>6, <1>7, LedgerSteps

(* However the statements of the replicas interleave, together they keep   *)
(* one log that grows at its end and charges each reservation once.        *)
THEOREM ReplicasKeepOneLog == Spec => KeepsSpendLog
<1>1. Init => SpendLog!Init
  <2> SUFFICES ASSUME Init PROVE SpendLog!Init
    OBVIOUS
  <2>1. \A i \in DOMAIN rows : i = 1 /\ rows[i].cost \in Costs /\ rows[i].run \in Run
    BY FirstRows DEF Columns, RowType
  <2>2. \A i \in DOMAIN rows : ChargedHold(i) = {}
    BY <2>1 DEF Init, ChargedHold
  <2>3. \A i \in DOMAIN rows : Charges[i] \in [run : Run, cost : Costs]
    BY <2>1 DEF Charges
  <2> QED
    BY <2>2, <2>3 DEF SpendLog!Init, SpendLog!Entry
<1>2. SharedInv /\ SettlementIntegrity /\ [Next]_vars
        => [SpendLog!Next]_[i \in DOMAIN rows |-> [charge |-> Charges[i], hold |-> ChargedHold(i)]]
  BY LogGrows DEF Log
<1> QED
  BY <1>1, <1>2, TransactionsAreSound, SharedSettlementsAreSound, PTL
     DEF Spec, KeepsSpendLog, SpendLog!Spec
-----------------------------------------------------------------------------
(***************************************************************************)
(* Decisions, from the first statement of a TryReserve to its COMMIT.      *)
(***************************************************************************)

(* The assumptions the theorems about BudgetStore rest on hold here.       *)
LEMMA StoreAssumptions == Enf!RowIdentities /\ Enf!RowValues /\ Enf!Money
<1>1. Enf!IsFiniteSet(Hold)
  BY RowIdentities DEF Enf!IsFiniteSet, IsFiniteSet
<1> QED
  BY <1>1, RowIdentities, RowValues, Money DEF Enf!RowIdentities, Enf!RowValues, Enf!Money

LEMMA Hierarchy ==
  ASSUME NEW n \in Run, NEW r \in Run
  PROVE  r \in Store!Subtree[n] <=> n \in Store!Ancestors[r]
<1>1. /\ Enf!Subtree[n] = Store!Subtree[n]
      /\ Enf!Ancestors[r] = Store!Ancestors[r]
  BY DEF Enf!Subtree, Store!Subtree, Enf!Ancestors, Store!Ancestors,
         Enf!ClosedUpward, Store!ClosedUpward, Enf!ClosedDownward, Store!ClosedDownward
<1> QED
  BY <1>1, StoreAssumptions, Enf!SubtreeAncestors

(* The lock on one principal covers the ancestry of each of its runs.      *)
LEMMA OneOwner ==
  ASSUME NEW r \in Run, NEW a \in Store!Ancestors[r]
  PROVE  a \in Run /\ Owner[a] = Owner[r]
<1> DEFINE S == {x \in Run : Owner[x] = Owner[r]}
<1>1. Store!ClosedUpward(S)
  BY RowValues, RowIdentities DEF Store!ClosedUpward
<1>2. S \in SUBSET Run /\ r \in S
  OBVIOUS
<1>3. \A T \in SUBSET Run : r \in T /\ Store!ClosedUpward(T) => a \in T
  BY DEF Store!Ancestors
<1> HIDE DEF S
<1>4. a \in S
  BY <1>1, <1>2, <1>3
<1> QED
  BY <1>4 DEF S

(* A decision in progress: it has read its ancestry, and has not committed. *)
InProgress(t) == t.op = "reserve" /\ t.at \in {"levels", "write"}

(* What the statements of a decision make of its transaction w.            *)
ChainRead(t) ==
  /\ UNCHANGED tables
  /\ Store!AncestryActive(t.run)
  /\ t.at = "levels"
  /\ t.left = {n \in Store!Ancestors[t.run] : Budget[n] # 0}

SameRequest(w, t) ==
  /\ InProgress(w)
  /\ t.run = w.run /\ t.amount = w.amount /\ t.enforce = w.enforce

LevelRead(w, t) ==
  /\ UNCHANGED tables
  /\ SameRequest(w, t) /\ t.at = "levels"
  /\ \E n : /\ t.left = w.left \ {n}
            /\ t.wouldBlock <=> w.wouldBlock \/ Store!OverBudget(n, t.amount)

CeilingRead(w, t) ==
  /\ UNCHANGED tables
  /\ SameRequest(w, t) /\ t.at = "write"
  /\ t.left = {} /\ w.left = {}
  /\ t.wouldBlock <=> w.wouldBlock
  /\ t.enforce => ~t.wouldBlock

(* What a step may make of a session's transaction, if that is a decision  *)
(* in progress then: nothing, or what the next statement of it found.      *)
LEMMA DecisionMoves ==
  ASSUME SharedInv, Next, NEW q \in Session, NEW t, t = tx'[q], InProgress(t)
  PROVE  /\ t.run \in Run /\ t.amount \in Nat /\ t.left \in SUBSET Run
         /\ t = tx[q] \/ ChainRead(t) \/ LevelRead(tx[q], t) \/ CeilingRead(tx[q], t)
<1> DEFINE w == tx[q]
           Typed == t.run \in Run /\ t.amount \in Nat /\ t.left \in SUBSET Run
<1>1. \A s \in Session : Sound(s, tx[s]) /\ tx[s] \in Stages
  BY DEF SharedInv, Transactions, Sound
<1>2. Typed
  <2>1. SharedInv'
    BY SharedStep
  <2>2. t \in Stages'
    BY <2>1 DEF SharedInv, Transactions, Sound
  <2>3. t \in Stages' => t \in Checking
    <3>1. t \notin Charged' /\ t \notin Added'
      <4> HIDE DEF Sealed
      <4> QED
        BY DEF InProgress, Charged, Added
    <3>2. t \in Unsealed => t \in Checking
      BY DEF InProgress, Unsealed, Idle, Asking, Finding, Charging, Adding, Shutting
    <3> QED
      BY <3>1, <3>2 DEF Stages
  <2> QED
    BY <2>2, <2>3, Money DEF Checking
<1>3. t # Idle
  BY DEF InProgress, Idle
<1>4. ASSUME NEW s \in Session, NEW u, Proceed(s, u) PROVE t = u \/ t = w
  BY <1>4 DEF Proceed, SharedInv, Transactions
<1>5. ASSUME NEW s \in Session, NEW u, Proceed(s, u), ~InProgress(u) PROVE t = w
  BY <1>4, <1>5
<1>6. ASSUME NEW s \in Session, Begin(s) PROVE t = w
  <2>1. PICK u : u.at = "lock" /\ Proceed(s, u)
    BY <1>6 DEF Begin, Reserving, Settling, Appending, Closing
  <2> QED
    BY <1>5, <2>1 DEF InProgress
<1>7. ASSUME NEW s \in Session, Finish(s) PROVE t = w
  BY <1>5, <1>7 DEF Finish, InProgress, Idle
<1>8. ASSUME NEW s \in Session, Lock(s) PROVE t = w
  <2>1. PICK a : /\ Proceed(s, [tx[s] EXCEPT !.at = a])
                 /\ tx[s].op = "reserve" => a = "chain"
    BY <1>8 DEF Lock
  <2>2. tx[s].op # "none" /\ tx[s].at = "lock"
    BY <1>1, <1>8, StageOf DEF Lock
  <2>3. tx[s] \in Asking \cup Finding \cup Adding \cup Shutting
    BY <1>1, <2>2, StageOf
  <2>4. /\ [tx[s] EXCEPT !.at = a].op = tx[s].op
        /\ [tx[s] EXCEPT !.at = a].at = a
    BY <2>3 DEF Asking, Finding, Adding, Shutting
  <2> QED
    BY <1>5, <2>1, <2>4 DEF InProgress
<1>9. ASSUME NEW s \in Session, ReadHold(s) \/ ReadHead(s) \/ UpdateHold(s) PROVE t = w
  <2>1. UpdateHold(s) => [tx[s] EXCEPT !.at = "commit"].op # "reserve"
    <3>1. UpdateHold(s) => tx[s] \in Charged
      BY <1>1, StageOf DEF UpdateHold, Holds
    <3> HIDE DEF Sealed
    <3> QED
      BY <3>1 DEF Charged
  <2>2. Finish(s) \/ \E u : u.op # "reserve" /\ Proceed(s, u)
    BY <1>9, <2>1 DEF ReadHold, ReadHead, UpdateHold, Holds
  <2> QED
    BY <1>5, <1>7, <2>2 DEF InProgress
<1>10. ASSUME NEW s \in Session, ReadChain(s), t # w PROVE ChainRead(t)
  <2>1. ~Finish(s) /\ UNCHANGED tables
    BY <1>7, <1>10 DEF ReadChain
  <2>2. PICK u : /\ Proceed(s, u) /\ u.at = "levels" /\ u.run = tx[s].run
                 /\ Store!AncestryActive(tx[s].run)
                 /\ u.left = {n \in Store!Ancestors[tx[s].run] : Budget[n] # 0}
    BY <1>10, <2>1 DEF ReadChain
  <2>3. t = u
    BY <1>4, <1>10, <2>2
  <2> QED
    BY <2>1, <2>2, <2>3 DEF ChainRead
<1>11. ASSUME NEW s \in Session, ReadLevel(s), t # w PROVE LevelRead(w, t)
  <2>1. PICK n, b : /\ b = (tx[s].wouldBlock \/ Store!OverBudget(n, tx[s].amount))
                    /\ Proceed(s, [tx[s] EXCEPT !.left = @ \ {n}, !.wouldBlock = b])
    BY <1>11 DEF ReadLevel
  <2>2. s = q
    BY <1>11, <2>1 DEF Proceed, SharedInv, Transactions
  <2>3. w \in Checking /\ InProgress(w) /\ w.at = "levels"
    BY <1>1, <1>11, <2>2, StageOf DEF ReadLevel, Holds, InProgress
  <2>4. t = [w EXCEPT !.left = @ \ {n}, !.wouldBlock = b]
    BY <1>4, <1>11, <2>1, <2>2
  <2>5. b <=> w.wouldBlock \/ Store!OverBudget(n, w.amount)
    BY <2>1, <2>2
  <2> HIDE DEF w
  <2>6. /\ t.left = w.left \ {n} /\ t.wouldBlock = b /\ t.at = "levels"
        /\ t.run = w.run /\ t.amount = w.amount /\ t.enforce = w.enforce
    BY <2>3, <2>4 DEF Checking
  <2>7. t.wouldBlock <=> w.wouldBlock \/ Store!OverBudget(n, t.amount)
    BY <2>5, <2>6
  <2> QED
    BY <1>11, <2>3, <2>6, <2>7 DEF ReadLevel, LevelRead, SameRequest
<1>12. ASSUME NEW s \in Session, ReadCeiling(s), t # w PROVE CeilingRead(w, t)
  <2>1. /\ tx[s].enforce => ~tx[s].wouldBlock
        /\ Proceed(s, [tx[s] EXCEPT !.at = "write"])
    BY <1>7, <1>12 DEF ReadCeiling
  <2>2. s = q
    BY <1>12, <2>1 DEF Proceed, SharedInv, Transactions
  <2>3. w \in Checking /\ InProgress(w) /\ w.left = {} /\ UNCHANGED tables
    BY <1>1, <1>12, <2>2, StageOf DEF ReadCeiling, Holds, InProgress
  <2>4. t = [w EXCEPT !.at = "write"] /\ (w.enforce => ~w.wouldBlock)
    BY <1>4, <1>12, <2>1, <2>2
  <2> HIDE DEF w
  <2>5. /\ t.left = w.left /\ t.wouldBlock = w.wouldBlock /\ t.at = "write"
        /\ t.run = w.run /\ t.amount = w.amount /\ t.enforce = w.enforce
    BY <2>3, <2>4 DEF Checking
  <2> QED
    BY <2>3, <2>4, <2>5 DEF CeilingRead, SameRequest
<1>13. ASSUME NEW s \in Session, Abort(s) \/ CommitHold(s) \/ CommitRow(s) \/ CommitClose(s)
       PROVE  t = w
  BY <1>7, <1>13 DEF Abort, CommitHold, CommitRow, CommitClose
<1>14. CASE tx' = tx
  BY <1>2, <1>14
<1>15. \/ tx' = tx
       \/ \E s \in Session : Begin(s) \/ Lock(s) \/ Statement(s) \/ Abort(s)
  BY DEF Next, ExpirePendingReservations, ReleaseReservation, TtlPasses
<1> QED
  BY <1>2, <1>6, <1>8, <1>9, <1>10, <1>11, <1>12, <1>13, <1>14, <1>15, Zenon DEF Statement

(* A decision that has read the ancestry finds it active to the end: who   *)
(* wants to close a run of it waits for the lock.                          *)
DecisionsOnActive ==
  \A s \in Session : InProgress(tx[s]) => Store!AncestryActive(tx[s].run)

LEMMA StatusesKept ==
  ASSUME SharedInv, DecisionsOnActive, Next
  PROVE  DecisionsOnActive'
<1> SUFFICES ASSUME NEW q \in Session, NEW t, t = tx'[q], InProgress(t),
                    NEW a \in Store!Ancestors[t.run]
             PROVE  run'[a] = "active"
  BY DEF DecisionsOnActive, InProgress, Store!AncestryActive
<1>1. t.run \in Run /\ \/ t = tx[q]
                       \/ run' = run /\ Store!AncestryActive(t.run)
                       \/ run' = run /\ InProgress(tx[q]) /\ t.run = tx[q].run
  BY DecisionMoves DEF ChainRead, LevelRead, CeilingRead, SameRequest, tables
<1>2. run[a] = "active"
  BY <1>1 DEF DecisionsOnActive, Store!AncestryActive
<1>3. CASE run' = run
  BY <1>2, <1>3
<1>4. ASSUME NEW s \in Session, CommitClose(s) PROVE run'[a] = "active"
  <2>1. /\ run' = [run EXCEPT ![tx[s].run] = "closed"]
        /\ tx'[s] = Idle
    BY <1>4 DEF CommitClose, Finish, Proceed, SharedInv, Transactions
  <2>2. CASE t = tx[q]
    <3>1. s # q
      BY <2>1 DEF InProgress, Idle
    <3>2. HasBudget(tx[s], Owner[tx[s].run]) /\ HasBudget(tx[q], Owner[tx[q].run])
      BY <1>4, <2>2 DEF CommitClose, Holds, HasBudget, InProgress
    <3>3. a \in Run /\ Owner[a] = Owner[tx[q].run]
      BY <1>1, <2>2, OneOwner
    <3>4. a # tx[s].run
      BY <3>1, <3>2, <3>3 DEF SharedInv, Transactions, OneBudget
    <3> QED
      BY <1>2, <2>1, <3>3, <3>4 DEF SharedInv, Tables, Store!TypeOK
  <2> QED
    BY <1>1, <1>3, <2>2
<1>5. run' = run \/ \E s \in Session : CommitClose(s)
  BY DEF Next, Statement, Begin, Lock, Abort, ExpirePendingReservations, ReleaseReservation,
         TtlPasses, ReadChain, ReadLevel, ReadCeiling, CommitHold, ReadHold, ReadHead,
         UpdateHold, CommitRow, tables
<1> QED
  BY <1>3, <1>4, <1>5

LEMMA DecisionsStayOnActive == Spec => []DecisionsOnActive
<1>1. Init => DecisionsOnActive
  BY DEF Init, DecisionsOnActive, InProgress, Idle
<1>2. SharedInv /\ DecisionsOnActive /\ [Next]_vars => DecisionsOnActive'
  <2>1. DecisionsOnActive /\ UNCHANGED vars => DecisionsOnActive'
    BY DEF vars, tables, DecisionsOnActive, InProgress, Store!AncestryActive
  <2> QED
    BY <2>1, StatusesKept
<1> QED
  BY <1>1, <1>2, TransactionsAreSound, PTL DEF Spec

(* Nothing starts below a closed run, whichever replica closes it and      *)
(* whichever is in the middle of a decision.                               *)
THEOREM SharedClosedRunsStayShut == Spec => ClosedRunsAdmitNothing
<1>1. SharedInv /\ DecisionsOnActive /\ [Next]_vars => [Store!NothingStartsBelowClosed]_vars
  <2> SUFFICES ASSUME SharedInv, DecisionsOnActive, Next, NEW n \in Run, run[n] = "closed"
               PROVE  /\ Store!PendingIn(n)' \subseteq Store!PendingIn(n)
                      /\ Store!LeasesIn(n)' \subseteq Store!LeasesIn(n)
    BY DEF Store!NothingStartsBelowClosed
  <2>1. Store!LeasesIn(n)' \subseteq Store!LeasesIn(n)
    <3>1. lease' = lease
      BY DEF Next, Statement, Begin, Lock, Abort, ExpirePendingReservations,
             ReleaseReservation, TtlPasses, ReadChain, ReadLevel, ReadCeiling, CommitHold,
             CommitClose, ReadHold, ReadHead, UpdateHold, CommitRow, tables
    <3> QED
      BY <3>1 DEF Store!LeasesIn
  <2>2. ASSUME \A h \in Hold : hold'[h].status = "pending" => hold'[h] = hold[h]
        PROVE  Store!PendingIn(n)' \subseteq Store!PendingIn(n)
    BY <2>2 DEF Store!PendingIn
  <2>3. ASSUME NEW s \in Session, CommitHold(s)
        PROVE  Store!PendingIn(n)' \subseteq Store!PendingIn(n)
    <3>1. /\ tx[s] \in Checking /\ tx[s].op = "reserve" /\ tx[s].at = "write"
      BY <2>3, StageOf DEF SharedInv, Transactions, Sound, CommitHold, Holds
    <3>2. tx[s].hold \in Hold /\ tx[s].run \in Run
      BY <3>1 DEF Checking
    <3>3. tx[s].run \notin Store!Subtree[n]
      BY <3>1, <3>2, Hierarchy DEF DecisionsOnActive, InProgress, Store!AncestryActive
    <3>4. /\ hold'[tx[s].hold].run = tx[s].run
          /\ \A h \in Hold \ {tx[s].hold} : hold'[h] = hold[h]
      BY <2>3, <3>2 DEF CommitHold, SharedInv, Tables, Store!TypeOK
    <3> QED
      BY <3>3, <3>4 DEF Store!PendingIn
  <2>4. ASSUME NEW s \in Session, CommitRow(s)
        PROVE  \A h \in Hold : hold'[h].status = "pending" => hold'[h] = hold[h]
    <3>1. CASE hold' = hold
      BY <3>1
    <3>2. CASE /\ tx[s].hold \in Hold /\ hold[tx[s].hold].status \in {"pending", "expired"}
               /\ hold' = [hold EXCEPT ![tx[s].hold].status = "settled"]
      BY <3>2, HoldColumns DEF SharedInv, Tables, Store!TypeOK, Store!HoldStatus
    <3> QED
      BY <2>4, <3>1, <3>2, RowCommitted
  <2>5. ASSUME NEW g \in Hold, ReleaseReservation(g)
        PROVE  \A h \in Hold : hold'[h].status = "pending" => hold'[h] = hold[h]
    BY <2>5, HoldColumns
       DEF ReleaseReservation, SharedInv, Tables, Store!TypeOK, Store!HoldStatus
  <2>6. ASSUME NEW s \in Session, ExpirePendingReservations(s)
        PROVE  \A h \in Hold : hold'[h].status = "pending" => hold'[h] = hold[h]
    BY <2>6, HoldColumns DEF ExpirePendingReservations, SharedInv, Tables, Store!HoldStatus
  <2>7. \/ hold' = hold
        \/ \E s \in Session : CommitHold(s) \/ CommitRow(s) \/ ExpirePendingReservations(s)
        \/ \E g \in Hold : ReleaseReservation(g)
    BY DEF Next, Statement, Begin, Lock, Abort, TtlPasses, ReadChain, ReadLevel, ReadCeiling,
           CommitClose, ReadHold, ReadHead, UpdateHold, tables
  <2> QED
    BY <2>1, <2>2, <2>3, <2>4, <2>5, <2>6, <2>7
<1> QED
  BY <1>1, TransactionsAreSound, DecisionsStayOnActive, PTL DEF Spec, ClosedRunsAdmitNothing
-----------------------------------------------------------------------------
(***************************************************************************)
(* Budgets.                                                                *)
(***************************************************************************)

(* The sums of the datastore's queries are the sums of Totals.             *)
LEMMA SameSums ==
  \A S, f : Enf!Total(S, f) = Total(S, f) /\ Store!Total(S, f) = Total(S, f)
<1>1. \A S : Enf!Cardinality(S) = Cardinality(S) /\ Store!Cardinality(S) = Cardinality(S)
  BY DEF Enf!Cardinality, Store!Cardinality, Cardinality
<1>2. \A S, f : Enf!Units(S, f) = Units(S, f) /\ Store!Units(S, f) = Units(S, f)
  BY DEF Enf!Units, Store!Units, Units
<1> QED
  BY <1>1, <1>2 DEF Enf!Total, Store!Total, Total

(* The holds of EnforcedWithinBudget, and what they answer for.            *)
Admitted(n) == Store!CoveredIn(n) \ lapsed
Answered(n) == Total(Admitted(n), Store!Covered)

(* Money admitted in enforce mode is part of what the queries of a         *)
(* decision count.                                                         *)
LEMMA StoreFacts ==
  ASSUME Store!TypeOK, SettlementIntegrity
  PROVE  /\ \A h \in Hold : /\ Store!Covered[h] \in Nat
                            /\ hold[h].amount \in Nat
                            /\ Store!Covered[h] <= hold[h].amount
         /\ \A n \in Run :
              /\ Store!Spent(n) \in Nat /\ Store!Held(n) \in Nat
              /\ Total(Store!CoveredIn(n), Store!Covered) \in Nat
              /\ Total(Store!CoveredIn(n), Store!Covered) <= Store!Spent(n) + Store!Held(n)
<1>1. Enf!TypeOK
  BY DEF Enf!TypeOK, Store!TypeOK, Enf!RunStatus, Store!RunStatus, Enf!LeaseStatus,
         Store!LeaseStatus, Enf!HoldRow, Store!HoldRow, Enf!HoldStatus, Store!HoldStatus,
         Enf!NoHold, Store!NoHold, Enf!Entry, Store!Entry
<1>2. Enf!SettlementIntegrity
  BY DEF Enf!SettlementIntegrity, SettlementIntegrity, Store!SettlementIntegrity
<1>3. Enf!Covered = Store!Covered
  BY DEF Enf!Covered, Store!Covered, Enf!LesserOf, Store!LesserOf
<1>4. \A n \in Run : Enf!Subtree[n] = Store!Subtree[n]
  BY DEF Enf!Subtree, Store!Subtree, Enf!ClosedDownward, Store!ClosedDownward
<1>5. ASSUME NEW n \in Run
      PROVE  /\ Enf!CoveredIn(n) = Store!CoveredIn(n)
             /\ Enf!PendingIn(n) = Store!PendingIn(n)
             /\ Enf!EntriesIn(n) = Store!EntriesIn(n)
  BY <1>4 DEF Enf!CoveredIn, Store!CoveredIn, Enf!CoveredHolds, Store!CoveredHolds,
              Enf!PendingIn, Store!PendingIn, Enf!EntriesIn, Store!EntriesIn
<1>6. Enf!Amount = Store!Amount /\ Enf!Cost = Store!Cost
  BY DEF Enf!Amount, Store!Amount, Enf!Cost, Store!Cost
<1>7. ASSUME NEW n \in Run
      PROVE  /\ Store!Spent(n) \in Nat /\ Store!Held(n) \in Nat
             /\ Total(Store!CoveredIn(n), Store!Covered) \in Nat
             /\ Total(Store!CoveredIn(n), Store!Covered) <= Store!Spent(n) + Store!Held(n)
  <2>1. /\ Enf!Spent(n) \in Nat /\ Enf!Held(n) \in Nat
        /\ Enf!Total(Enf!CoveredIn(n), Enf!Covered) \in Nat
        /\ Enf!Total(Enf!CoveredIn(n), Enf!Covered) <= Enf!Spent(n) + Enf!Held(n)
    BY <1>1, <1>2, StoreAssumptions, Enf!CoveredInBalance
  <2>2. Enf!Total(Enf!CoveredIn(n), Enf!Covered) = Total(Store!CoveredIn(n), Store!Covered)
    BY <1>3, <1>5, SameSums
  <2>3. Enf!Spent(n) = Store!Spent(n)
    BY <1>5, <1>6, SameSums DEF Enf!Spent, Store!Spent
  <2>4. Enf!Held(n) = Store!Held(n)
    BY <1>5, <1>6, SameSums DEF Enf!Held, Store!Held
  <2> QED
    BY <2>1, <2>2, <2>3, <2>4
<1>8. \A h \in Hold : Enf!Covered[h] \in Nat /\ Enf!Covered[h] <= hold[h].amount
  BY <1>1, <1>2, StoreAssumptions, Enf!CoveredType
<1>9. \A h \in Hold : hold[h].amount \in Nat
  BY DEF Store!TypeOK, Store!HoldRow, Store!NoHold
<1> QED
  BY <1>3, <1>7, <1>8, <1>9

LEMMA AnsweredBound ==
  ASSUME Store!TypeOK, SettlementIntegrity, NEW n \in Run
  PROVE  /\ Answered(n) \in Nat
         /\ Answered(n) <= Store!Spent(n) + Store!Held(n)
         /\ Admitted(n) \in SUBSET Hold /\ IsFiniteSet(Admitted(n))
<1>1. Store!CoveredIn(n) \in SUBSET Hold /\ Admitted(n) \in SUBSET Store!CoveredIn(n)
  BY DEF Store!CoveredIn, Store!CoveredHolds, Admitted
<1>2. IsFiniteSet(Store!CoveredIn(n)) /\ IsFiniteSet(Admitted(n))
  BY <1>1, FS_Subset, RowIdentities
<1>3. \A h \in Store!CoveredIn(n) : Store!Covered[h] \in Nat
  BY <1>1, StoreFacts
<1>4. Answered(n) <= Total(Store!CoveredIn(n), Store!Covered)
  BY <1>1, <1>2, <1>3, TotalMonotone DEF Answered
<1>5. Answered(n) \in Nat
  BY <1>1, <1>2, <1>3, UnitsFinite DEF Answered
<1> QED
  BY <1>1, <1>2, <1>4, <1>5, StoreFacts

(* A step that admits nothing answers for no more than before.             *)
Shrinks(g) ==
  g \in Store!CoveredHolds' /\ g \notin lapsed' =>
    /\ g \in Store!CoveredHolds /\ g \notin lapsed
    /\ hold'[g].run = hold[g].run
    /\ Store!Covered'[g] \in Nat
    /\ Store!Covered'[g] <= Store!Covered[g]

LEMMA AnswersShrink ==
  ASSUME Store!TypeOK, SettlementIntegrity, \A g \in Hold : Shrinks(g), NEW n \in Run
  PROVE  Answered(n)' \in Nat /\ Answered(n)' <= Answered(n)
<1>1. Admitted(n)' \in SUBSET Admitted(n)
  BY DEF Admitted, Store!CoveredIn, Store!CoveredHolds, Shrinks
<1>2. IsFiniteSet(Admitted(n)) /\ Admitted(n) \in SUBSET Hold
  BY AnsweredBound
<1>3. \A g \in Admitted(n)' : Store!Covered'[g] \in Nat /\ Store!Covered'[g] <= Store!Covered[g]
  BY <1>1, <1>2 DEF Admitted, Store!CoveredIn, Shrinks
<1>4. \A g \in Admitted(n) : Store!Covered[g] \in Nat
  BY <1>2, StoreFacts
<1>5. Total(Admitted(n)', Store!Covered') <= Total(Admitted(n), Store!Covered)
  BY <1>1, <1>2, <1>3, <1>4, TotalMonotone
<1>6. IsFiniteSet(Admitted(n)')
  BY <1>1, <1>2, FS_Subset
<1>7. Total(Admitted(n)', Store!Covered') \in Nat
  BY <1>3, <1>6, UnitsFinite
<1> QED
  BY <1>5, <1>7 DEF Answered

(* The sweeper notes what it reclaims.                                     *)
ExpiredIsLapsed == \A h \in Hold : hold[h].status = "expired" => h \in lapsed

LEMMA RestShrinks ==
  ASSUME SharedInv, SettlementIntegrity, ExpiredIsLapsed, NEW g \in Hold,
         hold'[g] = hold[g], settlement'[g] = settlement[g], lapsed \subseteq lapsed',
         settlement[g] # 0 => Charges'[settlement[g]] = Charges[settlement[g]]
  PROVE  Shrinks(g)
<1>1. Store!Covered[g] \in Nat
  BY StoreFacts DEF SharedInv, Tables
<1>2. Store!Covered'[g] = Store!Covered[g]
  BY DEF Store!Covered
<1> QED
  BY <1>1, <1>2 DEF Shrinks, Store!CoveredHolds

(* What a settlement charges within its estimate is no more than the hold  *)
(* had answered for; a hold the sweeper reclaimed before had lapsed.       *)
LEMMA SettlementShrinks ==
  ASSUME SharedInv, SettlementIntegrity, ExpiredIsLapsed, NEW s \in Session, CommitRow(s)
  PROVE  \A g \in Hold : Shrinks(g)
<1>1. PICK row : row = tx[s].row
  OBVIOUS
<1>2. row \in Sealed /\ rows' = Append(rows, row) /\ lapsed' = lapsed
  BY <1>1, RowCommitted DEF CommitRow
<1>3. /\ \A i \in DOMAIN rows : i \in DOMAIN rows' /\ Charges'[i] = Charges[i]
      /\ Len(rows) + 1 # 0
      /\ Charges'[Len(rows) + 1].cost = row.cost
      /\ row.cost \in Nat
  <2>1. /\ DOMAIN rows' = 1 .. (Len(rows) + 1)
        /\ \A i \in DOMAIN rows : i \in DOMAIN rows' /\ rows'[i] = rows[i]
        /\ rows'[Len(rows) + 1] = row
    BY <1>2, RowAppended DEF SharedInv
  <2>2. Len(rows) \in Nat
    BY LedgerShape DEF SharedInv
  <2>3. row.cost \in Nat
    BY <1>2, NextRowColumns, Money DEF Sealed
  <2> QED
    BY <2>1, <2>2, <2>3 DEF Charges
<1>4. \A g \in Hold : settlement[g] # 0 => settlement[g] \in DOMAIN rows
  BY DEF SettlementIntegrity, Store!SettlementIntegrity, Charges
<1>5. CASE settlement' = settlement /\ hold' = hold
  BY <1>2, <1>3, <1>4, <1>5, RestShrinks
<1>6. ASSUME NEW h \in Hold, settlement[h] = 0,
             tx[s].status \in {"pending", "expired"},
             hold[h].status \in {"pending", "expired"},
             tx[s].status = "expired" => hold[h].status = "expired",
             settlement' = [settlement EXCEPT ![h] = Len(rows) + 1],
             hold' = IF tx[s].status = "pending"
                     THEN [hold EXCEPT ![h].status = "settled"]
                     ELSE hold
      PROVE  \A g \in Hold : Shrinks(g)
  <2>1. /\ settlement'[h] = Len(rows) + 1
        /\ \A g \in Hold \ {h} : settlement'[g] = settlement[g]
    BY <1>6 DEF SharedInv, Tables, Store!TypeOK
  <2>2. \A g \in Hold \ {h} : hold'[g] = hold[g]
    BY <1>6 DEF SharedInv, Tables, Store!TypeOK
  <2>3. \A g \in Hold \ {h} : Shrinks(g)
    BY <1>2, <1>3, <1>4, <2>1, <2>2, RestShrinks
  <2>4. CASE hold[h].status = "expired"
    <3>1. h \in lapsed'
      BY <1>2, <2>4 DEF ExpiredIsLapsed
    <3>2. Shrinks(h)
      BY <3>1 DEF Shrinks
    <3> QED
      BY <2>3, <3>2
  <2>5. CASE hold[h].status = "pending"
    <3>1. tx[s].status = "pending"
      BY <1>6, <2>5
    <3>2. /\ hold'[h].run = hold[h].run /\ hold'[h].amount = hold[h].amount
          /\ hold'[h].enforced = hold[h].enforced
      BY <1>6, <2>5, <3>1, HoldColumns
         DEF SharedInv, Tables, Store!TypeOK, Store!HoldStatus
    <3>3. Store!Covered[h] = hold[h].amount /\ hold[h].amount \in Nat
      BY <1>6, StoreFacts DEF Store!Covered, SharedInv, Tables
    <3>4. Store!Covered'[h] = Store!LesserOf(hold[h].amount, row.cost)
      BY <1>3, <2>1, <3>2 DEF Store!Covered
    <3>5. Store!Covered'[h] \in Nat /\ Store!Covered'[h] <= Store!Covered[h]
      BY <1>3, <3>3, <3>4 DEF Store!LesserOf
    <3>6. Shrinks(h)
      <4>1. hold'[h].enforced => hold[h].enforced
        BY <3>2
      <4>2. h \in Store!CoveredHolds' => h \in Store!CoveredHolds
        BY <2>5, <4>1 DEF Store!CoveredHolds
      <4>3. h \notin lapsed' => h \notin lapsed
        BY <1>2
      <4> QED
        BY <3>2, <3>5, <4>2, <4>3 DEF Shrinks
    <3> QED
      BY <2>3, <3>6
  <2> QED
    BY <1>6, <2>3, <2>4, <2>5
<1> QED
  BY <1>5, <1>6, RowCommitted

LEMMA OthersShrink ==
  ASSUME SharedInv, SettlementIntegrity, ExpiredIsLapsed, Next,
         \A s \in Session : CommitHold(s) => ~tx[s].enforce
  PROVE  \A g \in Hold : Shrinks(g)
<1>1. ASSUME UNCHANGED <<hold, settlement, rows, lapsed>> PROVE \A g \in Hold : Shrinks(g)
  BY <1>1, RestShrinks DEF Charges
<1>2. ASSUME NEW h \in Hold, ReleaseReservation(h) PROVE \A g \in Hold : Shrinks(g)
  <2>1. /\ hold'[h].status = "released"
        /\ \A g \in Hold \ {h} : hold'[g] = hold[g]
    BY <1>2, HoldColumns
       DEF ReleaseReservation, SharedInv, Tables, Store!TypeOK, Store!HoldStatus
  <2>2. UNCHANGED <<settlement, rows, lapsed>>
    BY <1>2 DEF ReleaseReservation
  <2>3. \A g \in Hold \ {h} : Shrinks(g)
    BY <2>1, <2>2, RestShrinks DEF Charges
  <2>4. Shrinks(h)
    BY <2>1 DEF Shrinks, Store!CoveredHolds
  <2> QED
    BY <2>3, <2>4
<1>3. ASSUME NEW s \in Session, ExpirePendingReservations(s)
      PROVE  \A g \in Hold : Shrinks(g)
  <2>1. \A g \in Hold : \/ hold'[g] = hold[g]
                        \/ hold'[g].status = "expired"
    BY <1>3, HoldColumns
       DEF ExpirePendingReservations, SharedInv, Tables, Store!TypeOK, Store!HoldStatus
  <2>2. UNCHANGED <<settlement, rows>> /\ lapsed \subseteq lapsed'
    BY <1>3 DEF ExpirePendingReservations
  <2>3. \A g \in Hold : hold'[g] = hold[g] => Shrinks(g)
    BY <2>2, RestShrinks DEF Charges
  <2>4. \A g \in Hold : hold'[g].status = "expired" => Shrinks(g)
    BY DEF Shrinks, Store!CoveredHolds
  <2> QED
    BY <2>1, <2>3, <2>4
<1>4. ASSUME NEW s \in Session, CommitHold(s), ~tx[s].enforce
      PROVE  \A g \in Hold : Shrinks(g)
  <2>1. tx[s].hold \in Hold
    BY <1>4, StageOf DEF SharedInv, Transactions, Sound, CommitHold, Holds, Checking
  <2>2. /\ ~hold'[tx[s].hold].enforced
        /\ \A g \in Hold \ {tx[s].hold} : hold'[g] = hold[g]
    BY <1>4, <2>1 DEF CommitHold, SharedInv, Tables, Store!TypeOK
  <2>3. UNCHANGED <<settlement, rows, lapsed>>
    BY <1>4 DEF CommitHold
  <2>4. \A g \in Hold \ {tx[s].hold} : Shrinks(g)
    BY <2>2, <2>3, RestShrinks DEF Charges
  <2>5. Shrinks(tx[s].hold)
    BY <2>2 DEF Shrinks, Store!CoveredHolds
  <2> QED
    BY <2>4, <2>5
<1>5. \/ UNCHANGED <<hold, settlement, rows, lapsed>>
      \/ \E s \in Session : CommitHold(s) \/ CommitRow(s) \/ ExpirePendingReservations(s)
      \/ \E h \in Hold : ReleaseReservation(h)
  BY DEF Next, Statement, Begin, Lock, Abort, TtlPasses, ReadChain, ReadLevel, ReadCeiling,
         CommitClose, ReadHold, ReadHead, UpdateHold, tables
<1> QED
  BY <1>1, <1>2, <1>3, <1>4, <1>5, SettlementShrinks

(* An enforced hold adds its estimate to what the runs of its ancestry     *)
(* answer for, and nothing to any other run.                               *)
LEMMA EnforcedHoldGrows ==
  ASSUME SharedInv, SettlementIntegrity, ExpiredIsLapsed, NEW s \in Session, CommitHold(s),
         NEW n \in Run
  PROVE  /\ Answered(n)' \in Nat
         /\ n \notin Store!Ancestors[tx[s].run] => Answered(n)' <= Answered(n)
         /\ n \in Store!Ancestors[tx[s].run] => Answered(n)' <= Answered(n) + tx[s].amount
<1> DEFINE h == tx[s].hold
           r == tx[s].run
           a == tx[s].amount
<1>1. h \in Hold /\ r \in Run /\ a \in Nat /\ hold[h].status = "absent"
  BY StageOf, Money DEF SharedInv, Transactions, Sound, OwnHold, CommitHold, Holds, Checking
<1>2. /\ hold'[h].run = r /\ hold'[h].amount = a
      /\ \A g \in Hold \ {h} : hold'[g] = hold[g]
      /\ UNCHANGED <<settlement, rows, lapsed>>
  BY <1>1 DEF CommitHold, SharedInv, Tables, Store!TypeOK
<1> HIDE DEF h, r, a
<1>3. settlement[h] = 0
  BY <1>1 DEF SettlementIntegrity, Store!SettlementIntegrity
<1>4. Charges' = Charges
  BY <1>2 DEF Charges
<1>5. Store!Covered'[h] = a /\ \A g \in Hold \ {h} : Store!Covered'[g] = Store!Covered[g]
  BY <1>1, <1>2, <1>3, <1>4 DEF Store!Covered
<1>6. h \notin Admitted(n) /\ Admitted(n)' \subseteq Admitted(n) \cup {h}
  BY <1>1, <1>2 DEF Admitted, Store!CoveredIn, Store!CoveredHolds
<1>7. /\ Admitted(n) \in SUBSET Hold /\ IsFiniteSet(Admitted(n))
      /\ \A g \in Hold : Store!Covered[g] \in Nat
  BY AnsweredBound, StoreFacts DEF SharedInv, Tables
<1>8. \A g \in Admitted(n) : Store!Covered'[g] = Store!Covered[g] /\ Store!Covered'[g] \in Nat
  BY <1>5, <1>6, <1>7
<1>9. Total(Admitted(n), Store!Covered') = Answered(n)
  BY <1>8, TotalSame DEF Answered
<1>10. Total(Admitted(n) \cup {h}, Store!Covered') = Answered(n) + a
  <2>1. \A g \in Admitted(n) \cup {h} : Store!Covered'[g] \in Nat
    BY <1>1, <1>5, <1>8
  <2>2. Total(Admitted(n) \cup {h}, Store!Covered')
          = Total(Admitted(n), Store!Covered') + Store!Covered'[h]
    BY <1>6, <1>7, <2>1, TotalAdd
  <2> QED
    BY <1>5, <1>9, <2>2
<1>11. IsFiniteSet(Admitted(n) \cup {h})
  BY <1>7, FS_AddElement
<1>12. Total(Admitted(n)', Store!Covered') <= Answered(n) + a
  BY <1>1, <1>5, <1>6, <1>8, <1>10, <1>11, TotalMonotone
<1>13. Total(Admitted(n)', Store!Covered') \in Nat
  BY <1>1, <1>5, <1>6, <1>8, <1>11, FS_Subset, UnitsFinite
<1>14. ASSUME n \notin Store!Ancestors[r]
       PROVE  Total(Admitted(n)', Store!Covered') <= Answered(n)
  <2>1. r \notin Store!Subtree[n]
    BY <1>1, <1>14, Hierarchy
  <2>2. Admitted(n)' \in SUBSET Admitted(n)
    BY <1>2, <1>6, <2>1 DEF Admitted, Store!CoveredIn
  <2> QED
    BY <1>7, <1>8, <1>9, <2>2, TotalMonotone
<1> QED
  BY <1>12, <1>13, <1>14 DEF Answered, h, r, a
(* A decision that enforces and has not found a limit exceeded: above the  *)
(* levels still to be read there is room for its estimate.  That room is   *)
(* nobody else's: the lock on the principal keeps the other admissions of  *)
(* the tree out until the COMMIT, and what others settle or reclaim        *)
(* meanwhile only adds to it.                                              *)
FoundRoom(t) ==
  InProgress(t) /\ t.enforce =>
    /\ \A n \in Store!Ancestors[t.run] :
         ~t.wouldBlock /\ n \notin t.left /\ Budget[n] # 0 =>
           Answered(n) + t.amount <= Budget[n]
    /\ t.at = "write" => ~t.wouldBlock /\ t.left = {}

Room == \A s \in Session : FoundRoom(tx[s])

Budgeted == EnforcedWithinBudget /\ Room /\ ExpiredIsLapsed

LEMMA WithinBudget ==
  ASSUME EnforcedWithinBudget, NEW n \in Run, Budget[n] # 0
  PROVE  Answered(n) <= Budget[n]
BY DEF EnforcedWithinBudget, Answered, Admitted

LEMMA LapsedKept ==
  ASSUME SharedInv, ExpiredIsLapsed, Next
  PROVE  ExpiredIsLapsed'
<1>1. lapsed \subseteq lapsed'
  BY DEF Next, Statement, Begin, Lock, Abort, ExpirePendingReservations, ReleaseReservation,
         TtlPasses, ReadChain, ReadLevel, ReadCeiling, CommitHold, CommitClose, ReadHold,
         ReadHead, UpdateHold, CommitRow, tables
<1>2. ASSUME \A h \in Hold : hold'[h].status = "expired" => hold[h].status = "expired"
      PROVE  ExpiredIsLapsed'
  BY <1>1, <1>2 DEF ExpiredIsLapsed
<1>3. ASSUME NEW s \in Session, CommitHold(s) PROVE ExpiredIsLapsed'
  BY <1>2, <1>3 DEF CommitHold, SharedInv, Tables, Store!TypeOK
<1>4. ASSUME NEW s \in Session, CommitRow(s) PROVE ExpiredIsLapsed'
  <2>1. CASE hold' = hold
    BY <1>2, <2>1
  <2>2. CASE /\ tx[s].hold \in Hold /\ hold[tx[s].hold].status \in {"pending", "expired"}
             /\ hold' = [hold EXCEPT ![tx[s].hold].status = "settled"]
    BY <1>2, <2>2, HoldColumns DEF SharedInv, Tables, Store!TypeOK, Store!HoldStatus
  <2> QED
    BY <1>4, <2>1, <2>2, RowCommitted
<1>5. ASSUME NEW h \in Hold, ReleaseReservation(h) PROVE ExpiredIsLapsed'
  BY <1>2, <1>5, HoldColumns
     DEF ReleaseReservation, SharedInv, Tables, Store!TypeOK, Store!HoldStatus
<1>6. ASSUME NEW s \in Session, ExpirePendingReservations(s) PROVE ExpiredIsLapsed'
  BY <1>6 DEF ExpirePendingReservations, ExpiredIsLapsed
<1>7. \/ hold' = hold
      \/ \E s \in Session : CommitHold(s) \/ CommitRow(s) \/ ExpirePendingReservations(s)
      \/ \E h \in Hold : ReleaseReservation(h)
  BY DEF Next, Statement, Begin, Lock, Abort, TtlPasses, ReadChain, ReadLevel, ReadCeiling,
         CommitClose, ReadHold, ReadHead, UpdateHold, tables
<1> QED
  BY <1>2, <1>3, <1>4, <1>5, <1>6, <1>7

(* What another session admits is outside the tree a decision locked.      *)
LEMMA NoOneElseAdmits ==
  ASSUME SharedInv, SettlementIntegrity, ExpiredIsLapsed, Next, NEW q \in Session,
         InProgress(tx[q]), tx'[q] = tx[q], NEW n \in Store!Ancestors[tx[q].run]
  PROVE  n \in Run /\ Answered(n)' \in Nat /\ Answered(n)' <= Answered(n)
<1>1. tx[q] \in Checking
  BY StageOf DEF SharedInv, Transactions, Sound, InProgress
<1>2. n \in Run /\ Owner[n] = Owner[tx[q].run]
  BY <1>1, OneOwner DEF Checking
<1>3. CASE \A s \in Session : CommitHold(s) => ~tx[s].enforce
  <2>1. \A g \in Hold : Shrinks(g)
    BY <1>3, OthersShrink
  <2> QED
    BY <1>2, <2>1, AnswersShrink DEF SharedInv, Tables
<1>4. ASSUME NEW s \in Session, CommitHold(s)
      PROVE  Answered(n)' \in Nat /\ Answered(n)' <= Answered(n)
  <2>1. tx'[s] = Idle
    BY <1>4 DEF CommitHold, Finish, Proceed, SharedInv, Transactions
  <2>2. s # q
    BY <2>1 DEF InProgress, Idle
  <2>3. tx[s] \in Checking
    BY <1>4, StageOf DEF SharedInv, Transactions, Sound, CommitHold, Holds
  <2>4. HasBudget(tx[s], Owner[tx[s].run]) /\ HasBudget(tx[q], Owner[tx[q].run])
    BY <1>4 DEF CommitHold, Holds, HasBudget, InProgress
  <2>5. Owner[tx[s].run] # Owner[tx[q].run]
    BY <2>2, <2>4 DEF SharedInv, Transactions, OneBudget
  <2>6. n \notin Store!Ancestors[tx[s].run]
    BY <1>2, <2>3, <2>5, OneOwner DEF Checking
  <2> QED
    BY <1>2, <1>4, <2>6, EnforcedHoldGrows
<1> QED
  BY <1>2, <1>3, <1>4

LEMMA SameAnswers ==
  ASSUME UNCHANGED tables
  PROVE  \A n : Answered(n)' = Answered(n)
<1>1. Charges' = Charges
  BY DEF tables, Charges
<1>2. Store!Covered' = Store!Covered
  BY <1>1 DEF tables, Store!Covered
<1> QED
  BY <1>2 DEF tables, Answered, Admitted, Store!CoveredIn, Store!CoveredHolds

LEMMA RoomKept ==
  ASSUME SharedInv, SettlementIntegrity, Budgeted, Next
  PROVE  Room'
<1> SUFFICES ASSUME NEW q \in Session, NEW t, t = tx'[q], InProgress(t), t.enforce
             PROVE  /\ \A n \in Store!Ancestors[t.run] :
                         ~t.wouldBlock /\ n \notin t.left /\ Budget[n] # 0 =>
                           Answered(n)' + t.amount <= Budget[n]
                    /\ t.at = "write" => ~t.wouldBlock /\ t.left = {}
  BY DEF Room, FoundRoom, InProgress
<1> DEFINE w == tx[q]
           Found == /\ \A n \in Store!Ancestors[t.run] :
                         ~t.wouldBlock /\ n \notin t.left /\ Budget[n] # 0 =>
                           Answered(n)' + t.amount <= Budget[n]
                    /\ t.at = "write" => ~t.wouldBlock /\ t.left = {}
<1> SUFFICES Found
  OBVIOUS
<1>1. t.run \in Run /\ t.amount \in Nat
  BY DecisionMoves
<1>2. \A n \in Store!Ancestors[t.run] : n \in Run /\ Budget[n] \in Nat
  BY <1>1, OneOwner, RowValues
<1>3. \A n \in Run : /\ Answered(n) \in Nat
                     /\ Answered(n) <= Store!Spent(n) + Store!Held(n)
                     /\ Store!Spent(n) \in Nat /\ Store!Held(n) \in Nat
  BY AnsweredBound, StoreFacts DEF SharedInv, Tables
<1>4. FoundRoom(w)
  BY DEF Budgeted, Room
<1>5. CASE t = w
  <2>1. ASSUME NEW n \in Store!Ancestors[t.run],
               ~t.wouldBlock, n \notin t.left, Budget[n] # 0
        PROVE  Answered(n)' + t.amount <= Budget[n]
    <3>1. Answered(n) + t.amount <= Budget[n]
      BY <1>4, <1>5, <2>1 DEF FoundRoom
    <3>2. Answered(n)' \in Nat /\ Answered(n)' <= Answered(n)
      BY <1>5, NoOneElseAdmits DEF Budgeted
    <3>3. PICK b \in Nat : b = Answered(n)'
      BY <3>2
    <3> QED
      BY <1>1, <1>2, <1>3, <3>1, <3>2, <3>3
  <2> QED
    BY <1>4, <1>5, <2>1 DEF FoundRoom
<1>6. CASE ChainRead(t)
  BY <1>6 DEF ChainRead
<1>7. CASE LevelRead(w, t)
  <2>1. PICK m : /\ t.left = w.left \ {m}
                 /\ t.wouldBlock <=> w.wouldBlock \/ Store!OverBudget(m, t.amount)
    BY <1>7 DEF LevelRead
  <2>2. ASSUME NEW n \in Store!Ancestors[t.run],
               ~t.wouldBlock, n \notin t.left, Budget[n] # 0
        PROVE  Answered(n)' + t.amount <= Budget[n]
    <3>1. Answered(n)' = Answered(n)
      BY <1>7, SameAnswers DEF LevelRead
    <3>2. CASE n \notin w.left
      BY <1>4, <1>7, <2>1, <2>2, <3>1, <3>2 DEF FoundRoom, LevelRead, SameRequest
    <3>3. CASE n = m
      <4>1. /\ ~(t.amount > Store!Remaining(Budget[n], Store!Spent(n), Store!Held(n)))
            /\ Answered(n) <= Budget[n]
        BY <1>2, <2>1, <2>2, <3>3, WithinBudget DEF Store!OverBudget, Budgeted
      <4> QED
        BY <1>1, <1>2, <1>3, <3>1, <4>1 DEF Store!Remaining
    <3> QED
      BY <2>1, <2>2, <3>2, <3>3
  <2> QED
    BY <1>7, <2>2 DEF LevelRead
<1>8. CASE CeilingRead(w, t)
  <2>1. \A n : Answered(n)' = Answered(n)
    BY <1>8, SameAnswers DEF CeilingRead
  <2> QED
    BY <1>4, <1>8, <2>1 DEF FoundRoom, CeilingRead, SameRequest
<1>9. t = w \/ ChainRead(t) \/ LevelRead(w, t) \/ CeilingRead(w, t)
  BY DecisionMoves
<1> HIDE DEF w, Found
<1> QED
  BY <1>5, <1>6, <1>7, <1>8, <1>9
LEMMA BudgetsKept ==
  ASSUME SharedInv, SettlementIntegrity, Budgeted, Next
  PROVE  EnforcedWithinBudget'
<1> SUFFICES ASSUME NEW n \in Run, Budget[n] # 0
             PROVE  Answered(n)' <= Budget[n]
  BY DEF EnforcedWithinBudget, Answered, Admitted
<1>1. Answered(n) \in Nat /\ Answered(n) <= Budget[n] /\ Budget[n] \in Nat
  BY AnsweredBound, WithinBudget, RowValues DEF SharedInv, Tables, Budgeted
<1>2. ASSUME Answered(n)' \in Nat, Answered(n)' <= Answered(n)
      PROVE  Answered(n)' <= Budget[n]
  <2>1. PICK b \in Nat : b = Answered(n)'
    BY <1>2
  <2> QED
    BY <1>1, <1>2, <2>1
<1>3. CASE \A s \in Session : CommitHold(s) => ~tx[s].enforce
  <2>1. \A g \in Hold : Shrinks(g)
    BY <1>3, OthersShrink DEF Budgeted
  <2> QED
    BY <1>2, <2>1, AnswersShrink DEF SharedInv, Tables
<1>4. ASSUME NEW s \in Session, CommitHold(s), tx[s].enforce
      PROVE  Answered(n)' <= Budget[n]
  <2>1. CASE n \notin Store!Ancestors[tx[s].run]
    BY <1>2, <1>4, <2>1, EnforcedHoldGrows DEF Budgeted
  <2>2. CASE n \in Store!Ancestors[tx[s].run]
    <3>1. /\ Answered(n)' \in Nat
          /\ Answered(n)' <= Answered(n) + tx[s].amount
      BY <1>4, <2>2, EnforcedHoldGrows DEF Budgeted
    <3>2. Answered(n) + tx[s].amount <= Budget[n]
      BY <1>4, <2>2 DEF Budgeted, Room, FoundRoom, CommitHold, Holds, InProgress
    <3>3. tx[s].amount \in Nat
      BY <1>4, StageOf, Money DEF SharedInv, Transactions, Sound, CommitHold, Holds, Checking
    <3>4. PICK b \in Nat : b = Answered(n)'
      BY <3>1
    <3> QED
      BY <1>1, <3>1, <3>2, <3>3, <3>4
  <2> QED
    BY <2>1, <2>2
<1> QED
  BY <1>3, <1>4

(* However the statements of decisions, settlements and sweeps of many     *)
(* replicas interleave, what was admitted in enforce mode and never        *)
(* expired is within the budget of every run of its ancestry.              *)
THEOREM SharedBudgetsAreEnforced == Spec => []EnforcedWithinBudget
<1>1. Init => Budgeted
  <2> SUFFICES ASSUME Init PROVE Budgeted
    OBVIOUS
  <2>1. \A n \in Run : Answered(n) = 0
    <3>1. \A n : Admitted(n) = {}
      BY DEF Init, Admitted, Store!CoveredIn, Store!CoveredHolds, Store!NoHold
    <3> QED
      BY <3>1, TotalEmpty DEF Answered
  <2>2. EnforcedWithinBudget
    BY <2>1, RowValues DEF EnforcedWithinBudget, Answered, Admitted
  <2>3. Room
    BY DEF Init, Room, FoundRoom, InProgress, Idle
  <2>4. ExpiredIsLapsed
    BY DEF Init, ExpiredIsLapsed, Store!NoHold
  <2> QED
    BY <2>2, <2>3, <2>4 DEF Budgeted
<1>2. SharedInv /\ SettlementIntegrity /\ Budgeted /\ [Next]_vars => Budgeted'
  <2>1. ASSUME Budgeted, UNCHANGED vars PROVE Budgeted'
    <3>1. \A n : Answered(n)' = Answered(n)
      BY <2>1, SameAnswers DEF vars
    <3>2. EnforcedWithinBudget'
      BY <2>1, <3>1 DEF Budgeted, EnforcedWithinBudget, Answered, Admitted
    <3>3. Room'
      BY <2>1, <3>1 DEF Budgeted, Room, FoundRoom, vars
    <3>4. ExpiredIsLapsed'
      BY <2>1 DEF Budgeted, ExpiredIsLapsed, vars, tables
    <3> QED
      BY <3>2, <3>3, <3>4 DEF Budgeted
  <2>2. SharedInv /\ SettlementIntegrity /\ Budgeted /\ Next => Budgeted'
    BY BudgetsKept, RoomKept, LapsedKept DEF Budgeted
  <2> QED
    BY <2>1, <2>2
<1>3. Budgeted => EnforcedWithinBudget
  BY DEF Budgeted
<1> QED
  BY <1>1, <1>2, <1>3, TransactionsAreSound, SharedSettlementsAreSound, PTL DEF Spec
=============================================================================
