------------------------------ MODULE SpendLog ------------------------------
(***************************************************************************)
(* What the ledger promises of money spent, whatever backend keeps it: the *)
(* entries form a log that only grows at its end, one entry at a time, and *)
(* each reservation is charged in one entry at most (store.Store:          *)
(* AppendLedger and SettleReservation, internal/store/store.go).           *)
(***************************************************************************)
EXTENDS Sequences

CONSTANTS Charge,   \* what can be charged
          Hold,     \* the reservations that can be charged
          NoHold    \* an entry without a reservation

VARIABLE log        \* the entries, oldest first

Entry(h, e) == [charge |-> e, hold |-> h]

Charged(h) == \E i \in DOMAIN log : log[i].hold = h

Init == \A i \in DOMAIN log : \E e \in Charge : log[i] = Entry(NoHold, e)

(* A response without a reservation.                                       *)
AppendLedger(e) == log' = Append(log, Entry(NoHold, e))

(* A response that had reserved its cost.                                  *)
SettleReservation(h, e) ==
  /\ ~Charged(h)
  /\ log' = Append(log, Entry(h, e))

Next ==
  \E e \in Charge : \/ AppendLedger(e)
                    \/ \E h \in Hold : SettleReservation(h, e)

Spec == Init /\ [][Next]_log
=============================================================================
