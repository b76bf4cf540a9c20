---------------------------- MODULE LedgerChain ----------------------------
(***************************************************************************)
(* The hash chain of the spend ledger: internal/ledger/entry.go.           *)
(*                                                                         *)
(* SHA-256 over the length-prefixed fields is modelled by the tuple of the *)
(* fields it covers: two digests are equal exactly when the fields are.    *)
(* A row's contents are abstracted to the run it charges, its cost (with   *)
(* every other field both formats cover) and its detail: the itemized      *)
(* usage, external id, pricing revision and effective date, which only     *)
(* rows of format 2 cover.                                                 *)
(***************************************************************************)
EXTENDS Integers, Sequences, FiniteSets

HashVersionLegacy == 1
HashVersionUsage  == 2

(* GenesisHash: no digest equals it.                                       *)
GenesisHash == << >>

(* Mutant: the cost is left out of what a row of format 2 covers.          *)
MutComputeHash(e, prev) ==
  IF e.version >= HashVersionUsage
  THEN <<e.seq, e.run, e.version, e.detail, prev>>
  ELSE <<e.seq, e.run, e.cost, prev>>

ComputeHash(e, prev) ==
  IF e.version >= HashVersionUsage
  THEN <<e.seq, e.run, e.cost, e.version, e.detail, prev>>
  ELSE <<e.seq, e.run, e.cost, prev>>

(* Mutant: every row is chained onto the genesis hash.                     *)
MutSeal(e, prev) ==
  [seq |-> e.seq, run |-> e.run, cost |-> e.cost, version |-> e.version,
   detail |-> e.detail, prev |-> GenesisHash, hash |-> ComputeHash(e, GenesisHash)]

(* The row to append after the one whose hash is prev.                     *)
Seal(e, prev) == [seq |-> e.seq, run |-> e.run, cost |-> e.cost,
                  version |-> e.version, detail |-> e.detail,
                  prev |-> prev, hash |-> ComputeHash(e, prev)]

(* The hash the row at position i has to be chained onto.                  *)
PrevHash(rows, i) == IF i = 1 THEN GenesisHash ELSE rows[i - 1].hash

HeadHash(rows) == PrevHash(rows, Len(rows) + 1)

(* The two checks VerifyChain makes of one row.                            *)
Linked(rows, i) == /\ rows[i].prev = PrevHash(rows, i)
                   /\ rows[i].hash = ComputeHash(rows[i], rows[i].prev)

(* VerifyChain accepts the rows: its loop ends without a ChainError.       *)
VerifyChain(rows) == \A i \in DOMAIN rows : Linked(rows, i)

-----------------------------------------------------------------------------
(* What someone who writes to the database file could do to one row, its   *)
(* successors left as they are: alter contents, drop it, put a row in.     *)
Edited(rows, i, field, value) == [rows EXCEPT ![i] = [rows[i] EXCEPT ![field] = value]]
Dropped(rows, i) ==
  [j \in 1 .. Len(rows) - 1 |-> IF j < i THEN rows[j] ELSE rows[j + 1]]
Exchanged(rows, i) == [rows EXCEPT ![i] = rows[i + 1], ![i + 1] = rows[i]]
=============================================================================
