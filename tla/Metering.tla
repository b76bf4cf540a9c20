------------------------------ MODULE Metering ------------------------------
(***************************************************************************)
(* From a request to its ledger entry and on to the vendor's statement:    *)
(* the checks and the reservation before it is forwarded, the response     *)
(* while it is copied, the charge afterwards (internal/gateway: proxy.go,  *)
(* observe.go, record.go) and reconciliation (internal/reconcile).         *)
(*                                                                         *)
(* Requests share only the price book and the ledger, so they come one     *)
(* after another here; what is to be told apart of the datastore is the    *)
(* hold of the request and the entries (BudgetStore, Gateway have the      *)
(* rest).  The vendor bills a response, however much of it arrives.        *)
(***************************************************************************)
EXTENDS Adapters, Observer, Reconcile

CONSTANTS
  Request,     \* what a request can be
  Answers,     \* Answers[q]: the responses a vendor can give to q
  Days,        \* the day after the last one
  MaxRequests

(* A strict request comes from an enforced principal under the policy      *)
(* strict, the one that promises a bound.                                  *)
ASSUME RequestsAreRead ==
  /\ Days \in Nat \ {0} /\ MaxRequests \in Nat
  /\ \A q \in Request :
       /\ q.model \in Model /\ q.route \in DOMAIN Billing /\ q.features \subseteq Feature
       /\ q.bytes \in Nat /\ q.chars \in 0 .. q.bytes /\ q.max \in Nat
       /\ q.strict => q.enforce

(* The usages onEvent and onBody took out of the response, merged.         *)
ReportedIn(events) ==
  FoldLeft(LAMBDA u, e : Merge(u, UsageFrom(e.report)), NoUsage, events)

UpTo(u, v) == u \in Usage /\ \A c \in Category : u[c] <= v[c]

(* The vendors.  Something is billed, it is what is reported of a response *)
(* when anything is, and reports that come in pieces come up to it from    *)
(* below.                                                                  *)
ASSUME VendorsReport ==
  /\ MaxObserved \in Nat /\ MaxObserved >= 2
  /\ \A q \in Request : \A a \in Answers[q] :
       LET reports == Payloads(a.symbols)
       IN  /\ a.symbols \in Seq(Range(a.symbols)) /\ a.streaming \in BOOLEAN
           /\ a.streaming => OneDataLine(a.symbols)
           /\ a.billed \in Usage /\ a.billed # NoUsage
           /\ ReportedIn(reports) \in {NoUsage, a.billed}
           /\ \A n \in DOMAIN reports : UpTo(ReportedIn(SubSeq(reports, 1, n)), a.billed)

VARIABLES
  day,         \* time.Now()
  request,     \* << >>, or the request being served
  held,        \* its reservation, and the row of the statement it will meet
  response,    \* << >>, or what the vendor answers
  ledger,      \* the entries, as reconciliation reads them
  statement    \* the rows of the vendor's statement

meteringVars == <<reader, day, request, held, response, ledger, statement>>

Idle == NewReader(<< >>, FALSE, FALSE)
NoHold == [amount |-> 0, price |-> fallbackPrice, row |-> 0]

MeteringInit ==
  /\ reader = Idle /\ day = 0
  /\ request = << >> /\ held = NoHold /\ response = << >>
  /\ ledger = << >> /\ statement = << >>

-----------------------------------------------------------------------------
(***************************************************************************)
(* Before the vendor.                                                      *)
(***************************************************************************)

(* StrictUnenforceableReason gives none.                                   *)
Enforceable(q) ==
  q.strict => LookupKnown(q.model, day) # {} /\ (NoOutput(q) \/ q.max > 0)

(* What Reserve asks for: every input token at the input rate.             *)
ReservedUsage(q, p) ==
  [NoUsage EXCEPT !["input"]  = ReservationInputTokens(q.bytes),
                  !["output"] = IF NoOutput(q) THEN 0 ELSE ReservationTokens(q.max, p)]

Reserved(q, p) == Cost(p, ReservedUsage(q, p))

(* What the vendor bills: tokens at the prices of the day, and a fee for   *)
(* each feature that is charged beyond them.                               *)
Bills(q, a, p) ==
  statement' = Append(statement,
    [model |-> q.model, usage |-> a.billed, day |-> day,
     cost |-> Cost(p, a.billed) + Cardinality(q.features)])

(* The request is checked and reserved, and the vendor answers with 2xx.   *)
(* The chunk that the gateway asked for is withheld.                       *)
Forward ==
  /\ request = << >> /\ Len(statement) < MaxRequests
  /\ \E q \in Request : \E a \in Answers[q], p \in Lookup(q.model, day) :
       /\ Metered(q) /\ Enforceable(q)
       /\ held' = [amount |-> Reserved(q, p), price |-> p, row |-> Len(statement) + 1]
       /\ request' = <<q>> /\ response' = <<a>>
       /\ reader' = NewReader(a.symbols, a.streaming, a.streaming /\ EnableStreamUsage(q))
       /\ Bills(q, a, p)
  /\ UNCHANGED <<day, ledger>>

(* Only in observe mode does a request whose cost is not known pass.       *)
MayPass(q) == Unmetered(q) /\ ~q.enforce

(* It is copied by ReverseProxy alone, and leaves no trace but a header;   *)
(* so is the answer to a request that costs nothing, which is left out.    *)
ForwardUnmetered ==
  /\ request = << >> /\ Len(statement) < MaxRequests
  /\ \E q \in Request : \E a \in Answers[q], p \in Lookup(q.model, day) :
       MayPass(q) /\ Bills(q, a, p)
  /\ UNCHANGED <<reader, day, request, held, response, ledger>>

CopyResponse ==
  /\ request # << >>
  /\ Copy
  /\ UNCHANGED <<day, request, held, response, ledger, statement>>

(* A new file of the book may take effect at any time.                     *)
Midnight ==
  /\ day < Days - 1
  /\ day' = day + 1
  /\ UNCHANGED <<reader, request, held, response, ledger, statement>>

-----------------------------------------------------------------------------
(***************************************************************************)
(* After the response: onDone and Recorder.Record.                         *)
(***************************************************************************)

ReportedUsage == ReportedIn(reader.events)

(* What is charged when the vendor reported nothing.                       *)
estimate(q, p) ==
  LET out == ReservationTokens(q.max, p)
  IN  [NoUsage EXCEPT !["input"]  = EstimateFromChars(q.chars),
                      !["output"] = IF reader.done = "complete" THEN out ELSE out \div 2]

(* Mutant: what was reported of a response that was cut counts as exact.   *)
MutEstimated(q) == LookupKnown(q.model, day) = {} \/ ReportedUsage = NoUsage

Estimated(q) ==
  LookupKnown(q.model, day) = {} \/ ReportedUsage = NoUsage \/ reader.done # "complete"

(* The price is looked up again.  request, held and row are histories: the *)
(* hold this entry settles, and what the vendor billed.                    *)
Record ==
  /\ request # << >> /\ reader.done # "no" /\ reader.closed
  /\ \E p \in Lookup(request[1].model, day) :
       LET q     == request[1]
           usage == IF ReportedUsage = NoUsage THEN estimate(q, p) ELSE ReportedUsage
       IN  ledger' = Append(ledger,
             [model |-> q.model, usage |-> usage, cost |-> Cost(p, usage),
              estimated |-> Estimated(q), day |-> day,
              price |-> p, request |-> q, held |-> held])
  /\ request' = << >> /\ held' = NoHold /\ response' = << >> /\ reader' = Idle
  /\ UNCHANGED <<day, statement>>

MeteringNext == Forward \/ ForwardUnmetered \/ CopyResponse \/ Midnight \/ Record

MeteringSpec == MeteringInit /\ [][MeteringNext]_meteringVars

-----------------------------------------------------------------------------
(***************************************************************************)
(* The stream.                                                             *)
(***************************************************************************)

(* s as the client is to have it: without the chunk the gateway asked for. *)
Visible(s) ==
  LET cut == Pieces(s, eventSeparator)
  IN  IF reader.filtering THEN Kept(Append(cut.whole, cut.rest)) ELSE s

(* Wherever reads cut a response, the client has what the vendor sent, in  *)
(* order, but for the chunk that was withheld, all of it by the end, and a *)
(* stream that broke looks broken; each payload is observed once, in order *)
(* and none is missed in a response that was complete, unless it is a body *)
(* over the cap (observingReader: Read, readFiltered, consumeEvents,       *)
(* scanEvents, flush).                                                     *)
FaithfulStream ==
  request # << >> =>
    LET whole == response[1].symbols
        sent  == SubSeq(whole, 1, Len(whole) - Len(reader.upstream))
    IN  /\ IsPrefix(reader.received, Visible(sent))
        /\ reader.ended => reader.received = Visible(sent)
        /\ IsPrefix(reader.events, Payloads(sent))
        /\ reader.done = "complete" =>
             /\ sent = whole
             /\ reader.events = IF reader.truncated /\ ~reader.streaming THEN << >> ELSE Payloads(whole)

-----------------------------------------------------------------------------
(***************************************************************************)
(* The charge.                                                             *)
(***************************************************************************)

Billed(e) == statement[e.held.row].usage

(* An entry that is not marked as an estimate has what the vendor billed,  *)
(* in every category, at a price of the book in force on its day; so a     *)
(* response that was cut, one without a report and a model the book does   *)
(* not know are marked (Record, OpenAIUsageFrom, usageFrom, Merge).        *)
ExactEntries ==
  \A i \in DOMAIN ledger :
    LET e == ledger[i]
    IN  ~e.estimated => /\ e.usage = Billed(e)
                        /\ e.cost \in {Cost(p, Billed(e)) : p \in LookupKnown(e.model, e.day)}

(* The vendor kept to the limits the reservation was made for.             *)
WithinLimits(e) ==
  /\ TotalInput(Billed(e)) <= e.request.bytes + InputOverhead
  /\ Billed(e)["output"] <= IF NoOutput(e.request) THEN 0 ELSE e.request.max

(* No token is dearer than it was held for, be it in the long context.     *)
PricedAsHeld(e) ==
  LET charged == Rates(e.price, e.usage)
      hold   == Rates(e.price, ReservedUsage(e.request, e.price))
  IN  /\ \A c \in Inputs : e.usage[c] > 0 => charged[c] <= hold["input"]
      /\ charged["output"] <= hold["output"]

(* By how much a request costs more to hold at the price it is charged at  *)
(* than at the one it was held at, when a file came into effect meanwhile. *)
PriceChange(e) == Reserved(e.request, e.price) - Reserved(e.request, e.held.price)

(* What an estimate charges for the output of a request that has none, and *)
(* that no output was held for (estimate, which does not look at NoOutput).*)
UnheldOutput(e) ==
  IF NoOutput(e.request) THEN rate(e.usage["output"], Rates(e.price, e.usage)["output"]) ELSE 0

(* Under the policy strict what settles a hold is covered by it, except    *)
(* for half a unit of rounding in each category of input, the output that  *)
(* is estimated for a request without one and, when the price changed in   *)
(* the meantime, that change of the hold; as long as no token was dearer   *)
(* than such a hold is made for (Reserve, Record, estimate).               *)
ChargeWithinHold ==
  \A i \in DOMAIN ledger :
    LET e == ledger[i]
    IN  e.request.strict /\ WithinLimits(e) /\ PricedAsHeld(e)
        => 2 * (e.cost - UnheldOutput(e) - (e.held.amount + PriceChange(e))) <= Cardinality(Inputs)

(* docs/reserve-and-settle.md:5: a request holds a safe upper bound.  What *)
(* the vendor bills within the limits of a strict request is covered.      *)
SafeUpperBound ==
  \A i \in DOMAIN ledger :
    LET e == ledger[i]
    IN  e.request.strict /\ ~e.estimated /\ e.price = e.held.price /\ WithinLimits(e)
        => e.cost <= e.held.amount

-----------------------------------------------------------------------------
(***************************************************************************)
(* The statement.                                                          *)
(***************************************************************************)

Span(i, j) == [since |-> i, until |-> j]

Exact(i) == ~ledger[i].estimated /\ ledger[i].price = ledger[i].held.price
SameDay(i) == ledger[i].day = statement[ledger[i].held.row].day
Entered == {ledger[i].held.row : i \in DOMAIN ledger}
Reconciled(entries, i, j) == ~Mismatched(Build(entries, statement, Span(i, j), 0))

(* Reconciliation is silent about what was metered exactly, and tells of   *)
(* what was not: entries that are exact match the statement, over the      *)
(* whole time, and day by day unless a midnight fell between a response    *)
(* and its entry; a row without an entry, which ForwardUnmetered leaves,   *)
(* is a mismatch whatever the tolerance; and no entry is counted           *)
(* in two adjacent periods or in neither (Build, inPeriod, groupStatus).   *)
ReconciliationTells ==
  request = << >> =>
    /\ (\A i \in DOMAIN ledger : Exact(i)) =>
         /\ Entered = DOMAIN statement => Reconciled(ledger, 0, Days)
         /\ Entered # DOMAIN statement =>
              Mismatched(Build(ledger, statement, Span(0, Days), Days * 1000))
         /\ (\A i \in DOMAIN ledger : SameDay(i)) /\ Entered = DOMAIN statement =>
              \A d \in 0 .. Days - 1 : Reconciled(ledger, d, d + 1)
    /\ \A m \in Model, d \in 1 .. Days - 1 :
         LET left  == Aggregate(ledger, m, Span(0, d))
             right == Aggregate(ledger, m, Span(d, Days))
             both  == Aggregate(ledger, m, Span(0, Days))
         IN  both.records = left.records + right.records /\ both.cost = left.cost + right.cost
=============================================================================
