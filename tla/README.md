# spendlease in TLA+

`spendlease` is a gateway that stands between agents and AI vendors. An agent
presents a lease or a principal key; the gateway reserves the estimated cost
of the request against a hierarchy of budgets, forwards it with the vendor's
key, and settles the reservation into an append-only ledger when the response
has passed. These modules model that core, the PostgreSQL backend that replicas
share, the control plane, the metering of a response from the wire to the
vendor's statement, and the life of a fleet of gateways. TLC checks all of them
on small instances; TLAPS proves the safety of all of them for every instance.

## The system

| Component | State it keeps | Operations | What is hard |
|---|---|---|---|
| Datastore (`internal/store/sqlite`) | runs with a parent and a budget, leases with a ceiling and an expiry, reservations, settlements, the ledger, principals with a mode | create and close runs, create and revoke leases, `TryReserve`, `ResolveReservation`, `SettleReservation`, `AppendLedger`, `ExpirePendingReservations` | budgets shared by a subtree under concurrent requests, retried settlements, expiry against late charges |
| Gateway (`internal/gateway`: auth, proxy, record, observe) | one handler per request; what it read earlier: mode, run, lease, reservation | authenticate, decide, forward, observe the response, settle or release | state read long before it is used, failures on both sides of egress, clients that hang up, crashes |
| Kill switch (`revocation.go`) | a set of token hashes in the memory of each process | revoke a principal's leases, revoke one lease | memory first and rows second, failures and restarts in between, other processes |
| Sweeper (`sweeper.go`) | nothing | one pass at start and at each tick | it is the only thing that reclaims an abandoned hold |
| Ledger chain (`internal/ledger`) | hashes linking the entries | seal, verify, export | two processes sealing at once, verification of a part |
| PostgreSQL backend (`internal/store/postgres`) | the same tables, many processes | the same operations, with advisory locks | interleaving inside a transaction, concurrent migrations |
| Operators and access guard (`internal/operator`, `dashboard/auth.go`, `sqlite/operators.go`) | operators with a role, the audit trail | create, change, disable, rotate; guard a request by role | the final active admin, a mutation without an audit record |
| Vault (`internal/vault`, `sqlite/credentials.go`, `internal/keysource`) | encrypted vendor keys, a keyring | put, get, delete, rotate, verify | rotation against reads and writes |
| Alerts and metrics (`internal/observability`) | a bounded queue, counters | notify, deliver with retries, close | full queue, notify against close |
| Price book and estimates (`internal/pricing`, `internal/money`, `internal/billing`) | dated price files, reloaded atomically | look up, price, estimate, reload | aliases and dates, rounding, 64-bit overflow, a reload between estimate and charge |
| Response observer (`observe.go`, `providers/parse.go`) | partial lines and events | read, filter, finish once | any read boundary; end, error or close, finished once |
| Provider adapters, control plane, dashboard, reconciliation, command line, SDKs | none or configuration | translate, validate, display | little: they call the operations above |

They interact in three ways. Handlers, the kill switch, the sweeper, the
control plane, the dashboard and the command line all call the datastore, and
interleave there one transaction at a time. The kill switch shares the
revocation set with the handlers of its own process. The reverse proxy calls
back into the recorder: `ErrorHandler` and the response hook release, the end
or the close of the body records.

## What makes each part correct

* Datastore: enforced admissions fit every budget of the ancestry and the
  lease's ceiling; a hold is charged at most once; nothing starts below a
  closed run; the ledger only grows; every hold is reclaimed.
* Gateway: it fails closed in enforce mode before egress and open after it;
  it uses the datastore only through its operations; a reservation is given
  back early only when there was no answer; one answered request is at most
  one charge.
* Kill switch: a lease answered for by a revocation that succeeded is out, on
  every process.
* PostgreSQL backend: what one transaction at a time guarantees holds when
  replicas interleave statements; a transaction ends; appends never collide.
* Ledger chain: whatever replicas append verifies, and what was altered does
  not.
* Operators, guard, audit: an active admin remains; the trail names an attempt
  for everything that changed and a true result for everything that ended.
* Alerts: each event is in one place; those queued before a shutdown are
  delivered or given up on.
* Observer, adapters, price book, reconciliation: the client's stream is the
  vendor's; an entry not marked as an estimate is what the vendor billed; a
  hold covers its charge; reconciliation reports what does not match and only
  that.
* Vault and migrations: no vendor key is lost or brought back by a rotation;
  a serving gateway can read every credential; each migration is applied once,
  in order; a start gets through in the end.

## Modules

    Totals                sums of money as cardinalities
    BudgetStore           the datastore's budget operations          (EXTENDS Totals)
    MCBudgetStore         the instance TLC checks
    Gateway               handlers, kill switch, sweeper, processes  (EXTENDS BudgetStore)
    MCGateway             the instance TLC checks
    TotalsProofs          facts about sums
    EnforcementProofs     types, settlements, hierarchy, ledger,
                          budgets and ceilings, status
    GatewayProofs         refinement, egress, kill switch, charges

    LedgerChain           hashes, seal, VerifyChain
    SpendLog              what the ledger promises: an append-only log
    PostgresStore         transactions of replicas, by statement     (EXTENDS LedgerChain, Totals;
                          refines SpendLog, instantiates BudgetStore)
    PostgresProofs        locks, chain, settlements, refinement, budgets
    Alerts                the alert queue and its worker
    Console               guard, handlers, operators, shutdown       (EXTENDS BudgetStore, Alerts)
    ConsoleProofs         alert queue, operators, audit trail, results
    Pricing               price book, cost, estimates
    Adapters              billing classes, usage objects             (EXTENDS Pricing)
    Observer              observingReader
    Reconcile             ledger against statement                   (EXTENDS Pricing)
    Metering              a request from body to statement           (EXTENDS Adapters, Observer, Reconcile)
    ObserverProofs        folds, lines and events, what the reader makes of a response
    MeteringProofs        stream, entries, holds, statement  (EXTENDS Metering, ObserverProofs)
    Fleet                 start-up, migrations, vault, rotation
    FleetProofs           rotation, readability, migrations
    MC*                   the instances TLC checks

### BudgetStore

One action per operation of `sqlite.go`. Each is atomic because the code runs
it in one transaction: in one process under `reserveMu` and `appendMu` over a
single connection, and across processes on SQLite because a transaction whose
snapshot is stale cannot become a writer (it fails, which is a stutter here).
PostgreSQL interleaves statements of different transactions; that is
`PostgresStore`.

| Model | Code |
|---|---|
| `run`, `lease` | `runs.status`; `leases.revoked_at` and `expires_at` |
| `hold`, `overdue` | the row of `reservations`; whether its `expires_at` has passed |
| `ledger`, `settlement` | `ledger` in order of `seq`; `reservation_settlements` |
| `Ancestors`, `Subtree` | the two recursive queries, as least fixed points |
| `Held`, `Spent`, `LeaseHeld`, `LeaseSpent` | `subtreeUsage` and the ceiling query |
| `WouldBlock`, `TryReserve` | the decision and the insertion it guards |
| `SettleReservation`, `ReleaseReservation`, `ExpirePendingReservations` | the ways a hold ends |

Columns that no statement updates (parent, principal, budget, ceiling) are
constants. A call that returns an error changes nothing and is a stutter.
The field `enforced` of a hold is a history variable. `BudgetStatus` is what
the budget endpoint computes from one snapshot, level by level up the ancestry;
`StatusPredictsDecision` compares it with what `TryReserve` would decide.

### Gateway

A request is a record: where its handler is, and what the handler remembers.
Each datastore call of a handler is a step, so anything can happen between
two of them: a change of mode, a close, a revocation, a sweep, a crash. The
actions of a handler follow the code from `authenticate` (`PresentLease`,
`CheckLease`, `CheckLeaseRun`, `ReadMode`; `PresentKey`, `ResolveRun`,
`CreateImplicitRun`) through `handleProxy` (`Reject`, `ForwardUnmetered`,
`Reserve`, `ReserveRefused`, `ReserveFails`) to the answer (`UpstreamFails`,
`ResponseArrives`, `ResponseEnds`). `Reserve` covers the case that the
transaction commits and its result is lost, `ResponseEnds` the case that the
charge fails and is swallowed. `VendorBills` is the vendor's: the work is done
and will be billed, before anyone knows whether the answer arrives.

A call of the kill switch lists the runs (`RevokePrincipal`), denies the leases
of one run after the other in memory (`DenyRun`), and then revokes by one
statement whatever lease the principal has (`PersistRevocation`). A lease can be
issued between these steps, so `killed`, the evidence for `KilledLeasesStayOut`,
takes the leases there are when that statement commits (`AnsweredFor`), listed
or not.

`StoreSpec` is the specification of `BudgetStore`, checked as a property of
`Gateway`: every step of the deployment is an operation of the datastore or
leaves it alone.

### PostgresStore, LedgerChain, SpendLog

A session is a replica's connection, and `tx[s]` the transaction it is in: the
operation, the statement that comes next, and what earlier statements read. At
READ COMMITTED each statement sees what was committed before it began, so the
guards of a statement speak of the tables as they are, and of what was read
earlier only through `tx[s]`.

| Model | Code |
|---|---|
| `BudgetLockFree`, `LedgerLockFree` | `pg_advisory_xact_lock` of `lockBudgetTx` (per principal) and `lockLedgerTx` |
| `RowFree` | the row lock an `UPDATE` holds until its transaction ends |
| `ReadChain`, `ReadLevel`, `ReadCeiling`, `CommitHold` | `TryReserve`, one query each |
| `ReadHold`, `UpdateHold`, `ReadHead`, `CommitRow` | `SettleReservation` and `appendLedgerTx` |
| `rows` | `ledger`, with the fields of the chain |

A hash is a record of what it covers, so equal hashes have equal contents: the
collision freedom of SHA-256 is assumed. Rows of hash version 1 cover no
itemized usage; an old row may lie at the bottom of the ledger. `TamperEvident`
alters, drops and exchanges rows behind the ledger's back and asks whether
verification notices, which for the last row dropped, and the details of an old
row, it does not.

`KeepsSpendLog` is a refinement: with `log` mapped to the entries and the holds
they are charged to, every committed statement of every replica is one append of
`SpendLog` or a stutter. `Store == INSTANCE BudgetStore` carries over the
properties of the datastore that replicas keep. Its next-state relation as a
whole is not refined: a decision of one replica is made of several reads, in
between which others settle, which moves money from held to spent, release and
reclaim, so that it may refuse what no single state would refuse; it never
admits more than fits, which is `EnforcedWithinBudget` there.

### Console and Alerts

A handler under the guard has five steps: the credential is looked up once
(`Authenticate`), the attempt is recorded (`RecordAttempt`, 503 if it is not),
the handler reads (`ReadBefore`), changes (`Change`, one operation of
`BudgetStore` or the mode), and the result is recorded or an alert raised
(`RecordResult`). Any of these calls may fail, and `Change` and `RecordAttempt`
may fail after their commit. Handlers keep running while the process shuts down,
when the alert queue and then the datastore are closed under them; runServe's
order is `Shutdown`, `CloseAlerts`, `CloseStore`, `Exit`. `spendlease keys
operator` is a process of its own: a command is one statement after another
(`Find`, `Lock`, `ReadCurrent`, `CountAdmins`, `Update`) and its audit record
comes after the commit. `Alerts` is the queue: `Notify` under the read lock,
one worker, attempts, `Close`.

### Metering and the modules below it

One request after another, as they share nothing else here. `Forward` prices and
reserves, and the vendor draws up a row of its statement (`Bills`); `Copy`
(`Observer`) reads the response, every read cutting it anywhere; `Record` looks
the price up again and enters usage or an estimate. `ForwardUnmetered` is what
observe mode lets through without an entry. `Midnight` brings a new file of the
book into force.

A response is a sequence of symbols: `data:`, a payload, the end of a line,
other text. One payload is one symbol, as JSON that is cut short parses as
nothing. `Pieces` cuts at lines or at blank lines; `Read` is the pass-through
path, which observes what `handleLines` finds in lines, and `FillFiltered`,
`TakeFiltered` and `EndFiltered` the path that withholds the chunk the gateway
asked for, where `Kept` is what goes on to the client and `Seen` what is observed. Usage objects are records of numbers in the
shapes of the two vendors, and prices records of rates; `Cost` rounds each
category half up as the code does. What a request asks for that no token price covers
(`features`) costs a fee at the vendor, so `ReconciliationTells` fails if it is
ever metered.

Of vendors it is assumed what `VendorsReport` says: a payload ends
its event and no event has a second line of data, be it a payload or text
(`OneDataLine`; `eventPayload` takes the first non-empty one of any content, as
the code does), and the line fits the cap; what is reported of a whole
response (`ReportedIn`) is nothing or what is billed; and usage that comes in
pieces grows from piece to piece and never beyond that. This is not in the code,
which takes what it is told, and without it no entry could be called exact.

### Fleet

Gateways of different versions start on one database, each with a key
configuration: the old key, both, or the new one. `Start` and `applyOne` are the
migrations (SQLite: applied versions read once, a transaction for each; PostgreSQL:
one transaction under a lock), `VerifyList` and `VerifyOne` the check of every
credential, then the gateway serves. `Put` and `Delete` come from serving
gateways, `RotateRead` and `RotateCommit` are the two halves of
`RotateCredentials`, which on PostgreSQL keep writers out by the advisory lock and
on SQLite by the transaction, which cannot write once another has written since
it read (`UnchangedSinceRead`). The `FOR UPDATE` of the PostgreSQL query adds row
locks to the advisory one: whoever would wait for a row waits for the lock
already, so they are not modelled. `Deploy` follows the steps of docs/self-hosting.md ("Rotate
the master key"): all gateways have both keys before the command is run, and the
old one is dropped afterwards.

## Runs

| Run | Question | Result |
|---|---|---|
| `store_safety` | do the budgets, the ceiling, the links and the ledger survive every order of operations, and does the reported budget decide? | holds |
| `store_late_charge` | can children overspend a parent though everything was enforced and within its estimate? | they can: the hold expires, its room is reserved again, then the first charge arrives |
| `gateway_accounting` | two requests in one process: fail closed, charge once, release only without an answer, implement `BudgetStore` | holds |
| `gateway_revocation` | a lease, issued before the call or while it lists the runs, against the kill switch; two processes, a crash and a restart | holds |
| `gateway_liveness` | is a hold reclaimed, and does a closed run drain, when a request hangs or its process dies? | holds |
| `gateway_close` | does closing a run prevent new spend on it? | not in observe mode: a child's request is forwarded and charged although its parent is closed |
| `gateway_hang_up` | is billed work kept on record when the client hangs up? | not before the response headers: the hold is released and nothing is recorded |
| `postgres` | two replicas, statement by statement: budgets, settlements, chain, no transaction stuck, the ledger an append-only log | holds |
| `console` | does the audit trail answer for the datastore, is no result silent, does an admin remain, are alerts delivered? | holds |
| `metering` | is the client's stream whole, the entry exact, the charge within its hold, the statement matched? | holds |
| `metering_bound` | is what a strict request holds a safe upper bound? | not with cache writes: held at the plain input rate, charged at up to twice that |
| `fleet` | concurrent starts, migrations, crashes, rotation of the master key | holds |

The four violations are disagreements of the documentation with the code;
`PROJECT.json` quotes both. None of them contradicts `BudgetHolds`, which
names the four ways the code lets a budget be overrun: a hold admitted in
observe mode, a direct charge, a charge on an expired hold, a charge above its
estimate.

### Bounds

* Runs: a root, a child and, in `MCBudgetStore`, a run of another principal
  that names the root as its parent. Two levels are what the ancestry and the
  subtree need to differ; a third would repeat the step from one to two.
* Leases: one. `store_safety` has it on the root run, where onboarding can put
  it; the `gateway_*` runs and `postgres` have it on the child, where the
  budgets of two levels and the ceiling meet.
* Holds: two in `store_*`, `postgres` and `gateway_accounting` (two concurrent requests
  are what it takes to overbook); one where the question is about a request
  against the kill switch or a crash.
* Money: estimates 1 and 2 and costs 1 and 3 against budgets of 3 and 2 and a
  ceiling of 1, so that an estimate fits, does not fit, or fits only alone,
  and a charge is below or above what was held.
* `MaxEntries` bounds the ledger, `MaxCrashes` the crashes. One kill-switch
  call runs at a time; two calls only add to the same sets.
* `gateway_accounting` has no crash; crashes are in `gateway_revocation` and
  `gateway_liveness`, with one request.
* `postgres`: two sessions, a root and a child with a budget of 1 each, a lease
  on the child, two ledger rows besides an old one. Two transactions are what a
  race takes, and each operation has its turn with each other one.
* `console`: behaviours with two requests, a request and a command, or two
  commands; two admins and one identity that is free; a queue of one event, so
  that the second finds it full; two attempts per event (three in the code).
* `metering`: two days with a price change, two requests out of eight kinds;
  caps of three symbols on a body or a line, rates of a few units per two
  tokens, so that rounding, long context (from five tokens) and both estimates
  occur. One day and one request suffice for `metering_bound`, with rates per
  token so that rounding plays no part.
* `fleet`: two gateways, one a version behind, two providers, three vendor keys
  put in all, one crash; both backends.

Deadlock is not checked: a bounded ledger and a finite supply of requests and
identities end every behaviour.

### Fairness

`Fairness` (datastore) assumes that time reaches the expiry of a hold and that
the sweeper runs: its goroutine sweeps once at start and then at each tick
until shutdown. `GatewayFairness` adds that a stopped process is started again,
which is what a supervisor does; the sweep is fair while some process runs.
Nothing is assumed of handlers, vendors, clients or operators, which may stop
at any point. Failure of the sweep itself (a datastore that never answers
again) is excluded by the fairness of the sweep.

`Fairness` of `PostgresStore`: a statement that can run does, and a waiter for
an advisory lock gets it though others take it again and again (strong
fairness), as PostgreSQL serves its waiters in order. `ConsoleFairness`:
handlers and the alert worker get on, being goroutines; nobody has to send
requests, and the grace for draining alerts is not assumed to suffice, which
`AlertsAreDelivered` excepts. `FleetFairSpec`: a gateway whose start failed or
that crashed is started again (docs/self-hosting.md:84, `--restart
unless-stopped`) and its start goes on; nothing is assumed of operators.

## Proofs

The nine properties of `store_safety` are theorems, for every set of runs,
leases and holds, every hierarchy, budget, ceiling, estimate and cost.
The assumptions are those of `BudgetStore`: `RowIdentities` (finitely many
reservations, NULL is not an identity), `RowValues` (the columns have the
types of the schema), `Money` (amounts are natural numbers).

* `TypeCorrect` is inductive by itself. `SettlementsAreSound` needs it.
* `HierarchiesHaveOnePrincipal` rests on `AncestorsStep`: the ancestry of a run
  is the run and the ancestry of its parent, proved from the least fixed point
  by exhibiting a closed set, without induction. `SubtreeAncestors` says that
  the two recursive queries agree; it is what connects the check on the
  ancestry with the balance of the subtree.
* `ClosedRunsStayShut` and `ChargesStayFinal` are action properties and follow
  from the invariants above.
* `BudgetsAreEnforced` and `CeilingsAreEnforced` are the two halves of
  `WithinLimits`, which is inductive together with the type invariant and
  `SettlementIntegrity`. The argument: what is covered by enforced decisions is
  part of the balance `TryReserve` computes (`CoveredInBalance`,
  `CoveredUnderBalance`); so an estimate that fits the balance fits on top of
  what is covered (`FittingEstimate`, `CoverageGrows`); every other step only
  takes coverage away (`OtherStepsShrink`, `CoverageShrinks`): a settlement
  covers the lesser of the estimate and the charge, an expiry and a release
  nothing. The clamped subtraction of the code (`Remaining`) is what makes
  `FittingEstimate` true also when a limit is already overrun.
* `BudgetsHold` follows from `WithinLimits` without another induction: on a run
  to which none of the four exceptions happened, every pending hold and every
  entry is covered in full.
* `StatusIsPredictive` says that the two walks up the ancestry, the one that
  reports and the one that decides, agree in every state with sound types and
  settlements. The reported figure is a minimum over levels; `LeastNumber` gives
  it, from the well-foundedness of the natural numbers.

A sum of money is the number of single units the rows hold (`Totals`), so that
its properties follow from the library's theorems on finite sets: `TotalMatched`
(rows matched one to one with rows of at least their amount sum to no more) is
the one from which the others come.

`GatewayProofs` adds the deployment: any number of processes, requests,
principals and crashes, under `Deployment` (an implicit run is a root run of
its principal) and the assumptions above.

* `GatewayUsesTheStore` is the refinement: with the types and the fact that a
  request under a lease is on that lease's run (`GatewayTyped`, inductive),
  every step is a step of `BudgetStore` or a stutter, so the theorems above
  hold of every deployment. `GatewayTypeCorrect` follows.
* `RequestSteps` says whose step it is: between two steps of a request its
  record stays or is lost in a crash, and its hold stays or expires. The
  invariants below have one case per step of the request itself.
* `EnforcementFailsClosed` and `ClosingStopsEnforcedSpend` follow from
  `EgressSound`: the decision lies between authentication and egress
  (`DecidedBeforeEgress`); an enforce-mode request past it has a hold with its
  own run, lease and mode (`HoldBehind`); and a run closed when the request
  came in is still closed when it is decided (`StillShut`), so that
  `TryReserve` refuses.
* `RevocationIsFinal` rests on `KillSound`: the leases a completed revocation
  answers for are revoked or expired, and those never return; the one in
  progress answers for leases of its target only. What processes have in
  memory plays no part in the proof: the row alone keeps the lease out, and
  the memory only makes it sooner.
* `HoldsOutliveTheirAnswer` is inductive with the types.
  `EntriesMatchResponses` needs that a request is charged only in its last
  step, and counts entries and charged requests together.

`ConsoleProofs` takes any number of requests, identities, commands and tokens
(`TokenBound`: there is a token; `AuditAlerts`: a request whose record fails may
be the subject of an alert).

* `ConsoleKeepsAnAdmin` is an action property, and follows from
  `OperatorsGuarded`, which is inductive: one transaction is open at a time
  (`OneTransaction`, from the guard of `Lock`); the operator a command found stays
  in the table (`NoOperatorVanishes`); and a command about to take an active admin
  away leaves another. The last part survives the steps of other commands because
  only `Insert` changes operators without the lock, and it takes a free name.
* `AuditAnswersForDatastore` and `EveryResultIsToldOf` follow from `ConsoleInv`,
  which says of each request (`RequestInv`) what its handler has recorded and
  achieved where it stands. `EffectStep` says which row a mutation may change,
  whether its call succeeded or failed after its commit; `AchievedStays` says that
  nothing any other request does takes an achievement back, because closed and
  revoked are final and an agent that exists stays.
* The first section of `ConsoleProofs` has the queue: no event is in two of the six places and none is
  queued twice (`AlertsInv`), and each step adds to what is known only the event
  notified. An event is notified once because a request raises its alert in its
  last step, which is a part of `RequestInv`.

`FleetProofs` takes any number of gateways, versions, providers, vendor keys and
crashes (`Binaries`: the versions and the bounds are numbers).

* `RotationLosesNoCredential` and `VaultStaysReadable` rest on `VaultInvariant`:
  what a rotation on PostgreSQL is about to write back is still what is in the
  table (`BatchIsCurrent`, as its writers wait; on SQLite its commit finds out);
  and the stages of a change of the master key (`KeyStages`): there is a row under
  the new key only when some gateway has that key, no gateway has the new key
  alone before everything is under it, none the old one alone from the start of
  the rotation on.
* `MigrationsInOrder` rests on `SchemaInvariant`: the versions applied are an
  interval from one, a gateway past its migrations has all of its own applied, and
  one that is applying them has the last of its own left, from one that is applied
  or the next, as another gateway may have gone ahead (`Applying`).

`PostgresProofs` takes any number of replicas, principals, runs, leases and
holds, and a ledger of any length. The assumptions are those of `BudgetStore` for
the columns (`RowIdentities`, `RowValues`, `Money`) and that requests are for rows
there are (`Requests`). `RowValues` says besides that a run and its parent have one
principal: `CreateRun` (sqlite.go:385) refuses any other, no statement updates
either column, and `HierarchiesHaveOnePrincipal` is the theorem about it where
runs are created.

* `TransactionsAreSound` is the inductive invariant (`SharedInv`). It says what a
  transaction may be between any two of its statements: at most one is past the
  lock on the head of the ledger (`OneHead`) and one past each principal's
  (`OneBudget`); a row that is sealed was made of the head as it still is
  (`Sealed`, a set that changes with the ledger, so that an append by another
  would be noticed); and a settlement that has read its hold still has it to
  charge, though it may have expired meanwhile (`ToCharge`). `PostgresTypes` and
  `RowsAreSealedOntoHead` are parts of it.
* `LedgerVerifies` adds that each row is sealed onto the one before (`Chained`).
  `TamperingShows` follows from it without another induction: a hash that covers a
  field differs when the field does (`HashCovers`, `DigestsDiffer`), so the altered
  row no longer has its own hash, and the row after one that was dropped or
  exchanged no longer has the hash of what is before it now.
* `SharedSettlementsAreSound` is inductive with `SharedInv`: the row is appended,
  linked and the hold updated in one COMMIT, and `ToCharge` says on what.
* `ReplicasKeepOneLog` is the refinement of `SpendLog`, step by step: a COMMIT
  of a row is an append with the hold it charges or with none (`LogAppended`), any
  other step leaves the log as it is.
* `SharedClosedRunsStayShut` needs that a decision which has read its ancestry
  finds it active to the end (`DecisionsOnActive`): who wants to close a run of it
  waits for the lock of its principal, which is that of the whole ancestry
  (`OneOwner`).
* `SharedBudgetsAreEnforced` rests on `Budgeted`. A decision that enforces and has
  found no limit exceeded has room for its estimate above every level it has read
  (`Room`), although the tables have changed since: another admission below the
  same level would need the lock (`NoOneElseAdmits`), and whatever else happens
  only takes from what enforced holds answer for (`OthersShrink`,
  `SettlementShrinks`). That a read of one level finds room is the fact about
  balances proved for `BudgetStore` (`CoveredInBalance`), cited here through the
  instance `Enf` of `EnforcementProofs` over the same tables; `StoreAssumptions`
  proves the assumptions of that module for it.

`ObserverProofs` and `MeteringProofs` take any price book, requests, responses of
any length, reads that cut them anywhere, and any number of days and requests.
The assumptions are `BookIsValid` (what `validate` lets pass), `RequestsAreRead`
(what the adapters read out of a request) and `VendorsReport`, above; TLC
evaluates the three of them on its instances.

* What the operators on sequences compute is proved, though the library's
  induction theorems cannot be used. `FoldLeft` and `FlattenSeq` are defined by a
  CHOOSE over functions of finite sets; `FoldsPlacesSome` shows that such a
  function exists, and `PlacesFold` that it folds a sequence from the left, one
  element at a time. Induction is that a set of numbers, or of sequences, with the
  first and with each next is all of them (`FromZero`, `FromEmpty`). From that come
  the equations `PiecesAppend`, `FlattenAppend`, `AggregateAppend`, with which every
  later proof works instead of the definitions.
* `PiecesCompose` is why reads may cut a response anywhere: to cut the left-over
  of one read together with the next read is to cut both at once. `BlocksSeen` and
  `LinesRead` say that what the two paths observe of whole events, or of whole
  lines, and of the left-over are the payloads of the response.
* `FaithfulStreams` rests on `Copied`, the invariant of the reader: what has come of
  the response is a part of it, and each field is a function of that part alone
  (`PassedOn` for the plain path, `Filtered` for the other). `CopiedStep` has a
  case for each action of `Copy`; `CopiedShows` is what the client, and the
  recorder, see of it. A body over the cap, a line over the cap and a broken
  connection are cases of the invariant.
* `EntriesExact` and `ChargesWithinHolds` rest on `Books`, which is inductive once
  the stream is faithful: the reservation of the request being served was made of
  it, at a price of the book (`Holding`), and each entry is charged for what was
  reported or for what was estimated (`Settlement`). The charge is within the hold
  by `PaidWithinHold`: each of four categories of input is rounded on its own, and
  the hold rounds them once, so that they may come to two units more; the output
  to none (`RateGrows`). This is the least bound. When a price file came
  into effect between hold and charge, the hold the request would have had at the
  new price takes the place of its own (`PriceChange`): the charge exceeds it by the
  rounding only. Output that is estimated for
  a request without one is outside its hold and is set apart (`UnheldOutput`). The
  conditions in `ChargeWithinHold` that the code does not establish (the vendor kept
  to the limits, no token is dearer than a hold at that price is made for) name what
  the bound depends on; `metering_bound` shows what happens when a token is dearer.
* `ReconciliationsTell` rests on `Reconciles` and `Adds`. Every step adds a row and
  the entry that is due for it (`Reserves`), a row that will have no entry
  (`Slips`), or leaves the balance as it is (`Keeps`: an entry takes the place of
  what was due). So the statement comes to what is entered and due, over all the
  days and day by day (`Agrees`), and to more in some category of usage when a row
  slipped (`Tells`). The tolerance plays no part, as it is on money alone. That
  adjacent periods add up (`Adds`) is an induction of its own.

Model-checked only: liveness (`HoldsAreReclaimed`, `ClosedRunsDrain`,
`TransactionsEnd`, `AlertsAreDelivered`, `GatewaysGetThrough`), as fairness and
ENABLED are out of the prover's reach; and the four violations, which are
counterexamples on an instance. Every invariant and action property of the passing
runs is a theorem.

## Not modelled

* In `BudgetStore` and `Gateway`, the estimate, prices and tokens: a reservation
  takes any amount of a set and a charge any cost of a set, independently, which
  contains every estimate the code can make. `Metering` has the numbers.
* Instants: a lease or a hold is expired or not, and time may pass at any
  moment; `Metering` knows days. The order of timestamps stored as text
  (RFC3339Nano drops trailing zeros) is not modelled.
* The width of integers: amounts are natural numbers. The product of a
  `max_tokens` and a rate can exceed 64 bits, which TLC's own integers cannot
  hold either.
* Names, scopes and headers: a request that fails one of these checks is
  `Reject`, whatever the reason. The in-flight limit: a slot is returned by a
  deferred receive. Metrics, pages, exports, the parsing of YAML, CSV and forms,
  and the SDKs: no state of the system depends on them.
* Key sources: how a master key comes out of a file or a command, and the key
  file of development mode, which two processes starting at once would both
  write.
* `BudgetStatus` on PostgreSQL, whose statements see commits in between; the
  endpoint reports, it does not decide. What is reported can be out of date when the
  next request comes: `StatusPredictsDecision` is about the two walks in one state,
  and says nothing of a later one.

Assumptions worth knowing: lines of a stream end in a line feed (with CRLF the
withholding path finds no event boundary until the end); a stream that ends
without an error had ended at the vendor; on the withholding path the partial
event has no cap. A line over the cap is dropped on the plain
path; that it reports no usage is assumed, as the entry would not be marked as
an estimate for it.

## Where the documentation is loose

Besides the four findings: docs/self-hosting.md:317 says that the webhook
"retries three times" where `deliver` makes three attempts in all (`Attempts`); and
docs/self-hosting.md:215 says that replicas never face a half-rotated vault,
which `ReadableVault` grants once no gateway with the old key alone is left: one
that is still to be redeployed cannot read a vendor key that a redeployed one has
stored. The comment on the long-context threshold (internal/pricing/book.go:97)
says the rates apply once it is exceeded, where `Cost`, docs/pricing-book.md:147 and
the price files apply them at it. And docs/reserve-and-settle.md:28 says that
embeddings reserve input only, which they do; but when the response of one is cut
short or reports no usage, `estimate` charges output all the same, for which nothing
was held: the part of a charge that `ChargeWithinHold` sets apart as `UnheldOutput`.

## Plan

1. `BudgetStore`, `Totals`, `Gateway`, their runs and proofs. Done.
2. `LedgerChain`, `SpendLog`, `PostgresStore`. Modelled, checked, and proved but
   for `TransactionsEnd`.
3. `Console` with `Alerts`. Modelled, checked, and proved but for
   `AlertsAreDelivered`.
4. `Metering` with `Pricing`, `Adapters`, `Observer`, `Reconcile`. Modelled,
   checked and proved.
5. `Fleet`: vault, rotation, migrations. Modelled, checked, and proved but for
   `GatewaysGetThrough`.
6. Left: the in-flight limit, timestamps as text, 64-bit amounts.
