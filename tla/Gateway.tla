------------------------------ MODULE Gateway -------------------------------
(***************************************************************************)
(* Gateway processes in front of one datastore: the life of a request from *)
(* its credential to its charge (internal/gateway), the revocation kill    *)
(* switch, the reservation sweeper, and processes that crash and restart.  *)
(*                                                                         *)
(* A request reserves at most one row, under an identifier of its own, so  *)
(* the elements of Hold name requests as well as reservations.  Between    *)
(* two datastore calls of a request anything else may happen; what the     *)
(* code remembers across them (the mode, the run, the lease, whether it    *)
(* holds a reservation) is in the request's record.                        *)
(***************************************************************************)
EXTENDS BudgetStore

CONSTANTS
  Process,       \* gateway processes
  NoProcess,
  NoCall,        \* no revocation call is in progress
  ImplicitRun,   \* ImplicitRun[p]: the run of a principal key that names none
  MaxCrashes     \* bound on the number of crashes

ASSUME Deployment ==
  /\ NoProcess \notin Process
  /\ ImplicitRun \in [Principal -> Run]
  /\ \A p \in Principal : Owner[ImplicitRun[p]] = p /\ Parent[ImplicitRun[p]] = NoRun
  /\ MaxCrashes \in Nat

VARIABLES
  up,        \* the processes that are running
  crashes,   \* the number of crashes so far
  mode,      \* mode[p]: principals.mode
  denied,    \* denied[g]: the RevocationSet in the memory of process g
  kill,      \* the KillSwitch call in progress
  killed,    \* history: the leases a completed revocation answers for
  request    \* request[h]: the handler of request h

requestVars == <<request>>
killVars == <<denied, kill, killed>>
gatewayVars == <<up, crashes, mode, denied, kill, killed, request>>
allVars == <<vars, gatewayVars>>

Mode == {"observe", "enforce"}

(* Where a handler is: row, lease, run, key and create between the reads   *)
(* of authenticate; authed before the budget decision; sent when the       *)
(* reverse proxy has the request; body while a 2xx response streams past;  *)
(* and the ways it ends.                                                   *)
Before   == {"row", "lease", "run", "key", "create", "authed"}
Upstream == {"sent", "body"}
Ended   == {"rejected", "failed", "served", "lost"}
InFlight == Before \cup Upstream

(* class is what handleProxy made of the route and the body: spend it can  *)
(* meter, spend it cannot, or no spend at all; undecided until then.       *)
(* billed, left, charges and shut are history fields: the vendor did the   *)
(* work; the client hung up before the response; the ledger entries        *)
(* appended for the request; some run of its ancestry was closed when its  *)
(* credential came in.                                                     *)
Class == {"undecided", "metered", "unmetered", "no_spend"}

RequestState ==
  [pc       : {"idle"} \cup InFlight \cup Ended,
   proc     : Process \cup {NoProcess},
   run      : Run \cup {NoRun},
   lease    : Lease \cup {NoLease},
   mode     : Mode,
   class    : Class,
   reserved : BOOLEAN,
   billed   : BOOLEAN,
   left     : BOOLEAN,
   charges  : Nat,
   shut     : BOOLEAN]

NoRequest ==
  [pc |-> "idle", proc |-> NoProcess, run |-> NoRun, lease |-> NoLease,
   mode |-> "observe", class |-> "undecided", reserved |-> FALSE,
   billed |-> FALSE, left |-> FALSE, charges |-> 0, shut |-> FALSE]

(* RevokePrincipal visits runs to fill the set; RevokeLease names a lease. *)
KillCall ==
  [proc : Process, principal : Principal, lease : Lease \cup {NoLease},
   runs : SUBSET Run]

GatewayTypeOK ==
  /\ TypeOK
  /\ up \subseteq Process
  /\ crashes \in 0 .. MaxCrashes
  /\ mode \in [Principal -> Mode]
  /\ denied \in [Process -> SUBSET Lease]
  /\ kill \in KillCall \cup {NoCall}
  /\ killed \subseteq Lease
  /\ request \in [Hold -> RequestState]

(* A new principal observes.                                               *)
GatewayInit ==
  /\ Init
  /\ up = Process
  /\ crashes = 0
  /\ mode = [p \in Principal |-> "observe"]
  /\ denied = [g \in Process |-> {}]
  /\ kill = NoCall
  /\ killed = {}
  /\ request = [h \in Hold |-> NoRequest]

-----------------------------------------------------------------------------
(***************************************************************************)
(* authenticate.  A rejected credential leaves no trace.                   *)
(***************************************************************************)

At(h, pc) == request[h].pc = pc

Goto(h, pc) == request' = [request EXCEPT ![h].pc = pc]

(* A handler that is over before egress leaves nothing behind.             *)
Gone(pc) == [NoRequest EXCEPT !.pc = pc]

Rejected(h) == request' = [request EXCEPT ![h] = Gone("rejected")]

Present(h, g, r, l, pc, m) ==
  /\ At(h, "idle") /\ g \in up
  /\ request' = [request EXCEPT ![h] =
       [NoRequest EXCEPT !.pc = pc, !.proc = g, !.run = r, !.lease = l,
                         !.mode = m, !.shut = \E n \in Ancestors[r] : run[n] = "closed"]]
  /\ UNCHANGED <<vars, up, crashes, mode, killVars>>

(* The memory of this process first, then the row: the token must be known *)
(* and its lease neither revoked nor expired.                              *)
PresentLease(h, g, l) ==
  /\ l \notin denied[g]
  /\ lease[l] # "absent"
  /\ Present(h, g, LeaseRun[l], l, "row", "observe")

CheckLease(h) ==
  /\ At(h, "row")
  /\ IF lease[request[h].lease] = "live" THEN Goto(h, "lease") ELSE Rejected(h)
  /\ UNCHANGED <<vars, up, crashes, mode, killVars>>

(* Only the lease's own run is looked at here, not its ancestry.           *)
CheckLeaseRun(h) ==
  /\ At(h, "lease")
  /\ IF run[request[h].run] = "active" THEN Goto(h, "run") ELSE Rejected(h)
  /\ UNCHANGED <<vars, up, crashes, mode, killVars>>

(* The mode in force for this request is the one read now.                 *)
ReadMode(h) ==
  /\ At(h, "run")
  /\ request' = [request EXCEPT ![h].pc = "authed",
                                ![h].mode = mode[Owner[request[h].run]]]
  /\ UNCHANGED <<vars, up, crashes, mode, killVars>>

(* A principal key, with the run its header names or its implicit run; the *)
(* run of another principal is rejected.                                   *)
PresentKey(h, g, r) == Present(h, g, r, NoLease, "key", mode[Owner[r]])

ResolveRun(h) ==
  LET r == request[h].run
  IN  /\ At(h, "key")
      /\ CASE run[r] = "active" -> Goto(h, "authed")
           [] run[r] = "absent" /\ r = ImplicitRun[Owner[r]] -> Goto(h, "create")
           [] OTHER -> Rejected(h)
      /\ UNCHANGED <<vars, up, crashes, mode, killVars>>

(* Two first requests may both find no implicit run; the one whose insert  *)
(* conflicts goes on as if it had created it.                              *)
CreateImplicitRun(h) ==
  LET r == request[h].run
  IN  /\ At(h, "create")
      /\ \/ CreateRun(r)
         \/ run[r] # "absent" /\ UNCHANGED vars
      /\ Goto(h, "authed")
      /\ UNCHANGED <<up, crashes, mode, killVars>>

-----------------------------------------------------------------------------
(***************************************************************************)
(* handleProxy, up to the vendor.                                          *)
(***************************************************************************)

Enforcing(h) == request[h].mode = "enforce"

(* No route, scope, vendor credential or readable body; in enforce mode    *)
(* also spend that cannot be bounded (422).                                *)
Reject(h) ==
  /\ At(h, "authed")
  /\ Rejected(h)
  /\ UNCHANGED <<vars, up, crashes, mode, killVars>>

(* Either mode forwards a route that costs nothing; observe mode also what *)
(* it cannot meter.  Neither is ever charged.                              *)
ForwardUnmetered(h) ==
  /\ At(h, "authed")
  /\ \E class \in {"unmetered", "no_spend"} :
       /\ Enforcing(h) => class = "no_spend"
       /\ request' = [request EXCEPT ![h].pc = "sent", ![h].class = class]
  /\ UNCHANGED <<vars, up, crashes, mode, killVars>>

(* Mutant: the gateway fails open.                                         *)
MutAfterReserveError(h) ==
  request' = [request EXCEPT ![h].pc = "sent", ![h].class = "metered"]

(* Without a decision enforce mode fails closed and observe mode forwards, *)
(* to be charged directly.                                                 *)
AfterReserveError(h) ==
  IF Enforcing(h)
  THEN Rejected(h)
  ELSE request' = [request EXCEPT ![h].pc = "sent", ![h].class = "metered"]

(* Reserve; the transaction may commit and its result be lost.             *)
Reserve(h, a) ==
  /\ At(h, "authed")
  /\ TryReserve(h, request[h].run, request[h].lease, a, Enforcing(h))
  /\ \/ request' = [request EXCEPT ![h].pc = "sent", ![h].class = "metered",
                                   ![h].reserved = TRUE]
     \/ AfterReserveError(h)
  /\ UNCHANGED <<up, crashes, mode, killVars>>

(* 402: the decision is that the estimate does not fit.                    *)
ReserveRefused(h, a) ==
  /\ At(h, "authed") /\ Enforcing(h)
  /\ AncestryActive(request[h].run)
  /\ WouldBlock(request[h].run, request[h].lease, a)
  /\ Rejected(h)
  /\ UNCHANGED <<vars, up, crashes, mode, killVars>>

(* A closed run in the ancestry, or a datastore that does not answer.      *)
ReserveFails(h) ==
  /\ At(h, "authed")
  /\ AfterReserveError(h)
  /\ UNCHANGED <<vars, up, crashes, mode, killVars>>

-----------------------------------------------------------------------------
(***************************************************************************)
(* The vendor, and what comes back.                                        *)
(***************************************************************************)

(* The vendor does the work and will bill it.                              *)
VendorBills(h) ==
  /\ At(h, "sent") /\ ~request[h].billed /\ request[h].class # "no_spend"
  /\ request' = [request EXCEPT ![h].billed = TRUE]
  /\ UNCHANGED <<vars, up, crashes, mode, killVars>>

(* Mutant: the row is updated whatever its status is.                      *)
MutRelease(h) ==
  IF request[h].reserved
  THEN /\ hold' = [hold EXCEPT ![h].status = "released"]
       /\ UNCHANGED <<runVars, overdue, ledger, settlement>>
  ELSE UNCHANGED vars

(* Recorder.Release: an error, or a hold already resolved, is ignored.     *)
Release(h) ==
  \/ request[h].reserved /\ ReleaseReservation(h)
  \/ UNCHANGED vars

(* A non-2xx response, or no response, or the client gone: ErrorHandler    *)
(* and the response hook release the hold.  A vendor does not bill what it *)
(* answers with an error, but may have billed what it did not get to       *)
(* answer.                                                                 *)
UpstreamFails(h, clientLeft) ==
  /\ At(h, "sent")
  /\ Release(h)
  /\ request' = [request EXCEPT ![h].pc = "failed", ![h].left = clientLeft]
  /\ UNCHANGED <<up, crashes, mode, killVars>>

(* The headers of a 2xx response; the body is observed as it passes.       *)
ResponseArrives(h) ==
  /\ At(h, "sent") /\ (request[h].billed \/ request[h].class = "no_spend")
  /\ Goto(h, "body")
  /\ UNCHANGED <<vars, up, crashes, mode, killVars>>

(* Settle, or append directly for want of a reservation.                   *)
Charge(h, c) ==
  /\ request[h].class = "metered"
  /\ LedgerBound
  /\ IF request[h].reserved THEN SettleReservation(h, c)
                            ELSE AppendLedger(request[h].run, c)

(* Mutants: the hook runs at the end and again on close; a hold that could *)
(* not be settled is let go.                                               *)
MutTwice(h, c) ==
  /\ At(h, "body")
  /\ \/ /\ Charge(h, c)
        /\ \E pc \in {"body", "served"} :
             request' = [request EXCEPT ![h].pc = pc, ![h].charges = @ + 1]
     \/ UNCHANGED vars /\ Goto(h, "served")
  /\ UNCHANGED <<up, crashes, mode, killVars>>

MutLetGo(h, c) ==
  /\ At(h, "body")
  /\ \/ /\ Charge(h, c)
        /\ request' = [request EXCEPT ![h].pc = "served", ![h].charges = @ + 1]
     \/ Release(h) /\ Goto(h, "served")
  /\ UNCHANGED <<up, crashes, mode, killVars>>

(* The body ends or the client hangs up: Record runs, once.  An error of   *)
(* the datastore is logged and swallowed, and the hold stays as it is.     *)
ResponseEnds(h, c) ==
  /\ At(h, "body")
  /\ \/ /\ Charge(h, c)
        /\ request' = [request EXCEPT ![h].pc = "served", ![h].charges = @ + 1]
     \/ UNCHANGED vars /\ Goto(h, "served")
  /\ UNCHANGED <<up, crashes, mode, killVars>>

-----------------------------------------------------------------------------
(***************************************************************************)
(* Processes.                                                              *)
(***************************************************************************)

(* Handlers and memory are gone; the datastore and the vendor are not.     *)
Crash(g) ==
  /\ g \in up /\ crashes < MaxCrashes
  /\ up' = up \ {g}
  /\ crashes' = crashes + 1
  /\ denied' = [denied EXCEPT ![g] = {}]
  /\ kill' = IF kill # NoCall /\ kill.proc = g THEN NoCall ELSE kill
  /\ request' = [h \in Hold |->
       IF request[h].proc = g /\ request[h].pc \in InFlight
       THEN Gone("lost") ELSE request[h]]
  /\ UNCHANGED <<vars, mode, killed>>

Restart(g) ==
  /\ g \notin up
  /\ up' = up \cup {g}
  /\ UNCHANGED <<vars, crashes, mode, denied, kill, killed, request>>

(* Mutant: the sweeper is not started again.                               *)
MutSweep ==
  /\ up # {} /\ crashes = 0
  /\ ExpirePendingReservations
  /\ UNCHANGED gatewayVars

(* The sweeper of any running process.                                     *)
Sweep ==
  /\ up # {}
  /\ ExpirePendingReservations
  /\ UNCHANGED gatewayVars

-----------------------------------------------------------------------------
(***************************************************************************)
(* The kill switch: memory first, then the rows.                           *)
(***************************************************************************)

LeasesOn(r) == {l \in Lease : LeaseRun[l] = r /\ lease[l] # "absent"}

RevokePrincipal(g, p) ==
  /\ kill = NoCall /\ g \in up
  /\ kill' = [proc |-> g, principal |-> p, lease |-> NoLease,
              runs |-> {r \in Run : Owner[r] = p /\ run[r] # "absent"}]
  /\ UNCHANGED <<vars, up, crashes, mode, denied, killed, request>>

DenyRun(r) ==
  /\ kill # NoCall /\ r \in kill.runs
  /\ denied' = [denied EXCEPT ![kill.proc] = @ \cup LeasesOn(r)]
  /\ kill' = [kill EXCEPT !.runs = @ \ {r}]
  /\ UNCHANGED <<vars, up, crashes, mode, killed, request>>

RevokeOneLease(g, l) ==
  /\ kill = NoCall /\ g \in up /\ lease[l] # "absent"
  /\ denied' = [denied EXCEPT ![g] = @ \cup {l}]
  /\ kill' = [proc |-> g, principal |-> Owner[LeaseRun[l]], lease |-> l,
              runs |-> {}]
  /\ UNCHANGED <<vars, up, crashes, mode, killed, request>>

(* The rows the call has to change.                                        *)
ToRevoke ==
  IF kill.lease = NoLease
  THEN {l \in LeasesOfPrincipal(kill.principal) : lease[l] = "live"}
  ELSE {l \in {kill.lease} : lease[l] # "revoked"}

(* What a call that succeeds now answers for: every lease there is of the  *)
(* principal, those too that were issued after its runs were listed.       *)
AnsweredFor ==
  IF kill.lease = NoLease
  THEN {l \in LeasesOfPrincipal(kill.principal) : lease[l] # "absent"}
  ELSE {kill.lease}

(* Mutant: only the leases that were listed are revoked.                   *)
MutPersistRevocation ==
  /\ kill # NoCall /\ kill.runs = {}
  /\ lease' = [l \in Lease |-> IF l \in ToRevoke \cap denied[kill.proc] THEN "revoked" ELSE lease[l]]
  /\ killed' = killed \cup AnsweredFor
  /\ kill' = NoCall
  /\ UNCHANGED <<run, moneyVars, up, crashes, mode, denied, request>>

PersistRevocation ==
  /\ kill # NoCall /\ kill.runs = {}
  /\ \/ kill.lease = NoLease /\ RevokeLeasesForPrincipal(kill.principal)
     \/ kill.lease # NoLease /\ RevokeLease(kill.lease)
     \/ ToRevoke = {} /\ UNCHANGED vars
  /\ killed' = killed \cup AnsweredFor
  /\ kill' = NoCall
  /\ UNCHANGED <<up, crashes, mode, denied, request>>

(* An error of the datastore, at any point, fails the call; what the       *)
(* memory already denies stays denied.                                     *)
RevocationFails ==
  /\ kill # NoCall
  /\ kill' = NoCall
  /\ UNCHANGED <<vars, up, crashes, mode, denied, killed, request>>

-----------------------------------------------------------------------------

(* Mutant: a mode that is neither is accepted.                             *)
MutSetPrincipalMode(p, m) ==
  /\ mode' = [mode EXCEPT ![p] = IF m = "observe" THEN "off" ELSE m]
  /\ UNCHANGED <<vars, up, crashes, killVars, requestVars>>

(* An operator or the command line changes a principal's mode.             *)
SetPrincipalMode(p, m) ==
  /\ mode[p] # m
  /\ mode' = [mode EXCEPT ![p] = m]
  /\ UNCHANGED <<vars, up, crashes, killVars, requestVars>>

Authenticate(h) ==
  \/ \E g \in Process, l \in Lease : PresentLease(h, g, l)
  \/ \E g \in Process, r \in Run : PresentKey(h, g, r)
  \/ CheckLease(h) \/ CheckLeaseRun(h) \/ ReadMode(h) \/ ResolveRun(h) \/ CreateImplicitRun(h)

Decide(h) ==
  \/ Reject(h) \/ ForwardUnmetered(h) \/ ReserveFails(h)
  \/ \E a \in Amounts : Reserve(h, a) \/ ReserveRefused(h, a)

Exchange(h) ==
  \/ VendorBills(h) \/ ResponseArrives(h)
  \/ \E clientLeft \in BOOLEAN : UpstreamFails(h, clientLeft)
  \/ \E c \in Costs : ResponseEnds(h, c)

Administer ==
  /\ \/ \E r \in Run : CreateRun(r) \/ CloseRun(r)
     \/ \E l \in Lease : LeaseOperation(l)
     \/ \E p \in Principal : RevokeLeasesForPrincipal(p)
     \/ \E h \in Hold : TtlPasses(h)
  /\ UNCHANGED gatewayVars

Revocation ==
  \/ \E g \in Process : \/ \E p \in Principal : RevokePrincipal(g, p)
                        \/ \E l \in Lease : RevokeOneLease(g, l)
  \/ \E r \in Run : DenyRun(r)
  \/ PersistRevocation \/ RevocationFails

GatewayNext ==
  \/ \E h \in Hold : Authenticate(h) \/ Decide(h) \/ Exchange(h)
  \/ \E g \in Process : Crash(g) \/ Restart(g)
  \/ Sweep
  \/ Revocation
  \/ \E p \in Principal, m \in Mode : SetPrincipalMode(p, m)
  \/ Administer

GatewaySpec == GatewayInit /\ [][GatewayNext]_allVars

(* Time passes, a stopped process is started again, and a running one      *)
(* sweeps.  Handlers, vendors and clients may hang for ever.               *)
GatewayFairness ==
  /\ \A h \in Hold : WF_allVars(TtlPasses(h) /\ UNCHANGED gatewayVars)
  /\ \A g \in Process : WF_allVars(Restart(g))
  /\ WF_allVars(Sweep)

GatewayFairSpec == GatewaySpec /\ GatewayFairness

-----------------------------------------------------------------------------
(***************************************************************************)
(* Properties.                                                             *)
(***************************************************************************)

(* However handlers, revocations, crashes and operators interleave, the    *)
(* datastore is used only through its operations: what is shown of those   *)
(* holds in every deployment.                                              *)
StoreSpec == Spec

(* Enforcement fails closed: whatever an enforce-mode request had the      *)
(* vendor bill is metered and had a hold on its own run and lease that was *)
(* decided in enforce mode, although the mode may change at any moment.    *)
EnforcedEgress ==
  \A h \in Hold : Enforcing(h) /\ request[h].billed =>
    /\ request[h].class = "metered" /\ request[h].reserved
    /\ hold[h].enforced
    /\ hold[h].run = request[h].run /\ hold[h].lease = request[h].lease

(* No enforce-mode request that came in when a run was closed costs        *)
(* anything on that run or below it, although authentication looks only at *)
(* the request's own run.                                                  *)
ClosedRunsStopEnforced ==
  \A h \in Hold : Enforcing(h) /\ request[h].billed => ~request[h].shut

(* A hold is given back early only when the vendor gave no 2xx response;   *)
(* after egress a failure to settle leaves it to its TTL.                  *)
ReleasedMeansFailed ==
  \A h \in Hold : hold[h].status = "released" => request[h].pc = "failed"

(* Every ledger entry is the one charge of one answered request.           *)
EntriesAreResponses ==
  /\ Len(ledger) = Cardinality({h \in Hold : request[h].charges = 1})
  /\ \A h \in Hold : request[h].charges # 0 =>
       /\ request[h].charges = 1
       /\ request[h].pc = "served" /\ request[h].billed /\ request[h].class = "metered"
       /\ request[h].reserved <=> settlement[h] # 0

(* After a revocation that succeeded no process admits a lease that there  *)
(* was of its target when it did, be it one issued while the runs were     *)
(* listed, whatever a process had in memory, whoever restarted since, and  *)
(* wherever the request stood between the two checks of its token          *)
(* (RevokePrincipal, RevokeLease).                                         *)
KilledLeasesStayOut ==
  [][\A h \in Hold : request'[h].pc = "lease" /\ request[h].pc = "row" =>
       request'[h].lease \notin killed]_allVars

(* What a doc says: closing a run prevents new spend on it.  A request     *)
(* that came in after the close is never charged below the closed run.     *)
ClosingStopsSpend ==
  \A h \in Hold : request[h].charges # 0 => ~request[h].shut

(* What a doc says: hanging up does not erase spend incurred upstream.  A  *)
(* hold on work the vendor bills is not released because the client left.  *)
HangingUpErasesNoSpend ==
  \A h \in Hold : request[h].left /\ request[h].billed =>
    hold[h].status # "released"
=============================================================================
