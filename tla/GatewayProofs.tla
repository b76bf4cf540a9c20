--------------------------- MODULE GatewayProofs ----------------------------
(***************************************************************************)
(* Proofs about the gateway, for any processes, requests, principals and   *)
(* runs: a deployment uses the datastore through its operations only, so   *)
(* the theorems about BudgetStore hold of it, and what a request and a     *)
(* revocation remember between two datastore calls stays right.            *)
(***************************************************************************)
EXTENDS Gateway, EnforcementProofs

-----------------------------------------------------------------------------
(***************************************************************************)
(* Types, and the run and lease of a request: a request under a lease is   *)
(* on that lease's run.                                                    *)
(***************************************************************************)

OnItsLeasesRun(q) ==
  q.pc \in InFlight =>
    /\ q.run \in Run
    /\ q.lease # NoLease => q.run = LeaseRun[q.lease]
    /\ q.pc \in {"row", "lease", "run"} => q.lease # NoLease

RequestsTyped ==
  /\ request \in [Hold -> RequestState]
  /\ \A h \in Hold : OnItsLeasesRun(request[h])

ControlTyped ==
  /\ up \subseteq Process
  /\ crashes \in 0 .. MaxCrashes
  /\ mode \in [Principal -> Mode]
  /\ denied \in [Process -> SUBSET Lease]
  /\ kill \in KillCall \cup {NoCall}
  /\ killed \subseteq Lease

GatewayTyped == RequestsTyped /\ ControlTyped

(* A record that keeps its run and its lease keeps them consistent.        *)
LEMMA OneHandler ==
  ASSUME RequestsTyped, NEW h \in Hold, NEW q \in RequestState,
         OnItsLeasesRun(q),
         request' = [request EXCEPT ![h] = q]
  PROVE  RequestsTyped'
BY DEF RequestsTyped

(* A handler that is over before egress, or lost, has a typed record.      *)
LEMMA GoneIsTyped ==
  ASSUME NEW pc \in {"rejected", "lost"}
  PROVE  Gone(pc) \in RequestState /\ OnItsLeasesRun(Gone(pc))
BY DEF Gone, NoRequest, RequestState, OnItsLeasesRun, InFlight, Before, Upstream,
       Ended, Mode, Class

(* Moving on, with or without a decision, from one place in flight to the  *)
(* next one, but back to the token checks.                                 *)
LEMMA MovingOn ==
  ASSUME RequestsTyped, NEW h \in Hold, request[h].pc \in InFlight,
         NEW q \in RequestState, q.run = request[h].run, q.lease = request[h].lease,
         q.pc \in {"row", "lease", "run"} => request[h].pc \in {"row", "lease", "run"},
         request' = [request EXCEPT ![h] = q]
  PROVE  RequestsTyped'
<1>1. OnItsLeasesRun(request[h])
  BY DEF RequestsTyped
<1>2. OnItsLeasesRun(q)
  BY <1>1 DEF OnItsLeasesRun
<1> QED
  BY <1>2, OneHandler

(* authenticate keeps the types.                                           *)
LEMMA AuthenticateTyped ==
  ASSUME GatewayTyped, NEW h \in Hold, Authenticate(h)
  PROVE  RequestsTyped'
<1> USE DEF GatewayTyped
<1>1. request[h] \in RequestState
  BY DEF RequestsTyped
<1>2. ASSUME NEW g \in Process, NEW r \in Run, NEW l \in Lease \cup {NoLease},
             l # NoLease => r = LeaseRun[l],
             NEW pc \in {"row", "key"}, pc = "row" => l # NoLease,
             NEW m \in Mode, Present(h, g, r, l, pc, m)
      PROVE  RequestsTyped'
  <2> DEFINE q == [NoRequest EXCEPT !.pc = pc, !.proc = g, !.run = r, !.lease = l,
                     !.mode = m, !.shut = \E n \in Ancestors[r] : run[n] = "closed"]
  <2>1. q \in RequestState
    BY <1>2 DEF NoRequest, RequestState, InFlight, Before, Class
  <2>2. OnItsLeasesRun(q)
    BY <1>2 DEF OnItsLeasesRun, NoRequest
  <2>3. request' = [request EXCEPT ![h] = q]
    BY <1>2 DEF Present
  <2> HIDE DEF q
  <2> QED
    BY <2>1, <2>2, <2>3, OneHandler
<1>3. ASSUME NEW g \in Process, NEW l \in Lease, PresentLease(h, g, l) PROVE RequestsTyped'
  <2>1. LeaseRun[l] \in Run /\ l # NoLease /\ "observe" \in Mode
    BY RowValues, RowIdentities DEF Mode
  <2>2. Present(h, g, LeaseRun[l], l, "row", "observe")
    BY <1>3 DEF PresentLease
  <2> QED
    BY <1>2, <2>1, <2>2
<1>4. ASSUME NEW g \in Process, NEW r \in Run, PresentKey(h, g, r) PROVE RequestsTyped'
  <2>1. mode[Owner[r]] \in Mode
    BY RowValues DEF ControlTyped
  <2>2. Present(h, g, r, NoLease, "key", mode[Owner[r]])
    BY <1>4 DEF PresentKey
  <2> QED
    BY <1>2, <2>1, <2>2
<1>5. ASSUME Rejected(h) PROVE RequestsTyped'
  BY <1>5, GoneIsTyped, OneHandler DEF Rejected
<1>6. ASSUME NEW to \in {"lease", "run", "authed", "create"}, Goto(h, to),
             request[h].pc \in {"row", "lease", "run", "key", "create"},
             to \in {"lease", "run"} => request[h].pc \in {"row", "lease"}
      PROVE  RequestsTyped'
  <2> DEFINE q == [request[h] EXCEPT !.pc = to]
  <2>1. q \in RequestState /\ q.run = request[h].run /\ q.lease = request[h].lease /\ q.pc = to
    BY <1>1 DEF RequestState, InFlight, Before
  <2>2. request' = [request EXCEPT ![h] = q]
    BY <1>6 DEF Goto
  <2>3. request[h].pc \in InFlight
    BY <1>6 DEF InFlight, Before
  <2> HIDE DEF q
  <2> QED
    BY <1>6, <2>1, <2>2, <2>3, MovingOn
<1>7. CASE CheckLease(h)
  BY <1>5, <1>6, <1>7 DEF CheckLease, At
<1>8. CASE CheckLeaseRun(h)
  BY <1>5, <1>6, <1>8 DEF CheckLeaseRun, At
<1>9. CASE ReadMode(h)
  <2> DEFINE q == [request[h] EXCEPT !.pc = "authed", !.mode = mode[Owner[request[h].run]]]
  <2>1. request[h].pc \in InFlight /\ request[h].run \in Run
    BY <1>9 DEF ReadMode, At, InFlight, Before, RequestsTyped, OnItsLeasesRun
  <2>2. mode[Owner[request[h].run]] \in Mode
    BY <2>1, RowValues DEF ControlTyped
  <2>3. q \in RequestState /\ q.run = request[h].run /\ q.lease = request[h].lease
                           /\ q.pc = "authed"
    BY <1>1, <2>2 DEF RequestState, InFlight, Before
  <2>4. request' = [request EXCEPT ![h] = q]
    BY <1>9, <1>1 DEF ReadMode, RequestsTyped
  <2> HIDE DEF q
  <2> QED
    BY <2>1, <2>3, <2>4, MovingOn
<1>10. CASE ResolveRun(h)
  BY <1>5, <1>6, <1>10 DEF ResolveRun, At
<1>11. CASE CreateImplicitRun(h)
  BY <1>6, <1>11 DEF CreateImplicitRun, At
<1> QED
  BY <1>3, <1>4, <1>7, <1>8, <1>9, <1>10, <1>11 DEF Authenticate

(* The budget decision keeps the types.                                    *)
LEMMA DecideTyped ==
  ASSUME GatewayTyped, NEW h \in Hold, Decide(h)
  PROVE  RequestsTyped'
<1>1. request[h] \in RequestState /\ request \in [Hold -> RequestState]
  BY DEF GatewayTyped, RequestsTyped
<1>2. request[h].pc = "authed"
  BY DEF Decide, Reject, ForwardUnmetered, Reserve, ReserveRefused, ReserveFails, At
<1>3. ASSUME Rejected(h) PROVE RequestsTyped'
  BY <1>3, GoneIsTyped, OneHandler DEF Rejected, GatewayTyped
<1>4. ASSUME NEW q \in RequestState, q.pc = "sent",
             q.run = request[h].run, q.lease = request[h].lease,
             request' = [request EXCEPT ![h] = q]
      PROVE  RequestsTyped'
  BY <1>2, <1>4, MovingOn DEF GatewayTyped, InFlight, Before
<1>5. ASSUME NEW class \in Class,
             request' = [request EXCEPT ![h].pc = "sent", ![h].class = class]
      PROVE  RequestsTyped'
  <2> DEFINE q == [request[h] EXCEPT !.pc = "sent", !.class = class]
  <2>1. q \in RequestState /\ q.pc = "sent" /\ q.run = request[h].run
                           /\ q.lease = request[h].lease
    BY <1>1 DEF RequestState, InFlight, Upstream
  <2>2. request' = [request EXCEPT ![h] = q]
    BY <1>1, <1>5
  <2> HIDE DEF q
  <2> QED
    BY <1>4, <2>1, <2>2
<1>6. ASSUME AfterReserveError(h) PROVE RequestsTyped'
  BY <1>3, <1>5, <1>6 DEF AfterReserveError, Class
<1>7. ASSUME NEW a \in Amounts, Reserve(h, a) PROVE RequestsTyped'
  <2> DEFINE q == [request[h] EXCEPT !.pc = "sent", !.class = "metered", !.reserved = TRUE]
  <2>1. q \in RequestState /\ q.pc = "sent" /\ q.run = request[h].run
                           /\ q.lease = request[h].lease
    BY <1>1 DEF RequestState, InFlight, Upstream, Class
  <2>2. CASE request' = [request EXCEPT ![h].pc = "sent", ![h].class = "metered",
                                        ![h].reserved = TRUE]
    <3>1. request' = [request EXCEPT ![h] = q]
      BY <1>1, <2>2
    <3> HIDE DEF q
    <3> QED
      BY <1>4, <2>1, <3>1
  <2> QED
    BY <1>6, <1>7, <2>2 DEF Reserve
<1>8. CASE Reject(h)
  BY <1>3, <1>8 DEF Reject
<1>9. CASE ForwardUnmetered(h)
  BY <1>5, <1>9 DEF ForwardUnmetered, Class
<1>10. CASE ReserveFails(h)
  BY <1>6, <1>10 DEF ReserveFails
<1>11. ASSUME NEW a \in Amounts, ReserveRefused(h, a) PROVE RequestsTyped'
  BY <1>3, <1>11 DEF ReserveRefused
<1> QED
  BY <1>7, <1>8, <1>9, <1>10, <1>11 DEF Decide

(* The exchange with the vendor keeps the types.                           *)
LEMMA ExchangeTyped ==
  ASSUME GatewayTyped, NEW h \in Hold, Exchange(h)
  PROVE  RequestsTyped'
<1>1. request[h] \in RequestState /\ request \in [Hold -> RequestState]
  BY DEF GatewayTyped, RequestsTyped
<1>2. request[h].pc \in {"sent", "body"}
  BY DEF Exchange, VendorBills, ResponseArrives, UpstreamFails, ResponseEnds, At
<1>3. ASSUME NEW q \in RequestState, q.pc \notin {"row", "lease", "run"},
             q.run = request[h].run, q.lease = request[h].lease,
             request' = [request EXCEPT ![h] = q]
      PROVE  RequestsTyped'
  BY <1>2, <1>3, MovingOn DEF GatewayTyped, InFlight, Upstream
<1>4. ASSUME NEW pc \in {"body", "served"}, Goto(h, pc) PROVE RequestsTyped'
  <2> DEFINE q == [request[h] EXCEPT !.pc = pc]
  <2>1. q \in RequestState /\ q.pc = pc /\ q.run = request[h].run /\ q.lease = request[h].lease
    BY <1>1 DEF RequestState, InFlight, Upstream, Ended
  <2>2. request' = [request EXCEPT ![h] = q]
    BY <1>4 DEF Goto
  <2> HIDE DEF q
  <2> QED
    BY <1>3, <2>1, <2>2
<1>5. CASE VendorBills(h)
  <2> DEFINE q == [request[h] EXCEPT !.billed = TRUE]
  <2>1. q \in RequestState /\ q.pc = request[h].pc /\ q.run = request[h].run
                           /\ q.lease = request[h].lease
    BY <1>1 DEF RequestState
  <2>2. request' = [request EXCEPT ![h] = q]
    BY <1>5 DEF VendorBills
  <2> HIDE DEF q
  <2> QED
    BY <1>2, <1>3, <2>1, <2>2
<1>6. ASSUME NEW left \in BOOLEAN, UpstreamFails(h, left) PROVE RequestsTyped'
  <2> DEFINE q == [request[h] EXCEPT !.pc = "failed", !.left = left]
  <2>1. q \in RequestState /\ q.pc = "failed" /\ q.run = request[h].run
                           /\ q.lease = request[h].lease
    BY <1>1 DEF RequestState, Ended
  <2>2. request' = [request EXCEPT ![h] = q]
    BY <1>1, <1>6 DEF UpstreamFails
  <2> HIDE DEF q
  <2> QED
    BY <1>3, <2>1, <2>2
<1>7. ASSUME NEW c \in Costs, ResponseEnds(h, c) PROVE RequestsTyped'
  <2> DEFINE n == request[h].charges + 1
             q == [request[h] EXCEPT !.pc = "served", !.charges = n]
  <2>0. n \in Nat
    BY <1>1 DEF RequestState
  <2> HIDE DEF n
  <2>1. q \in RequestState /\ q.pc = "served" /\ q.run = request[h].run
                           /\ q.lease = request[h].lease
    BY <1>1, <2>0 DEF RequestState, Ended
  <2>2. CASE request' = [request EXCEPT ![h].pc = "served", ![h].charges = @ + 1]
    <3>1. request' = [request EXCEPT ![h] = q]
      BY <1>1, <2>2 DEF n
    <3> HIDE DEF q
    <3> QED
      BY <1>3, <2>1, <3>1
  <2> QED
    BY <1>4, <1>7, <2>2 DEF ResponseEnds
<1>8. CASE ResponseArrives(h)
  BY <1>4, <1>8 DEF ResponseArrives
<1> QED
  BY <1>5, <1>6, <1>7, <1>8 DEF Exchange

(* The steps of a request, and all others.                                 *)
LEMMA GatewayCases ==
  ASSUME GatewayNext
  PROVE  \/ \E h \in Hold : Authenticate(h) \/ Decide(h) \/ Exchange(h)
         \/ \E g \in Process : Crash(g)
         \/ \E g \in Process : Restart(g)
         \/ Sweep
         \/ \E g \in Process, p \in Principal : RevokePrincipal(g, p)
         \/ \E g \in Process, l \in Lease : RevokeOneLease(g, l)
         \/ \E r \in Run : DenyRun(r)
         \/ PersistRevocation
         \/ RevocationFails
         \/ \E p \in Principal, m \in Mode : SetPrincipalMode(p, m)
         \/ Administer
BY Zenon DEF GatewayNext, Revocation

(* A request's step leaves the processes, the modes and the kill switch    *)
(* alone.                                                                  *)
LEMMA RequestsControlNothing ==
  ASSUME NEW h \in Hold, Authenticate(h) \/ Decide(h) \/ Exchange(h)
  PROVE  UNCHANGED <<up, crashes, mode, denied, kill, killed>>
<1>1. CASE Authenticate(h)
  BY <1>1 DEF Authenticate, PresentLease, PresentKey, Present, CheckLease, CheckLeaseRun,
              ReadMode, ResolveRun, CreateImplicitRun, killVars
<1>2. CASE Decide(h)
  BY <1>2 DEF Decide, Reject, ForwardUnmetered, ReserveFails, Reserve, ReserveRefused, killVars
<1>3. CASE Exchange(h)
  BY <1>3 DEF Exchange, VendorBills, ResponseArrives, UpstreamFails, ResponseEnds, killVars
<1> QED
  BY <1>1, <1>2, <1>3

(* The typing of requests, processes and the kill switch is inductive.     *)
LEMMA TypingKept == GatewayTyped /\ [GatewayNext]_allVars => GatewayTyped'
<1> SUFFICES ASSUME GatewayTyped, [GatewayNext]_allVars PROVE GatewayTyped'
  OBVIOUS
<1> USE DEF GatewayTyped
<1>1. ASSUME request' = request PROVE RequestsTyped'
  BY <1>1 DEF RequestsTyped
<1>2. ASSUME NEW h \in Hold, Authenticate(h) \/ Decide(h) \/ Exchange(h) PROVE GatewayTyped'
  <2>1. RequestsTyped'
    BY <1>2, AuthenticateTyped, DecideTyped, ExchangeTyped
  <2>2. UNCHANGED <<up, crashes, mode, denied, kill, killed>>
    BY <1>2, RequestsControlNothing
  <2> QED
    BY <2>1, <2>2 DEF ControlTyped
<1>3. ASSUME NEW g \in Process, Crash(g) PROVE GatewayTyped'
  <2>1. RequestsTyped'
    BY <1>3, GoneIsTyped DEF Crash, RequestsTyped
  <2>2. crashes' \in 0 .. MaxCrashes
    BY <1>3, Deployment DEF Crash, ControlTyped
  <2>3. /\ up' \subseteq Process /\ mode' \in [Principal -> Mode] /\ killed' \subseteq Lease
        /\ denied' \in [Process -> SUBSET Lease] /\ kill' \in KillCall \cup {NoCall}
    BY <1>3 DEF Crash, ControlTyped
  <2> QED
    BY <2>1, <2>2, <2>3 DEF ControlTyped
<1>4. ASSUME NEW g \in Process, Restart(g) PROVE GatewayTyped'
  BY <1>1, <1>4 DEF Restart, ControlTyped
<1>5. CASE Sweep
  BY <1>1, <1>5 DEF Sweep, gatewayVars, ControlTyped
<1>6. ASSUME NEW g \in Process, NEW p \in Principal, RevokePrincipal(g, p) PROVE GatewayTyped'
  <2>1. kill' \in KillCall
    BY <1>6 DEF RevokePrincipal, KillCall, LeasesOfPrincipal
  <2> QED
    BY <1>1, <1>6, <2>1 DEF RevokePrincipal, ControlTyped
<1>7. ASSUME NEW g \in Process, NEW l \in Lease, RevokeOneLease(g, l) PROVE GatewayTyped'
  <2>1. Owner[LeaseRun[l]] \in Principal
    BY RowValues
  <2>2. kill' \in KillCall
    BY <1>7, <2>1 DEF RevokeOneLease, KillCall
  <2>3. denied' \in [Process -> SUBSET Lease]
    BY <1>7 DEF RevokeOneLease, ControlTyped
  <2> QED
    BY <1>1, <1>7, <2>2, <2>3 DEF RevokeOneLease, ControlTyped
<1>8. ASSUME NEW r \in Run, DenyRun(r) PROVE GatewayTyped'
  <2>1. kill \in KillCall /\ kill.proc \in Process
    BY <1>8 DEF DenyRun, ControlTyped, KillCall
  <2>2. kill' \in KillCall
    BY <1>8, <2>1 DEF DenyRun, KillCall
  <2>3. denied' \in [Process -> SUBSET Lease]
    BY <1>8, <2>1 DEF DenyRun, LeasesOn, ControlTyped
  <2> QED
    BY <1>1, <1>8, <2>2, <2>3 DEF DenyRun, ControlTyped
<1>9. CASE PersistRevocation
  <2>1. killed' \subseteq Lease
    BY <1>9 DEF PersistRevocation, AnsweredFor, LeasesOfPrincipal, ControlTyped, KillCall
  <2> QED
    BY <1>1, <1>9, <2>1 DEF PersistRevocation, ControlTyped
<1>10. CASE RevocationFails
  BY <1>1, <1>10 DEF RevocationFails, ControlTyped
<1>11. ASSUME NEW p \in Principal, NEW m \in Mode, SetPrincipalMode(p, m) PROVE GatewayTyped'
  BY <1>1, <1>11 DEF SetPrincipalMode, killVars, requestVars, ControlTyped
<1>12. CASE Administer
  BY <1>1, <1>12 DEF Administer, gatewayVars, ControlTyped
<1>13. CASE UNCHANGED allVars
  BY <1>1, <1>13 DEF allVars, gatewayVars, ControlTyped
<1> QED
  BY <1>2, <1>3, <1>4, <1>5, <1>6, <1>7, <1>8, <1>9, <1>10, <1>11, <1>12, <1>13, GatewayCases

(* The initial states are typed.                                           *)
LEMMA TypingStarts == GatewayInit => GatewayTyped
<1> SUFFICES ASSUME GatewayInit PROVE GatewayTyped
  OBVIOUS
<1>1. NoRequest \in RequestState /\ OnItsLeasesRun(NoRequest)
  BY DEF NoRequest, RequestState, OnItsLeasesRun, InFlight, Before, Upstream, Mode, Class
<1> QED
  BY <1>1, Deployment DEF GatewayInit, GatewayTyped, RequestsTyped, ControlTyped, Mode

(* Requests, processes and the kill switch are typed in every behaviour.   *)
LEMMA Typing == GatewaySpec => []GatewayTyped
BY TypingStarts, TypingKept, PTL DEF GatewaySpec

-----------------------------------------------------------------------------
(***************************************************************************)
(* A deployment implements the datastore's specification.                  *)
(***************************************************************************)

(* A request's steps are operations on its own hold and run, or none.      *)
LEMMA RequestsUseOperations ==
  ASSUME GatewayTyped, NEW h \in Hold, Authenticate(h) \/ Decide(h) \/ Exchange(h)
  PROVE  [Next]_vars
<1>1. /\ request[h] \in RequestState
      /\ OnItsLeasesRun(request[h])
  BY DEF GatewayTyped, RequestsTyped
<1>2. request[h].pc \in InFlight => request[h].run \in Run
  BY <1>1 DEF OnItsLeasesRun
<1>3. CASE Authenticate(h)
  <2>1. CASE CreateImplicitRun(h)
    <3>1. request[h].run \in Run
      BY <1>2, <2>1 DEF CreateImplicitRun, At, InFlight, Before
    <3>2. CreateRun(request[h].run) \/ UNCHANGED vars
      BY <2>1 DEF CreateImplicitRun
    <3> QED
      BY <3>1, <3>2 DEF Next, RunOperation
  <2>2. ASSUME UNCHANGED vars PROVE [Next]_vars
    BY <2>2
  <2> QED
    BY <1>3, <2>1, <2>2 DEF Authenticate, PresentLease, PresentKey, Present, CheckLease,
                            CheckLeaseRun, ReadMode, ResolveRun
<1>4. CASE Decide(h)
  <2>1. ASSUME NEW a \in Amounts, Reserve(h, a) PROVE Next
    <3>1. request[h].pc \in InFlight /\ request[h].lease \in Lease \cup {NoLease}
      BY <1>1, <2>1 DEF Reserve, At, InFlight, Before, RequestState
    <3>2. TryReserve(h, request[h].run, request[h].lease, a, Enforcing(h))
      BY <2>1 DEF Reserve
    <3>3. Enforcing(h) \in BOOLEAN
      BY DEF Enforcing
    <3>4. CASE request[h].lease = NoLease
      BY <1>2, <3>1, <3>2, <3>3, <3>4 DEF HoldOperation, Next
    <3>5. CASE request[h].lease \in Lease
      <4>1. request[h].run = LeaseRun[request[h].lease]
        BY <1>1, <3>1, <3>5, RowIdentities DEF OnItsLeasesRun
      <4> QED
        BY <3>2, <3>3, <3>5, <4>1 DEF HoldOperation, Next
    <3> QED
      BY <3>1, <3>4, <3>5
  <2>2. ASSUME UNCHANGED vars PROVE [Next]_vars
    BY <2>2
  <2> QED
    BY <1>4, <2>1, <2>2 DEF Decide, Reject, ForwardUnmetered, ReserveFails, ReserveRefused
<1>5. CASE Exchange(h)
  <2>1. ASSUME NEW c \in Costs, Charge(h, c), At(h, "body") PROVE Next
    <3>1. request[h].run \in Run
      BY <1>2, <2>1 DEF At, InFlight, Upstream
    <3>2. LedgerBound /\ (SettleReservation(h, c) \/ AppendLedger(request[h].run, c))
      BY <2>1 DEF Charge
    <3> QED
      BY <3>1, <3>2 DEF Next, HoldOperation, RunOperation
  <2>2. ASSUME Release(h) PROVE [Next]_vars
    BY <2>2 DEF Release, Next, HoldOperation
  <2>3. ASSUME UNCHANGED vars PROVE [Next]_vars
    BY <2>3
  <2> QED
    BY <1>5, <2>1, <2>2, <2>3 DEF Exchange, VendorBills, ResponseArrives, UpstreamFails,
                                  ResponseEnds
<1> QED
  BY <1>3, <1>4, <1>5

(* So are those of processes, revocations and operators.                   *)
LEMMA StepsAreOperations == GatewayTyped /\ [GatewayNext]_allVars => [Next]_vars
<1> SUFFICES ASSUME GatewayTyped, [GatewayNext]_allVars PROVE [Next]_vars
  OBVIOUS
<1>1. ASSUME UNCHANGED vars PROVE [Next]_vars
  BY <1>1
<1>2. ASSUME NEW h \in Hold, Authenticate(h) \/ Decide(h) \/ Exchange(h) PROVE [Next]_vars
  BY <1>2, RequestsUseOperations
<1>3. CASE Sweep
  BY <1>3 DEF Sweep, Next
<1>4. CASE PersistRevocation
  <2>1. kill \in KillCall
    BY <1>4 DEF PersistRevocation, GatewayTyped, ControlTyped
  <2>2. kill.principal \in Principal /\ kill.lease \in Lease \cup {NoLease}
    BY <2>1 DEF KillCall
  <2> QED
    BY <1>4, <2>2 DEF PersistRevocation, Next, LeaseOperation
<1>5. CASE Administer
  BY <1>5 DEF Administer, Next, RunOperation, HoldOperation
<1>6. CASE UNCHANGED allVars
  BY <1>6 DEF allVars
<1> QED
  BY <1>1, <1>2, <1>3, <1>4, <1>5, <1>6, GatewayCases
     DEF Crash, Restart, RevokePrincipal, RevokeOneLease, DenyRun, RevocationFails,
         SetPrincipalMode

(* However handlers, revocations, crashes and operators interleave, the    *)
(* datastore is used only through its operations, so that every theorem    *)
(* about BudgetStore is one about the deployment.                          *)
THEOREM GatewayUsesTheStore == GatewaySpec => StoreSpec
<1>1. GatewayInit => Init
  BY DEF GatewayInit
<1> QED
  BY <1>1, Typing, StepsAreOperations, PTL DEF GatewaySpec, StoreSpec, Spec

(* The variables of gateways and datastore have the types the code gives   *)
(* them.                                                                   *)
THEOREM GatewayTypeCorrect == GatewaySpec => []GatewayTypeOK
<1>1. TypeOK /\ GatewayTyped => GatewayTypeOK
  BY DEF GatewayTyped, RequestsTyped, ControlTyped, GatewayTypeOK
<1>2. StoreSpec => []TypeOK
  BY TypeCorrect DEF StoreSpec
<1> QED
  BY <1>1, <1>2, Typing, GatewayUsesTheStore, PTL

-----------------------------------------------------------------------------
(***************************************************************************)
(* Whose step it is.                                                       *)
(***************************************************************************)

(* What may happen to a request's hold behind its back: the sweeper.       *)
HoldKept(h) ==
  \/ hold'[h] = hold[h]
  \/ hold'[h] = [hold[h] EXCEPT !.status = "expired"]

(* Between two steps of a request its record stays as it is, or is lost in *)
(* a crash, and its hold stays as it is, or expires.                       *)
LEMMA RequestSteps ==
  ASSUME GatewayTyped, TypeOK, [GatewayNext]_allVars, NEW h \in Hold
  PROVE  \/ request'[h] = request[h] /\ HoldKept(h)
         \/ request[h].pc \in InFlight /\ request'[h] = Gone("lost") /\ hold'[h] = hold[h]
         \/ Authenticate(h) \/ Decide(h) \/ Exchange(h)
<1>1. request \in [Hold -> RequestState] /\ DOMAIN hold = Hold
  BY DEF GatewayTyped, RequestsTyped, TypeOK
<1>2. ASSUME NEW k \in Hold, k # h, Authenticate(k) \/ Decide(k) \/ Exchange(k)
      PROVE  request'[h] = request[h] /\ HoldKept(h)
  <2>1. CASE Authenticate(k)
    <3>1. request'[h] = request[h]
      BY <1>1, <1>2, <2>1
         DEF Authenticate, PresentLease, PresentKey, Present, CheckLease, CheckLeaseRun,
             ReadMode, ResolveRun, CreateImplicitRun, Goto, Rejected
    <3>2. hold' = hold
      BY <2>1 DEF Authenticate, PresentLease, PresentKey, Present, CheckLease, CheckLeaseRun,
             ReadMode, ResolveRun, CreateImplicitRun, CreateRun, moneyVars, vars
    <3> QED
      BY <3>1, <3>2 DEF HoldKept
  <2>2. CASE Decide(k)
    <3>1. request'[h] = request[h]
      BY <1>1, <1>2, <2>2
         DEF Decide, Reject, ForwardUnmetered, ReserveFails, Reserve, ReserveRefused,
             AfterReserveError, Rejected
    <3>2. hold'[h] = hold[h]
      BY <1>1, <1>2, <2>2
         DEF Decide, Reject, ForwardUnmetered, ReserveFails, Reserve, ReserveRefused,
             TryReserve, vars
    <3> QED
      BY <3>1, <3>2 DEF HoldKept
  <2>3. CASE Exchange(k)
    <3>1. request'[h] = request[h]
      BY <1>1, <1>2, <2>3
         DEF Exchange, VendorBills, ResponseArrives, UpstreamFails, ResponseEnds, Goto
    <3>2. hold'[h] = hold[h]
      BY <1>1, <1>2, <2>3
         DEF Exchange, VendorBills, ResponseArrives, UpstreamFails, ResponseEnds,
             Release, ReleaseReservation, Charge, SettleReservation, AppendLedger, vars
    <3> QED
      BY <3>1, <3>2 DEF HoldKept
  <2> QED
    BY <1>2, <2>1, <2>2, <2>3
<1>3. ASSUME UNCHANGED <<hold, request>> PROVE request'[h] = request[h] /\ HoldKept(h)
  BY <1>3 DEF HoldKept
<1>4. ASSUME NEW g \in Process, Crash(g)
      PROVE  \/ request'[h] = request[h] /\ HoldKept(h)
             \/ request[h].pc \in InFlight /\ request'[h] = Gone("lost") /\ hold'[h] = hold[h]
  BY <1>4 DEF Crash, HoldKept, vars
<1>5. CASE Sweep
  <2>1. request' = request
    BY <1>5 DEF Sweep, gatewayVars
  <2>2. HoldKept(h)
    BY <1>5 DEF Sweep, ExpirePendingReservations, HoldKept
  <2> QED
    BY <2>1, <2>2
<1>6. CASE Administer
  BY <1>3, <1>6 DEF Administer, gatewayVars, CreateRun, CloseRun, LeaseOperation,
       CreatePrincipalRunLease, CreateLease, RevokeLease, LeaseExpires,
       RevokeLeasesForPrincipal, TtlPasses, moneyVars, runVars
<1>7. CASE PersistRevocation
  BY <1>3, <1>7 DEF PersistRevocation, RevokeLease, RevokeLeasesForPrincipal, moneyVars, vars
<1>8. CASE UNCHANGED allVars
  BY <1>3, <1>8 DEF allVars, vars, gatewayVars
<1>9. ASSUME \/ \E g \in Process : Restart(g)
             \/ \E g \in Process, p \in Principal : RevokePrincipal(g, p)
             \/ \E g \in Process, l \in Lease : RevokeOneLease(g, l)
             \/ \E r \in Run : DenyRun(r)
             \/ RevocationFails
             \/ \E p \in Principal, m \in Mode : SetPrincipalMode(p, m)
      PROVE  request'[h] = request[h] /\ HoldKept(h)
  BY <1>3, <1>9 DEF Restart, RevokePrincipal, RevokeOneLease, DenyRun, RevocationFails,
                    SetPrincipalMode, requestVars, vars
<1> QED
  BY <1>2, <1>4, <1>5, <1>6, <1>7, <1>8, <1>9, GatewayCases

-----------------------------------------------------------------------------
(***************************************************************************)
(* Holds are given back early only without an answer.                      *)
(***************************************************************************)

(* Authentication touches no hold, and a decision is taken once, before    *)
(* egress.                                                                 *)
LEMMA AuthenticateHoldsNothing ==
  ASSUME NEW h \in Hold, Authenticate(h)
  PROVE  /\ hold' = hold
         /\ request[h].pc \in {"idle", "row", "lease", "run", "key", "create"}
BY DEF Authenticate, PresentLease, PresentKey, Present, CheckLease, CheckLeaseRun, At,
       ReadMode, ResolveRun, CreateImplicitRun, CreateRun, moneyVars, vars

(* Only UpstreamFails releases, and a failed request stays failed.         *)
LEMMA ReleaseKept ==
  GatewayTyped /\ TypeOK /\ [GatewayNext]_allVars /\ ReleasedMeansFailed
    => ReleasedMeansFailed'
<1> SUFFICES ASSUME GatewayTyped, TypeOK, [GatewayNext]_allVars, ReleasedMeansFailed,
                    NEW h \in Hold, hold'[h].status = "released"
             PROVE  request'[h].pc = "failed"
  BY DEF ReleasedMeansFailed
<1>1. request \in [Hold -> RequestState] /\ hold \in [Hold -> HoldRow \cup {NoHold}]
  BY DEF GatewayTyped, RequestsTyped, TypeOK
<1>2. hold[h].status = "released" => request[h].pc = "failed"
  BY DEF ReleasedMeansFailed
<1>3. ASSUME HoldKept(h) PROVE hold[h].status = "released"
  BY <1>1, <1>3 DEF HoldKept, HoldRow, NoHold
<1>4. CASE request'[h] = request[h] /\ HoldKept(h)
  BY <1>2, <1>3, <1>4
<1>5. CASE request[h].pc \in InFlight /\ request'[h] = Gone("lost") /\ hold'[h] = hold[h]
  BY <1>2, <1>5 DEF InFlight, Before, Upstream
<1>6. CASE Authenticate(h)
  BY <1>2, <1>6, AuthenticateHoldsNothing
<1>7. CASE Decide(h)
  <2>1. request[h].pc = "authed"
    BY <1>7 DEF Decide, Reject, ForwardUnmetered, Reserve, ReserveRefused, ReserveFails, At
  <2>2. hold' = hold \/ hold'[h].status = "pending"
    BY <1>1, <1>7 DEF Decide, Reject, ForwardUnmetered, ReserveFails, Reserve, ReserveRefused,
             TryReserve, vars
  <2> QED
    BY <1>2, <2>1, <2>2
<1>8. CASE Exchange(h)
  <2>1. request[h].pc \in {"sent", "body"}
    BY <1>8 DEF Exchange, VendorBills, ResponseArrives, UpstreamFails, ResponseEnds, At
  <2>2. ASSUME NEW left \in BOOLEAN, UpstreamFails(h, left) PROVE request'[h].pc = "failed"
    BY <1>1, <2>2 DEF UpstreamFails, RequestState
  <2>3. ASSUME NEW c \in Costs, ResponseEnds(h, c)
        PROVE  hold' = hold \/ hold'[h].status = "settled"
    BY <1>1, <2>3 DEF ResponseEnds, Charge, SettleReservation, AppendLedger, vars,
             HoldRow, NoHold
  <2>4. ASSUME VendorBills(h) \/ ResponseArrives(h) PROVE hold' = hold
    BY <2>4 DEF VendorBills, ResponseArrives, vars
  <2> QED
    BY <1>2, <1>8, <2>1, <2>2, <2>3, <2>4 DEF Exchange
<1> QED
  BY <1>4, <1>5, <1>6, <1>7, <1>8, RequestSteps

(* A hold is given back early only when the vendor gave no 2xx response;   *)
(* after egress a failure to settle leaves it to its TTL.                  *)
THEOREM HoldsOutliveTheirAnswer == GatewaySpec => []ReleasedMeansFailed
<1>1. GatewayInit => ReleasedMeansFailed
  BY DEF GatewayInit, Init, NoHold, ReleasedMeansFailed
<1>2. StoreSpec => []TypeOK
  BY TypeCorrect DEF StoreSpec
<1> QED
  BY <1>1, <1>2, ReleaseKept, Typing, GatewayUsesTheStore, PTL DEF GatewaySpec

-----------------------------------------------------------------------------
(***************************************************************************)
(* What a request was when it was decided, and what it remembers of that.  *)
(***************************************************************************)

(* The decision comes between Before and Upstream; what a vendor billed    *)
(* was decided, and is spend.                                              *)
DecidedBeforeEgress(h) ==
  LET q == request[h]
  IN  /\ q.pc \in Before => q.class = "undecided"
      /\ q.pc \in Upstream => q.class # "undecided"
      /\ q.billed => q.class \in {"metered", "unmetered"}

(* Forwarded in enforce mode, a request that can be metered has its hold.  *)
HoldBehind(h) ==
  LET q == request[h]
  IN  Enforcing(h) /\ q.class # "undecided" =>
        /\ q.class # "unmetered"
        /\ q.class = "metered" =>
             /\ q.reserved /\ ~q.shut /\ hold[h].enforced
             /\ hold[h].run = q.run /\ hold[h].lease = q.lease

(* A run that was closed when a request came in still is.                  *)
StillShut(h) ==
  request[h].pc \in Before /\ request[h].shut =>
    \E n \in Ancestors[request[h].run] : run[n] = "closed"

EgressSound ==
  \A h \in Hold : DecidedBeforeEgress(h) /\ HoldBehind(h) /\ StillShut(h)

(* A closed run stays closed.                                              *)
LEMMA ClosedForGood ==
  ASSUME TypeOK, [Next]_vars, NEW n \in Run, run[n] = "closed"
  PROVE  run'[n] = "closed"
<1>1. run \in [Run -> RunStatus]
  BY DEF TypeOK
<1>2. CASE UNCHANGED vars
  BY <1>2 DEF vars
<1>3. ASSUME NEW r \in Run, CreateRun(r) \/ CloseRun(r) PROVE run'[n] = "closed"
  BY <1>1, <1>3 DEF CreateRun, CloseRun
<1>4. ASSUME NEW l \in Lease, CreatePrincipalRunLease(LeaseRun[l], l) PROVE run'[n] = "closed"
  BY <1>1, <1>4, RowValues DEF CreatePrincipalRunLease
<1>5. ASSUME run' = run PROVE run'[n] = "closed"
  BY <1>5
<1> QED
  BY <1>2, <1>3, <1>4, <1>5, StepCases
     DEF AppendLedger, CreateLease, RevokeLease, LeaseExpires, RevokeLeasesForPrincipal,
         TryReserve, ReleaseReservation, TtlPasses, SettleReservation,
         ExpirePendingReservations, runVars

(* A record that is over, or just begun, asks nothing.                     *)
LEMMA NothingLeft ==
  ASSUME NEW h \in Hold, NEW pc \in {"rejected", "lost"}, request'[h] = Gone(pc)
  PROVE  (DecidedBeforeEgress(h) /\ HoldBehind(h) /\ StillShut(h))'
BY DEF Gone, NoRequest, DecidedBeforeEgress, HoldBehind, StillShut, Before, Upstream

(* authenticate leaves the decision open.                                  *)
LEMMA AuthenticateSound ==
  ASSUME GatewayTyped, TypeOK, [Next]_vars, NEW h \in Hold, Authenticate(h),
         DecidedBeforeEgress(h), StillShut(h)
  PROVE  (DecidedBeforeEgress(h) /\ HoldBehind(h) /\ StillShut(h))'
<1>1. request \in [Hold -> RequestState] /\ OnItsLeasesRun(request[h])
  BY DEF GatewayTyped, RequestsTyped
<1>2. ASSUME NEW r \in Run, request'[h].run = r, request'[h].pc \in Before,
             request'[h].class = "undecided", ~request'[h].billed,
             request'[h].shut => \E n \in Ancestors[r] : run[n] = "closed"
      PROVE  (DecidedBeforeEgress(h) /\ HoldBehind(h) /\ StillShut(h))'
  <2>1. request'[h].shut => \E n \in Ancestors[r] : run'[n] = "closed"
    BY <1>2, ClosedForGood, AncestorsInRun
  <2>2. StillShut(h)'
    BY <1>2, <2>1 DEF StillShut
  <2>3. HoldBehind(h)' /\ DecidedBeforeEgress(h)'
    BY <1>2 DEF HoldBehind, DecidedBeforeEgress, Before, Upstream
  <2> QED
    BY <2>2, <2>3
<1>3. ASSUME NEW g \in Process, NEW r \in Run, NEW l, NEW pc \in {"row", "key"}, NEW m,
             Present(h, g, r, l, pc, m)
      PROVE  (DecidedBeforeEgress(h) /\ HoldBehind(h) /\ StillShut(h))'
  BY <1>1, <1>2, <1>3 DEF Present, NoRequest, Before
<1>4. ASSUME request[h].pc \in Before, request'[h].pc \in Before,
             request'[h].run = request[h].run, request'[h].class = request[h].class,
             request'[h].billed = request[h].billed, request'[h].shut = request[h].shut
      PROVE  (DecidedBeforeEgress(h) /\ HoldBehind(h) /\ StillShut(h))'
  <2>1. request[h].run \in Run
    BY <1>1, <1>4 DEF OnItsLeasesRun, InFlight
  <2>2. request[h].class = "undecided" /\ ~request[h].billed
    BY <1>4 DEF DecidedBeforeEgress
  <2>3. request[h].shut => \E n \in Ancestors[request[h].run] : run[n] = "closed"
    BY <1>4 DEF StillShut
  <2> QED
    BY <1>2, <1>4, <2>1, <2>2, <2>3
<1>5. ASSUME NEW to \in {"lease", "run", "create", "authed"}, Goto(h, to),
             request[h].pc \in {"row", "lease", "key", "create"}
      PROVE  (DecidedBeforeEgress(h) /\ HoldBehind(h) /\ StillShut(h))'
  BY <1>1, <1>4, <1>5 DEF Goto, Before, RequestState
<1>6. ASSUME Rejected(h)
      PROVE  (DecidedBeforeEgress(h) /\ HoldBehind(h) /\ StillShut(h))'
  BY <1>1, <1>6, NothingLeft DEF Rejected
<1>7. CASE ReadMode(h)
  BY <1>1, <1>4, <1>7 DEF ReadMode, At, Before, RequestState
<1>8. CASE CheckLease(h)
  BY <1>5, <1>6, <1>8 DEF CheckLease, At
<1>9. CASE CheckLeaseRun(h)
  BY <1>5, <1>6, <1>9 DEF CheckLeaseRun, At
<1>10. CASE ResolveRun(h)
  BY <1>5, <1>6, <1>10 DEF ResolveRun, At
<1>11. CASE CreateImplicitRun(h)
  BY <1>5, <1>11 DEF CreateImplicitRun, At
<1>12. ASSUME NEW g \in Process, NEW l \in Lease, PresentLease(h, g, l)
       PROVE  (DecidedBeforeEgress(h) /\ HoldBehind(h) /\ StillShut(h))'
  BY <1>3, <1>12, RowValues DEF PresentLease
<1>13. ASSUME NEW g \in Process, NEW r \in Run, PresentKey(h, g, r)
       PROVE  (DecidedBeforeEgress(h) /\ HoldBehind(h) /\ StillShut(h))'
  BY <1>3, <1>13 DEF PresentKey
<1> QED
  BY <1>7, <1>8, <1>9, <1>10, <1>11, <1>12, <1>13 DEF Authenticate

(* An enforce-mode request leaves with a hold, on a run that is open.      *)
LEMMA DecideSound ==
  ASSUME GatewayTyped, TypeOK, NEW h \in Hold, Decide(h),
         DecidedBeforeEgress(h), StillShut(h)
  PROVE  (DecidedBeforeEgress(h) /\ HoldBehind(h) /\ StillShut(h))'
<1>1. request \in [Hold -> RequestState] /\ DOMAIN hold = Hold
  BY DEF GatewayTyped, RequestsTyped, TypeOK
<1>2. request[h].pc = "authed"
  BY DEF Decide, Reject, ForwardUnmetered, Reserve, ReserveRefused, ReserveFails, At
<1>3. ~request[h].billed
  BY <1>2 DEF DecidedBeforeEgress, Before
<1>4. ASSUME Rejected(h)
      PROVE  (DecidedBeforeEgress(h) /\ HoldBehind(h) /\ StillShut(h))'
  BY <1>1, <1>4, NothingLeft DEF Rejected
<1>5. ASSUME NEW class \in {"metered", "unmetered", "no_spend"},
             request'[h].pc = "sent", request'[h].class = class,
             request'[h].billed = request[h].billed,
             HoldBehind(h)'
      PROVE  (DecidedBeforeEgress(h) /\ HoldBehind(h) /\ StillShut(h))'
  BY <1>3, <1>5 DEF DecidedBeforeEgress, StillShut, Before, Upstream
<1>6. ASSUME NEW class \in {"metered", "unmetered", "no_spend"},
             Enforcing(h) => class = "no_spend",
             request' = [request EXCEPT ![h].pc = "sent", ![h].class = class]
      PROVE  (DecidedBeforeEgress(h) /\ HoldBehind(h) /\ StillShut(h))'
  <2>1. /\ request'[h].pc = "sent" /\ request'[h].class = class
        /\ request'[h].billed = request[h].billed /\ request'[h].mode = request[h].mode
    BY <1>1, <1>6 DEF RequestState
  <2>2. HoldBehind(h)'
    BY <1>6, <2>1 DEF HoldBehind, Enforcing
  <2> QED
    BY <1>5, <2>1, <2>2
<1>7. ASSUME AfterReserveError(h)
      PROVE  (DecidedBeforeEgress(h) /\ HoldBehind(h) /\ StillShut(h))'
  BY <1>4, <1>6, <1>7 DEF AfterReserveError
<1>8. ASSUME NEW a \in Amounts, Reserve(h, a)
      PROVE  (DecidedBeforeEgress(h) /\ HoldBehind(h) /\ StillShut(h))'
  <2>1. TryReserve(h, request[h].run, request[h].lease, a, Enforcing(h))
    BY <1>8 DEF Reserve
  <2>2. ~request[h].shut
    BY <1>2, <2>1 DEF TryReserve, AncestryActive, StillShut, Before
  <2>3. /\ hold'[h].enforced = Enforcing(h)
        /\ hold'[h].run = request[h].run /\ hold'[h].lease = request[h].lease
    BY <1>1, <2>1 DEF TryReserve
  <2>4. CASE request' = [request EXCEPT ![h].pc = "sent", ![h].class = "metered",
                                        ![h].reserved = TRUE]
    <3>1. /\ request'[h].pc = "sent" /\ request'[h].class = "metered"
          /\ request'[h].reserved /\ request'[h].shut = request[h].shut
          /\ request'[h].run = request[h].run /\ request'[h].lease = request[h].lease
          /\ request'[h].billed = request[h].billed /\ request'[h].mode = request[h].mode
      BY <1>1, <2>4 DEF RequestState
    <3>2. HoldBehind(h)'
      BY <2>2, <2>3, <3>1 DEF HoldBehind, Enforcing
    <3> QED
      BY <1>5, <3>1, <3>2
  <2> QED
    BY <1>7, <1>8, <2>4 DEF Reserve
<1>9. CASE Reject(h)
  BY <1>4, <1>9 DEF Reject
<1>10. CASE ForwardUnmetered(h)
  BY <1>6, <1>10 DEF ForwardUnmetered
<1>11. CASE ReserveFails(h)
  BY <1>7, <1>11 DEF ReserveFails
<1>12. ASSUME NEW a \in Amounts, ReserveRefused(h, a)
       PROVE  (DecidedBeforeEgress(h) /\ HoldBehind(h) /\ StillShut(h))'
  BY <1>4, <1>12 DEF ReserveRefused
<1> QED
  BY <1>8, <1>9, <1>10, <1>11, <1>12 DEF Decide

(* Whatever becomes of a hold, it says who asked for it and how.           *)
LEMMA ExchangeSound ==
  ASSUME GatewayTyped, TypeOK, NEW h \in Hold, Exchange(h),
         DecidedBeforeEgress(h), HoldBehind(h)
  PROVE  (DecidedBeforeEgress(h) /\ HoldBehind(h) /\ StillShut(h))'
<1>1. request \in [Hold -> RequestState] /\ hold \in [Hold -> HoldRow \cup {NoHold}]
  BY DEF GatewayTyped, RequestsTyped, TypeOK
<1>2. request[h].pc \in Upstream
  BY DEF Exchange, VendorBills, ResponseArrives, UpstreamFails, ResponseEnds, At, Upstream
<1>3. request[h].class # "undecided"
  BY <1>2 DEF DecidedBeforeEgress
<1>4. /\ hold'[h].enforced = hold[h].enforced
      /\ hold'[h].run = hold[h].run /\ hold'[h].lease = hold[h].lease
  <2>1. ASSUME NEW status, hold' = [hold EXCEPT ![h].status = status]
        PROVE  /\ hold'[h].enforced = hold[h].enforced
               /\ hold'[h].run = hold[h].run /\ hold'[h].lease = hold[h].lease
    BY <1>1, <2>1 DEF HoldRow, NoHold
  <2>2. \/ hold' = hold
        \/ \E status \in HoldStatus : hold' = [hold EXCEPT ![h].status = status]
    BY DEF Exchange, VendorBills, ResponseArrives, UpstreamFails, ResponseEnds, Release,
       ReleaseReservation, Charge, SettleReservation, AppendLedger, vars, HoldStatus
  <2> QED
    BY <2>1, <2>2
<1>5. /\ request'[h].pc \in {"sent", "body", "failed", "served"}
      /\ request'[h].class = request[h].class /\ request'[h].mode = request[h].mode
      /\ request'[h].reserved = request[h].reserved /\ request'[h].shut = request[h].shut
      /\ request'[h].run = request[h].run /\ request'[h].lease = request[h].lease
  BY <1>1 DEF Exchange, VendorBills, ResponseArrives, UpstreamFails, ResponseEnds, At,
       Goto, RequestState
<1>6. request'[h].billed => request[h].billed \/ request[h].class # "no_spend"
  BY <1>1 DEF Exchange, VendorBills, ResponseArrives, UpstreamFails, ResponseEnds, At,
       Goto, RequestState
<1>7. request[h].class \in Class
  BY <1>1 DEF RequestState
<1>8. DecidedBeforeEgress(h)' /\ StillShut(h)'
  BY <1>3, <1>5, <1>6, <1>7 DEF DecidedBeforeEgress, StillShut, Class, Before, Upstream
<1>9. HoldBehind(h)'
  BY <1>4, <1>5 DEF HoldBehind, Enforcing
<1> QED
  BY <1>8, <1>9

(* The memory of the decision is inductive with the types.                 *)
LEMMA EgressKept ==
  GatewayTyped /\ TypeOK /\ [GatewayNext]_allVars /\ EgressSound => EgressSound'
<1> SUFFICES ASSUME GatewayTyped, TypeOK, [GatewayNext]_allVars, EgressSound, NEW h \in Hold
             PROVE  (DecidedBeforeEgress(h) /\ HoldBehind(h) /\ StillShut(h))'
  BY DEF EgressSound
<1>1. DecidedBeforeEgress(h) /\ HoldBehind(h) /\ StillShut(h)
  BY DEF EgressSound
<1>2. [Next]_vars
  BY StepsAreOperations
<1>3. CASE request'[h] = request[h] /\ HoldKept(h)
  <2>1. hold[h] \in HoldRow \cup {NoHold}
    BY DEF TypeOK
  <2>2. /\ hold'[h].enforced = hold[h].enforced
        /\ hold'[h].run = hold[h].run /\ hold'[h].lease = hold[h].lease
    BY <1>3, <2>1 DEF HoldKept, HoldRow, NoHold
  <2>3. HoldBehind(h)' /\ DecidedBeforeEgress(h)'
    BY <1>1, <1>3, <2>2 DEF HoldBehind, DecidedBeforeEgress, Enforcing
  <2>4. request[h].pc \in Before => request[h].run \in Run
    BY DEF GatewayTyped, RequestsTyped, OnItsLeasesRun, InFlight
  <2>5. StillShut(h)'
    BY <1>1, <1>2, <1>3, <2>4, ClosedForGood, AncestorsInRun DEF StillShut
  <2> QED
    BY <2>3, <2>5
<1>4. CASE request[h].pc \in InFlight /\ request'[h] = Gone("lost") /\ hold'[h] = hold[h]
  BY <1>4, NothingLeft
<1>5. CASE Authenticate(h)
  BY <1>1, <1>2, <1>5, AuthenticateSound
<1>6. CASE Decide(h)
  BY <1>1, <1>6, DecideSound
<1>7. CASE Exchange(h)
  BY <1>1, <1>7, ExchangeSound
<1> QED
  BY <1>3, <1>4, <1>5, <1>6, <1>7, RequestSteps

(* It holds in every behaviour.                                            *)
LEMMA Egress == GatewaySpec => []EgressSound
<1>1. GatewayInit => EgressSound
  BY DEF GatewayInit, NoRequest, EgressSound, DecidedBeforeEgress, HoldBehind, StillShut,
         Before, Upstream
<1>2. StoreSpec => []TypeOK
  BY TypeCorrect DEF StoreSpec
<1> QED
  BY <1>1, <1>2, EgressKept, Typing, GatewayUsesTheStore, PTL DEF GatewaySpec

(* Enforcement fails closed: whatever an enforce-mode request had the      *)
(* vendor bill is metered and had a hold on its own run and lease that was *)
(* decided in enforce mode.                                                *)
THEOREM EnforcementFailsClosed == GatewaySpec => []EnforcedEgress
<1>1. EgressSound => EnforcedEgress
  BY DEF EgressSound, DecidedBeforeEgress, HoldBehind, EnforcedEgress
<1> QED
  BY <1>1, Egress, PTL

(* No enforce-mode request that came in when a run was closed costs        *)
(* anything on that run or below it.                                       *)
THEOREM ClosingStopsEnforcedSpend == GatewaySpec => []ClosedRunsStopEnforced
<1>1. EgressSound => ClosedRunsStopEnforced
  BY DEF EgressSound, DecidedBeforeEgress, HoldBehind, ClosedRunsStopEnforced
<1> QED
  BY <1>1, Egress, PTL

-----------------------------------------------------------------------------
(***************************************************************************)
(* The kill switch.                                                        *)
(***************************************************************************)

(* Every lease a completed revocation answers for is over for good, and a  *)
(* call that names a lease names one that there is.                        *)
KillSound ==
  /\ \A l \in killed : lease[l] \in {"revoked", "expired"}
  /\ kill # NoCall /\ kill.lease # NoLease => lease[kill.lease] # "absent"

(* A lease that is revoked or expired never comes back.                    *)
LEMMA LeasesNeverReturn ==
  ASSUME TypeOK, [Next]_vars, NEW l \in Lease
  PROVE  /\ lease[l] # "absent" => lease'[l] # "absent"
         /\ lease[l] \in {"revoked", "expired"} => lease'[l] \in {"revoked", "expired"}
<1>1. lease \in [Lease -> LeaseStatus]
  BY DEF TypeOK
<1>2. ASSUME NEW k \in Lease,
             \/ CreatePrincipalRunLease(LeaseRun[k], k)
             \/ CreateLease(k) \/ RevokeLease(k) \/ LeaseExpires(k)
      PROVE  /\ lease[l] # "absent" => lease'[l] # "absent"
             /\ lease[l] \in {"revoked", "expired"} => lease'[l] \in {"revoked", "expired"}
  BY <1>1, <1>2 DEF CreatePrincipalRunLease, CreateLease, RevokeLease, LeaseExpires
<1>3. ASSUME NEW p \in Principal, RevokeLeasesForPrincipal(p)
      PROVE  /\ lease[l] # "absent" => lease'[l] # "absent"
             /\ lease[l] \in {"revoked", "expired"} => lease'[l] \in {"revoked", "expired"}
  BY <1>1, <1>3 DEF RevokeLeasesForPrincipal
<1>4. CASE lease' = lease
  BY <1>4
<1> QED
  BY <1>2, <1>3, <1>4, StepCases
     DEF AppendLedger, CreateRun, CloseRun, TryReserve, ReleaseReservation, TtlPasses,
         SettleReservation, ExpirePendingReservations, runVars, vars

(* Starting, carrying out, losing or failing a revocation keeps KillSound. *)
LEMMA KillKept == GatewayTyped /\ TypeOK /\ [GatewayNext]_allVars /\ KillSound => KillSound'
<1> SUFFICES ASSUME GatewayTyped, TypeOK, [GatewayNext]_allVars, KillSound
             PROVE  KillSound'
  OBVIOUS
<1>1. [Next]_vars
  BY StepsAreOperations
<1>2. /\ killed \subseteq Lease /\ lease \in [Lease -> LeaseStatus]
      /\ kill # NoCall => kill \in KillCall /\ kill.lease \in Lease \cup {NoLease}
  BY DEF GatewayTyped, ControlTyped, KillCall, TypeOK
<1>3. ASSUME killed' = killed PROVE \A l \in killed' : lease'[l] \in {"revoked", "expired"}
  BY <1>1, <1>2, <1>3, LeasesNeverReturn DEF KillSound
<1>4. ASSUME kill' = NoCall, killed' = killed PROVE KillSound'
  BY <1>3, <1>4 DEF KillSound
<1>5. ASSUME kill' = kill, killed' = killed PROVE KillSound'
  <2>1. kill # NoCall /\ kill.lease # NoLease => lease'[kill.lease] # "absent"
    BY <1>1, <1>2, LeasesNeverReturn DEF KillSound
  <2> QED
    BY <1>3, <1>5, <2>1 DEF KillSound
<1>6. ASSUME NEW h \in Hold, Authenticate(h) \/ Decide(h) \/ Exchange(h) PROVE KillSound'
  BY <1>5, <1>6, RequestsControlNothing
<1>7. ASSUME NEW g \in Process, Crash(g) PROVE KillSound'
  BY <1>4, <1>5, <1>7 DEF Crash
<1>8. ASSUME NEW g \in Process, NEW p \in Principal, RevokePrincipal(g, p) PROVE KillSound'
  <2>1. killed' = killed /\ lease' = lease
    BY <1>8 DEF RevokePrincipal, vars
  <2>2. kill'.lease = NoLease
    BY <1>8 DEF RevokePrincipal
  <2> QED
    BY <1>3, <2>1, <2>2 DEF KillSound
<1>9. ASSUME NEW g \in Process, NEW l \in Lease, RevokeOneLease(g, l) PROVE KillSound'
  <2>1. killed' = killed /\ lease' = lease /\ lease[l] # "absent"
    BY <1>9 DEF RevokeOneLease, vars
  <2>2. kill'.lease = l
    BY <1>9 DEF RevokeOneLease
  <2> QED
    BY <1>3, <2>1, <2>2 DEF KillSound
<1>10. ASSUME NEW r \in Run, DenyRun(r) PROVE KillSound'
  <2>1. killed' = killed /\ lease' = lease /\ kill # NoCall
    BY <1>10 DEF DenyRun, vars
  <2>2. kill'.lease = kill.lease
    BY <1>2, <1>10, <2>1 DEF DenyRun, KillCall
  <2> QED
    BY <1>3, <2>1, <2>2 DEF KillSound
<1>11. CASE PersistRevocation
  <2>1. kill # NoCall /\ kill' = NoCall /\ killed' = killed \cup AnsweredFor
    BY <1>11 DEF PersistRevocation
  <2>2. \A l \in killed : lease'[l] \in {"revoked", "expired"}
    BY <1>1, <1>2, LeasesNeverReturn DEF KillSound
  <2>3. ASSUME NEW l \in AnsweredFor PROVE lease'[l] \in {"revoked", "expired"}
    <3>1. CASE kill.lease = NoLease
      <4>1. l \in LeasesOfPrincipal(kill.principal) /\ lease[l] # "absent"
        BY <3>1 DEF AnsweredFor
      <4>2. l \in Lease /\ lease[l] \in {"live", "expired", "revoked"}
        BY <1>2, <4>1 DEF LeasesOfPrincipal, LeaseStatus
      <4>3. CASE RevokeLeasesForPrincipal(kill.principal)
        BY <4>1, <4>2, <4>3 DEF RevokeLeasesForPrincipal
      <4>4. CASE ToRevoke = {} /\ UNCHANGED vars
        <5>1. lease[l] # "live"
          BY <3>1, <4>1, <4>4 DEF ToRevoke
        <5> QED
          BY <4>2, <4>4, <5>1 DEF vars
      <4> QED
        BY <1>11, <3>1, <4>3, <4>4 DEF PersistRevocation
    <3>2. CASE kill.lease # NoLease
      <4>1. l = kill.lease /\ l \in Lease /\ lease[l] \in {"live", "expired", "revoked"}
        BY <1>2, <2>1, <3>2 DEF AnsweredFor, KillSound, LeaseStatus
      <4>2. CASE RevokeLease(kill.lease)
        BY <1>2, <4>1, <4>2 DEF RevokeLease
      <4>3. CASE ToRevoke = {} /\ UNCHANGED vars
        BY <3>2, <4>1, <4>3 DEF ToRevoke, vars
      <4> QED
        BY <1>11, <3>2, <4>2, <4>3 DEF PersistRevocation
    <3> QED
      BY <3>1, <3>2
  <2> QED
    BY <2>1, <2>2, <2>3 DEF KillSound
<1>12. CASE RevocationFails
  BY <1>4, <1>12 DEF RevocationFails
<1>13. ASSUME \/ \E g \in Process : Restart(g)
              \/ \E p \in Principal, m \in Mode : SetPrincipalMode(p, m)
              \/ Sweep \/ Administer \/ UNCHANGED allVars
       PROVE  kill' = kill /\ killed' = killed
  BY <1>13 DEF Restart, SetPrincipalMode, Sweep, Administer, gatewayVars, killVars, allVars
<1> QED
  BY <1>5, <1>6, <1>7, <1>8, <1>9, <1>10, <1>11, <1>12, <1>13, GatewayCases

(* The row is read after the memory, and it is the row that decides.       *)
AdmittedOutsideKilled ==
  \A h \in Hold : request'[h].pc = "lease" /\ request[h].pc = "row" =>
    request'[h].lease \notin killed

(* CheckLease admits a lease only while its row is live.                   *)
LEMMA KilledNotAdmitted ==
  GatewayTyped /\ TypeOK /\ KillSound /\ [GatewayNext]_allVars
    => [AdmittedOutsideKilled]_allVars
<1> SUFFICES ASSUME GatewayTyped, TypeOK, KillSound, [GatewayNext]_allVars,
                    NEW h \in Hold, request'[h].pc = "lease", request[h].pc = "row"
             PROVE  request'[h].lease \notin killed
  BY DEF AdmittedOutsideKilled
<1>1. request \in [Hold -> RequestState]
  BY DEF GatewayTyped, RequestsTyped
<1>2. CASE CheckLease(h)
  <2>1. lease[request[h].lease] = "live"
    BY <1>1, <1>2 DEF CheckLease, Rejected, Gone, NoRequest
  <2>2. request'[h].lease = request[h].lease
    BY <1>1, <1>2, <2>1 DEF CheckLease, Goto, RequestState
  <2> QED
    BY <2>1, <2>2 DEF KillSound
<1>3. ASSUME Authenticate(h) PROVE CheckLease(h)
  BY <1>3 DEF Authenticate, PresentLease, PresentKey, Present, CheckLeaseRun, ReadMode,
       ResolveRun, CreateImplicitRun, At
<1>4. ~Decide(h) /\ ~Exchange(h)
  BY DEF Decide, Reject, ForwardUnmetered, Reserve, ReserveRefused, ReserveFails, At,
       Exchange, VendorBills, ResponseArrives, UpstreamFails, ResponseEnds
<1>5. request'[h] # request[h] /\ request'[h] # Gone("lost")
  BY DEF Gone, NoRequest
<1> QED
  BY <1>2, <1>3, <1>4, <1>5, RequestSteps

(* After a revocation that succeeded no process admits a lease that there  *)
(* was of its target when it did, be it one issued while the runs were     *)
(* listed, whatever a process had in memory, whoever restarted since, and  *)
(* wherever the request stood between the two checks of its token.         *)
THEOREM RevocationIsFinal == GatewaySpec => KilledLeasesStayOut
<1>1. GatewayInit => KillSound
  BY DEF GatewayInit, KillSound
<1>2. StoreSpec => []TypeOK
  BY TypeCorrect DEF StoreSpec
<1>3. GatewaySpec => []KillSound
  BY <1>1, <1>2, KillKept, Typing, GatewayUsesTheStore, PTL DEF GatewaySpec
<1> QED
  BY <1>2, <1>3, KilledNotAdmitted, Typing, GatewayUsesTheStore, PTL
     DEF GatewaySpec, KilledLeasesStayOut, AdmittedOutsideKilled

-----------------------------------------------------------------------------
(***************************************************************************)
(* Every entry of the ledger is the one charge of one answered request.    *)
(***************************************************************************)

(* A request is charged in its last step, for work the vendor did; what    *)
(* was settled is the hold it has.                                         *)
ChargedOnce(h) ==
  LET q == request[h]
  IN  /\ q.charges \in {0, 1}
      /\ q.charges = 1 => /\ q.pc = "served" /\ q.billed /\ q.class = "metered"
                          /\ q.reserved <=> settlement[h] # 0
      /\ q.charges = 0 => settlement[h] = 0
      /\ q.pc = "body" => q.billed \/ q.class = "no_spend"

Charged == {h \in Hold : request[h].charges = 1}

ChargesSound ==
  /\ \A h \in Hold : ChargedOnce(h)
  /\ Len(ledger) = Cardinality(Charged)

(* The step that charges request h.                                        *)
Charging(h, c) ==
  /\ request[h].pc = "body"
  /\ Charge(h, c)
  /\ request' = [request EXCEPT ![h].pc = "served", ![h].charges = @ + 1]

(* Any other step leaves the ledger and every settlement alone.            *)
LEMMA OnlyChargesAppend ==
  ASSUME [GatewayNext]_allVars, \A h \in Hold, c \in Costs : ~Charging(h, c)
  PROVE  ledger' = ledger /\ settlement' = settlement
<1>1. ASSUME NEW h \in Hold, Authenticate(h) \/ Decide(h)
      PROVE  ledger' = ledger /\ settlement' = settlement
  BY <1>1 DEF Authenticate, PresentLease, PresentKey, Present, CheckLease, CheckLeaseRun,
       ReadMode, ResolveRun, CreateImplicitRun, CreateRun, Decide, Reject,
       ForwardUnmetered, ReserveFails, Reserve, ReserveRefused, TryReserve, moneyVars, vars
<1>2. ASSUME NEW h \in Hold, Exchange(h)
      PROVE  ledger' = ledger /\ settlement' = settlement
  <2>1. ASSUME NEW c \in Costs, ResponseEnds(h, c)
        PROVE  ledger' = ledger /\ settlement' = settlement
    BY <2>1 DEF ResponseEnds, Charging, At, vars
  <2> QED
    BY <1>2, <2>1 DEF Exchange, VendorBills, ResponseArrives, UpstreamFails, Release,
                      ReleaseReservation, vars
<1>3. ASSUME \/ \E g \in Process : Crash(g) \/ Restart(g)
             \/ \E g \in Process, p \in Principal : RevokePrincipal(g, p)
             \/ \E g \in Process, l \in Lease : RevokeOneLease(g, l)
             \/ \E r \in Run : DenyRun(r)
             \/ RevocationFails
             \/ \E p \in Principal, m \in Mode : SetPrincipalMode(p, m)
             \/ UNCHANGED allVars
      PROVE  ledger' = ledger /\ settlement' = settlement
  BY <1>3 DEF Crash, Restart, RevokePrincipal, RevokeOneLease, DenyRun, RevocationFails,
              SetPrincipalMode, allVars, vars
<1>4. CASE Administer
  BY <1>4 DEF Administer, CreateRun, CloseRun, LeaseOperation, CreatePrincipalRunLease,
       CreateLease, RevokeLease, LeaseExpires, RevokeLeasesForPrincipal, TtlPasses,
       moneyVars, runVars
<1>5. CASE PersistRevocation
  BY <1>5 DEF PersistRevocation, RevokeLease, RevokeLeasesForPrincipal, moneyVars, vars
<1>6. CASE Sweep
  BY <1>6 DEF Sweep, ExpirePendingReservations
<1> QED
  BY <1>1, <1>2, <1>3, <1>4, <1>5, <1>6, GatewayCases

(* What one step of a request does to what ChargedOnce speaks of.          *)
LEMMA ChargedOnceKept ==
  ASSUME GatewayTyped, TypeOK, [GatewayNext]_allVars, NEW h \in Hold, ChargedOnce(h),
         \A c \in Costs : ~Charging(h, c),
         settlement'[h] = settlement[h], DecidedBeforeEgress(h)
  PROVE  ChargedOnce(h)' /\ request'[h].charges = request[h].charges
<1>1. request \in [Hold -> RequestState]
  BY DEF GatewayTyped, RequestsTyped
<1>2. CASE request'[h] = request[h]
  BY <1>2 DEF ChargedOnce
<1>3. ASSUME NEW pc \in {"rejected", "lost"}, request'[h] = Gone(pc), request[h].pc \in InFlight
      PROVE  ChargedOnce(h)' /\ request'[h].charges = request[h].charges
  BY <1>3 DEF ChargedOnce, Gone, NoRequest, InFlight, Before, Upstream
<1>4. ASSUME request[h].pc \in {"idle"} \cup InFlight, request'[h].charges = request[h].charges,
             request'[h].pc # "body"
      PROVE  ChargedOnce(h)' /\ request'[h].charges = request[h].charges
  BY <1>4 DEF ChargedOnce, InFlight, Before, Upstream
<1>5. CASE Authenticate(h)
  <2>1. ASSUME NEW g \in Process, NEW r, NEW l, NEW pc \in {"row", "key"}, NEW m,
               Present(h, g, r, l, pc, m)
        PROVE  ChargedOnce(h)' /\ request'[h].charges = request[h].charges
    <3>1. request[h].pc = "idle" /\ request'[h].pc = pc /\ request'[h].charges = 0
      BY <1>1, <2>1 DEF Present, At, NoRequest
    <3>2. request[h].charges = 0
      BY <3>1 DEF ChargedOnce
    <3> QED
      BY <1>4, <3>1, <3>2
  <2>2. ASSUME NEW to \in {"lease", "run", "create", "authed"}, Goto(h, to),
               request[h].pc \in InFlight
        PROVE  ChargedOnce(h)' /\ request'[h].charges = request[h].charges
    BY <1>1, <1>4, <2>2 DEF Goto, RequestState
  <2>3. ASSUME Rejected(h), request[h].pc \in InFlight
        PROVE  ChargedOnce(h)' /\ request'[h].charges = request[h].charges
    BY <1>1, <1>3, <2>3 DEF Rejected
  <2>4. CASE ReadMode(h)
    BY <1>1, <1>4, <2>4 DEF ReadMode, At, InFlight, Before, RequestState
  <2>5. CASE CheckLease(h) \/ CheckLeaseRun(h)
    BY <2>2, <2>3, <2>5 DEF CheckLease, CheckLeaseRun, At, InFlight, Before
  <2>6. CASE ResolveRun(h) \/ CreateImplicitRun(h)
    BY <2>2, <2>3, <2>6 DEF ResolveRun, CreateImplicitRun, At, InFlight, Before
  <2> QED
    BY <1>5, <2>1, <2>4, <2>5, <2>6 DEF Authenticate, PresentLease, PresentKey
<1>6. CASE Decide(h)
  <2>1. request[h].pc = "authed" /\ request[h].pc \in InFlight
    BY <1>6 DEF Decide, Reject, ForwardUnmetered, Reserve, ReserveRefused, ReserveFails, At,
         InFlight, Before
  <2>2. ASSUME Rejected(h)
        PROVE  ChargedOnce(h)' /\ request'[h].charges = request[h].charges
    BY <1>1, <1>3, <2>1, <2>2 DEF Rejected
  <2>3. ASSUME request'[h].pc = "sent", request'[h].charges = request[h].charges
        PROVE  ChargedOnce(h)' /\ request'[h].charges = request[h].charges
    BY <1>4, <2>1, <2>3
  <2>4. ASSUME NEW class, request' = [request EXCEPT ![h].pc = "sent", ![h].class = class]
        PROVE  ChargedOnce(h)' /\ request'[h].charges = request[h].charges
    BY <1>1, <2>3, <2>4 DEF RequestState
  <2>5. ASSUME NEW a \in Amounts, Reserve(h, a)
        PROVE  ChargedOnce(h)' /\ request'[h].charges = request[h].charges
    BY <1>1, <2>2, <2>3, <2>4, <2>5 DEF Reserve, AfterReserveError, RequestState
  <2> QED
    BY <1>6, <2>2, <2>4, <2>5 DEF Decide, Reject, ForwardUnmetered, ReserveFails,
                                  ReserveRefused, AfterReserveError
<1>7. CASE Exchange(h)
  <2>1. request[h].pc \in {"sent", "body"} /\ request[h].pc \in InFlight
    BY <1>7 DEF Exchange, VendorBills, ResponseArrives, UpstreamFails, ResponseEnds, At,
         InFlight, Upstream
  <2>2. CASE VendorBills(h)
    BY <1>1, <1>4, <2>1, <2>2 DEF VendorBills, At, RequestState
  <2>3. CASE ResponseArrives(h)
    <3>1. /\ request'[h].charges = request[h].charges /\ request'[h].billed = request[h].billed
          /\ request'[h].class = request[h].class /\ request'[h].pc = "body"
          /\ request[h].billed \/ request[h].class = "no_spend"
          /\ request[h].pc = "sent"
      BY <1>1, <2>3 DEF ResponseArrives, Goto, At, RequestState
    <3> QED
      BY <3>1 DEF ChargedOnce
  <2>4. ASSUME NEW left \in BOOLEAN, UpstreamFails(h, left)
        PROVE  ChargedOnce(h)' /\ request'[h].charges = request[h].charges
    BY <1>1, <1>4, <2>1, <2>4 DEF UpstreamFails, RequestState
  <2>5. ASSUME NEW c \in Costs, ResponseEnds(h, c)
        PROVE  ChargedOnce(h)' /\ request'[h].charges = request[h].charges
    <3>1. Goto(h, "served")
      BY <2>5 DEF ResponseEnds, Charging, At
    <3> QED
      BY <1>1, <1>4, <2>1, <3>1 DEF Goto, RequestState
  <2> QED
    BY <1>7, <2>2, <2>3, <2>4, <2>5 DEF Exchange
<1> QED
  BY <1>2, <1>3, <1>5, <1>6, <1>7, RequestSteps

(* The step that charges adds one entry and one charged request.           *)
LEMMA ChargingKept ==
  ASSUME GatewayTyped, TypeOK, ChargesSound, NEW h \in Hold, NEW c \in Costs, Charging(h, c),
         DecidedBeforeEgress(h)
  PROVE  ChargesSound'
<1>1. /\ request \in [Hold -> RequestState] /\ settlement \in [Hold -> Nat]
      /\ Len(ledger) \in Nat /\ ledger \in Seq(Entry)
  BY LedgerRows DEF GatewayTyped, RequestsTyped, TypeOK
<1>2. /\ request[h].charges = 0 /\ settlement[h] = 0 /\ request[h].class = "metered"
      /\ request[h].billed
  BY DEF Charging, Charge, ChargesSound, ChargedOnce
<1>3. /\ request'[h].pc = "served" /\ request'[h].charges = 1
      /\ request'[h].billed = request[h].billed /\ request'[h].class = request[h].class
      /\ request'[h].reserved = request[h].reserved
      /\ \A k \in Hold \ {h} : request'[k] = request[k]
  <2> DEFINE n == request[h].charges + 1
             q == [request[h] EXCEPT !.pc = "served", !.charges = n]
  <2>1. n = 1
    BY <1>2
  <2>2. request' = [request EXCEPT ![h] = q]
    BY <1>1 DEF Charging
  <2> HIDE DEF n
  <2> QED
    BY <1>1, <2>1, <2>2 DEF RequestState
<1>4. /\ IF request[h].reserved THEN settlement'[h] # 0 ELSE settlement'[h] = 0
      /\ \A k \in Hold \ {h} : settlement'[k] = settlement[k]
  BY <1>1, <1>2 DEF Charging, Charge, SettleReservation, AppendLedger
<1>5. Len(ledger') = Len(ledger) + 1
  <2>1. \E e : ledger' = Append(ledger, e)
    BY DEF Charging, Charge, SettleReservation, AppendLedger
  <2> QED
    BY <1>1, <2>1
<1>6. ChargedOnce(h)'
  BY <1>2, <1>3, <1>4 DEF ChargedOnce
<1>7. ASSUME NEW k \in Hold, k # h PROVE ChargedOnce(k)'
  BY <1>3, <1>4, <1>7 DEF ChargesSound, ChargedOnce
<1>8. Charged' = Charged \cup {h} /\ h \notin Charged
  BY <1>2, <1>3 DEF Charged
<1>9. IsFiniteSet(Charged)
  BY RowIdentities, FS_Subset DEF Charged
<1>10. Cardinality(Charged') = Cardinality(Charged) + 1
  BY <1>8, <1>9, FS_AddElement
<1>11. Len(ledger') = Cardinality(Charged')
  BY <1>5, <1>10 DEF ChargesSound
<1>12. \A k \in Hold : ChargedOnce(k)'
  BY <1>6, <1>7
<1> QED
  BY <1>11, <1>12 DEF ChargesSound

(* Entries and charged requests grow together or not at all.               *)
LEMMA ChargesKeptSound ==
  GatewayTyped /\ TypeOK /\ EgressSound /\ [GatewayNext]_allVars /\ ChargesSound => ChargesSound'
<1> SUFFICES ASSUME GatewayTyped, TypeOK, EgressSound, [GatewayNext]_allVars, ChargesSound
             PROVE  ChargesSound'
  OBVIOUS
<1>1. \A h \in Hold : DecidedBeforeEgress(h) /\ ChargedOnce(h)
  BY DEF EgressSound, ChargesSound
<1>2. CASE \E h \in Hold, c \in Costs : Charging(h, c)
  BY <1>1, <1>2, ChargingKept
<1>3. CASE \A h \in Hold, c \in Costs : ~Charging(h, c)
  <2>1. ledger' = ledger /\ settlement' = settlement
    BY <1>3, OnlyChargesAppend
  <2>2. \A h \in Hold : ChargedOnce(h)' /\ request'[h].charges = request[h].charges
    BY <1>1, <1>3, <2>1, ChargedOnceKept
  <2>3. Charged' = Charged
    BY <2>2 DEF Charged
  <2> QED
    BY <2>1, <2>2, <2>3 DEF ChargesSound
<1> QED
  BY <1>2, <1>3

(* Every ledger entry is the one charge of one answered request.           *)
THEOREM EntriesMatchResponses == GatewaySpec => []EntriesAreResponses
<1>1. GatewayInit => ChargesSound
  <2> SUFFICES ASSUME GatewayInit PROVE ChargesSound
    OBVIOUS
  <2>1. \A h \in Hold : ChargedOnce(h)
    BY DEF GatewayInit, Init, NoRequest, ChargedOnce
  <2>2. Charged = {} /\ ledger = << >>
    BY DEF GatewayInit, Init, NoRequest, Charged
  <2>3. Cardinality(Charged) = 0
    BY <2>2, FS_EmptySet
  <2> QED
    BY <2>1, <2>2, <2>3 DEF ChargesSound
<1>2. StoreSpec => []TypeOK
  BY TypeCorrect DEF StoreSpec
<1>3. ChargesSound => EntriesAreResponses
  BY DEF ChargesSound, ChargedOnce, Charged, EntriesAreResponses
<1> QED
  BY <1>1, <1>2, <1>3, ChargesKeptSound, Egress, Typing, GatewayUsesTheStore, PTL
     DEF GatewaySpec
=============================================================================
