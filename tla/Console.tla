------------------------------ MODULE Console -------------------------------
(***************************************************************************)
(* The control plane of one serve process and the operator commands beside *)
(* it: the guard and its audit records (internal/dashboard/auth.go), the   *)
(* handlers that change the datastore (internal/controlplane,              *)
(* internal/dashboard), operator accounts (internal/store/sqlite/          *)
(* operators.go, spendlease keys operator), alerts, and shutdown.          *)
(*                                                                         *)
(* A handler is a sequence of datastore calls, between which other         *)
(* requests and commands run; a command's transaction is a sequence of     *)
(* statements, as commands are processes of their own.  A call may fail,   *)
(* and may fail after its transaction was committed.                       *)
(*                                                                         *)
(* Requests that change nothing leave no record and are left out, as are   *)
(* the checks of a form's fields.  The memory of the kill switch belongs   *)
(* to Gateway and vendor credentials to Fleet.                             *)
(***************************************************************************)
EXTENDS BudgetStore, Alerts

CONSTANTS
  Operator,     \* identities available to operators
  Admins,       \* those that are active admins when the process starts
  Request,      \* mutations that come over HTTP
  Command,      \* invocations of spendlease keys operator
  Workloads,    \* which of the two come in one behaviour
  LegacyToken,  \* SPENDLEASE_ADMIN_TOKEN is set
  MaxToken      \* bound on the tokens of one operator

ASSUME TokenBound == MaxToken \in Nat \ {0}
ASSUME AuditAlerts == Request \subseteq Event

VARIABLES
  operator,   \* table operators
  audit,      \* table operator_audit
  mode,       \* principals.mode
  request,    \* the handlers
  command,    \* the commands
  phase       \* where runServe is

storeVars == <<vars, operator, audit, mode>>
consoleVars == <<storeVars, alertVars, request, command, phase>>

-----------------------------------------------------------------------------
(***************************************************************************)
(* Operators.                                                              *)
(***************************************************************************)

Role == {"viewer", "operator", "admin"}

RoleRank == [viewer |-> 1, operator |-> 2, admin |-> 3]

Allows(role, required) == RoleRank[role] >= RoleRank[required]

(* token numbers the tokens an operator was given.                         *)
OperatorRow == [status : {"absent", "active", "disabled"}, role : Role, token : 0 .. MaxToken]

Unknown == [status |-> "absent", role |-> "viewer", token |-> 0]

Active(o) == operator[o].status = "active"

ActiveAdmins == {o \in Operator : Active(o) /\ operator[o].role = "admin"}

(* What a request presents: nothing and a peer on this machine, the legacy *)
(* token, some token of an operator, or nothing that is known.             *)
Credential ==
  [kind : {"local", "legacy", "unknown"}]
  \cup [kind : {"named"}, operator : Operator, token : 1 .. MaxToken]

(* The role of the identity a credential stands for, {} for none.          *)
Identity(c) ==
  CASE c.kind = "local"  -> {"admin"}
    [] c.kind = "legacy" -> IF LegacyToken THEN {"admin"} ELSE {}
    [] c.kind = "named"  -> IF Active(c.operator) /\ operator[c.operator].token = c.token
                            THEN {operator[c.operator].role} ELSE {}
    [] OTHER -> {}

-----------------------------------------------------------------------------
(***************************************************************************)
(* What the mutations of the control plane do.                             *)
(***************************************************************************)

(* The role each route requires.                                           *)
Required ==
  [create_agent |-> "admin", set_mode |-> "admin", revoke_principal |-> "admin",
   create_run |-> "operator", close_run |-> "operator",
   issue_lease |-> "operator", revoke_lease |-> "operator"]

Mutations ==
  [op : {"create_agent", "issue_lease", "revoke_lease"}, target : Lease]
  \cup [op : {"create_run", "close_run"}, target : Run]
  \cup [op : {"set_mode", "revoke_principal"}, target : Principal]

Mode == {"observe", "enforce"}

(* What a handler looks at before it changes anything.                     *)
Permitted(m) ==
  CASE m.op = "issue_lease"  -> run[LeaseRun[m.target]] = "active"
    [] m.op = "close_run"    -> run[m.target] # "absent"
    [] m.op = "revoke_lease" -> lease[m.target] # "absent"
    [] OTHER -> TRUE

(* The datastore call of each handler, when it succeeds.  Closing a closed *)
(* run, revoking a revoked lease and revoking no lease at all succeed and  *)
(* change nothing.                                                         *)
handleCreateAgent(l) == CreatePrincipalRunLease(LeaseRun[l], l) /\ UNCHANGED mode

createRun(r) == CreateRun(r) /\ UNCHANGED mode

closeRun(r) ==
  /\ CloseRun(r) \/ (run[r] = "closed" /\ UNCHANGED vars)
  /\ UNCHANGED mode

(* The run may have been closed since it was read.                         *)
issueLease(l) == CreateLease(l) /\ UNCHANGED mode

revokeLease(l) ==
  /\ RevokeLease(l) \/ (lease[l] = "revoked" /\ UNCHANGED vars)
  /\ UNCHANGED mode

handleRevoke(p) ==
  /\ \/ RevokeLeasesForPrincipal(p)
     \/ (\A l \in LeasesOfPrincipal(p) : lease[l] # "live") /\ UNCHANGED vars
  /\ UNCHANGED mode

handleSetMode(p) ==
  /\ \E v \in Mode : mode' = [mode EXCEPT ![p] = v]
  /\ UNCHANGED vars

Effect(m) ==
  \/ m.op = "create_agent"     /\ handleCreateAgent(m.target)
  \/ m.op = "create_run"       /\ createRun(m.target)
  \/ m.op = "close_run"        /\ closeRun(m.target)
  \/ m.op = "issue_lease"      /\ issueLease(m.target)
  \/ m.op = "revoke_lease"     /\ revokeLease(m.target)
  \/ m.op = "revoke_principal" /\ handleRevoke(m.target)
  \/ m.op = "set_mode"         /\ handleSetMode(m.target)

-----------------------------------------------------------------------------
(***************************************************************************)
(* State.                                                                  *)
(***************************************************************************)

Nothing == [op |-> "none"]

(* pc: the record of the attempt, the reads before the change, the change, *)
(* the record of the result.  never: not part of the workload.             *)
Handling == {"attempt", "read", "change", "result"}

RequestState ==
  [pc : {"never", "idle", "over", "lost"} \cup Handling,
   mutation : Mutations \cup {Nothing},
   role : Role,
   status : {"none", "ok", "error"}]

Waiting(pc) == [pc |-> pc, mutation |-> Nothing, role |-> "viewer", status |-> "none"]

(* The action and resource of a record are the mutation it is about.       *)
Record == [phase : {"attempt"}, request : Request, role : Role, mutation : Mutations]
          \cup [phase : {"result"}, request : Request, role : Role, mutation : Mutations,
                status : {"ok", "error"}]
          \cup [phase : {"result"}, command : Command]

(* What a command is to do: change an operator, given the token or role.   *)
Order == [op : {"create", "set_role"}, target : Operator, role : Role]
         \cup [op : {"rotate", "revoke"}, target : Operator]

Statements == {"find", "lock", "read", "count", "update", "commit"}

CommandState ==
  [pc : {"never", "idle", "insert", "audit", "over"} \cup Statements,
   order : Order \cup {Nothing}]

ConsoleTypeOK ==
  /\ TypeOK /\ AlertsTypeOK
  /\ operator \in [Operator -> OperatorRow]
  /\ audit \subseteq Record
  /\ mode \in [Principal -> Mode]
  /\ request \in [Request -> RequestState]
  /\ command \in [Command -> CommandState]
  /\ phase \in {"serving", "stopping", "draining", "closing", "exited"}

(* The datastore already has some active runs and live leases.             *)
ConsoleInit ==
  /\ run \in [Run -> {"absent", "active"}]
  /\ lease \in [Lease -> {"absent", "live"}]
  /\ \A l \in Lease : lease[l] = "live" => run[LeaseRun[l]] = "active"
  /\ \A r \in Run : run[r] = "active" /\ Parent[r] # NoRun => run[Parent[r]] = "active"
  /\ hold = [h \in Hold |-> NoHold] /\ overdue = {}
  /\ ledger = << >> /\ settlement = [h \in Hold |-> 0]
  /\ AlertsInit
  /\ operator = [o \in Operator |->
       IF o \in Admins THEN [status |-> "active", role |-> "admin", token |-> 1] ELSE Unknown]
  /\ audit = {}
  /\ mode = [p \in Principal |-> "observe"]
  /\ \E w \in Workloads :
       /\ request = [q \in Request |-> Waiting(IF q \in w THEN "idle" ELSE "never")]
       /\ command = [c \in Command |-> [pc |-> IF c \in w THEN "idle" ELSE "never",
                                        order |-> Nothing]]
  /\ phase = "serving"

-----------------------------------------------------------------------------
(***************************************************************************)
(* ProtectRole and auditMutation.                                          *)
(***************************************************************************)

(* The datastore is open until runServe's deferred Close.                  *)
StoreOpen == phase \in {"serving", "stopping", "draining"}

At(q, pc) == request[q].pc = pc /\ phase # "exited"

Goto(q, pc) == request' = [request EXCEPT ![q].pc = pc]

(* The handler is over, having answered with a status or before it came to *)
(* the mutation.                                                           *)
Over(q, status) == request' = [request EXCEPT ![q] = [Waiting("over") EXCEPT !.status = status]]

Attempt(q) == [phase |-> "attempt", request |-> q, role |-> request[q].role,
               mutation |-> request[q].mutation]
Result(q)  == [phase |-> "result", request |-> q, role |-> request[q].role,
               mutation |-> request[q].mutation, status |-> request[q].status]

Respond(q, status) == request' = [request EXCEPT ![q].pc = "result", ![q].status = status]

(* A credential is looked up once: what becomes of the operator afterwards *)
(* does not stop the request.  One whose credential or role does not do,   *)
(* or that does not prove to be sent on purpose (trustedMutation), is      *)
(* answered here, as is every request when the lookup fails.               *)
Authenticate(q, c, m) ==
  /\ At(q, "idle") /\ phase = "serving"
  /\ \/ \E role \in Identity(c) :
          /\ Allows(role, Required[m.op])
          /\ request' = [request EXCEPT ![q] = [Waiting("attempt") EXCEPT !.mutation = m,
                                                                          !.role = role]]
     \/ Over(q, "none")
  /\ UNCHANGED <<storeVars, alertVars, command, phase>>

(* 503 unless the record is known to be there.                             *)
RecordAttempt(q) ==
  /\ At(q, "attempt")
  /\ \/ /\ StoreOpen
        /\ audit' = audit \cup {Attempt(q)}
        /\ Goto(q, "read") \/ Over(q, "none")
     \/ UNCHANGED audit /\ Over(q, "none")
  /\ UNCHANGED <<vars, operator, mode, alertVars, command, phase>>

ReadBefore(q) ==
  /\ At(q, "read")
  /\ \/ StoreOpen /\ Permitted(request[q].mutation) /\ Goto(q, "change")
     \/ Respond(q, "error")
  /\ UNCHANGED <<storeVars, alertVars, command, phase>>

(* Mutant: the error of the datastore call is not looked at.               *)
MutChange(q) ==
  /\ At(q, "change")
  /\ \/ StoreOpen /\ Effect(request[q].mutation)
     \/ UNCHANGED <<vars, mode>>
  /\ Respond(q, "ok")
  /\ UNCHANGED <<operator, audit, alertVars, command, phase>>

(* A change that was made can still be answered with an error: when its    *)
(* commit is not confirmed, or when one of the reads that the answer is    *)
(* made of fails afterwards.                                               *)
Change(q) ==
  /\ At(q, "change")
  /\ \/ /\ StoreOpen /\ Effect(request[q].mutation)
        /\ \E status \in {"ok", "error"} : Respond(q, status)
     \/ UNCHANGED <<vars, mode>> /\ Respond(q, "error")
  /\ UNCHANGED <<operator, audit, alertVars, command, phase>>

(* The record of the result is not tied to the client's connection; when   *)
(* it fails an alert is raised.                                            *)
RecordResult(q) ==
  /\ At(q, "result")
  /\ Over(q, request[q].status)
  /\ \/ StoreOpen /\ audit' = audit \cup {Result(q)} /\ UNCHANGED alertVars
     \/ StoreOpen /\ audit' = audit \cup {Result(q)} /\ Notify(q)
     \/ UNCHANGED audit /\ Notify(q)
  /\ UNCHANGED <<vars, operator, mode, command, phase>>

Handle(q) == RecordAttempt(q) \/ ReadBefore(q) \/ Change(q) \/ RecordResult(q)

-----------------------------------------------------------------------------
(***************************************************************************)
(* Commands.  Each is a process that may stop at any step.                 *)
(***************************************************************************)

Step(c, pc) == command' = [command EXCEPT ![c].pc = pc]

Stop(c) == command' = [command EXCEPT ![c] = [pc |-> "over", order |-> Nothing]]

NoRequestChanges == UNCHANGED <<vars, mode, alertVars, request, phase>>

Invoke(c) ==
  /\ command[c].pc = "idle"
  /\ \E order \in Order :
       command' = [command EXCEPT ![c].order = order,
                                  ![c].pc = IF order.op = "create" THEN "insert" ELSE "find"]
  /\ NoRequestChanges /\ UNCHANGED <<operator, audit>>

(* CreateOperator: the name must be free.                                  *)
Insert(c) ==
  LET order == command[c].order
  IN  /\ command[c].pc = "insert"
      /\ \/ /\ operator[order.target].status = "absent"
            /\ operator' = [operator EXCEPT ![order.target] =
                              [status |-> "active", role |-> order.role, token |-> 1]]
            /\ Step(c, "audit")
         \/ /\ operator[order.target].status # "absent"
            /\ Stop(c) /\ UNCHANGED operator
      /\ NoRequestChanges /\ UNCHANGED audit

(* findOperator lists the operators, the disabled ones included.           *)
Find(c) ==
  /\ command[c].pc = "find"
  /\ IF operator[command[c].order.target].status = "absent" THEN Stop(c) ELSE Step(c, "lock")
  /\ NoRequestChanges /\ UNCHANGED <<operator, audit>>

InTransaction(c) == command[c].pc \in {"read", "count", "update", "commit"}

(* Mutant: no lock is taken.                                               *)
MutOperatorsLockFree == TRUE

OperatorsLockFree == \A c \in Command : ~InTransaction(c)

(* lockOperatorsTx.                                                        *)
Lock(c) ==
  /\ command[c].pc = "lock" /\ OperatorsLockFree
  /\ Step(c, "read")
  /\ NoRequestChanges /\ UNCHANGED <<operator, audit>>

(* The statement that reads the operator to change, and what follows from  *)
(* it: a disabled operator keeps its token, and is disabled already.       *)
ReadCurrent(c) ==
  LET order   == command[c].order
      current == operator[order.target]
      removes == /\ current.status = "active" /\ current.role = "admin"
                 /\ order.op = "revoke" \/ (order.op = "set_role" /\ order.role # "admin")
  IN  /\ command[c].pc = "read"
      /\ CASE order.op = "rotate" /\ current.status # "active" -> Stop(c)
           [] order.op = "revoke" /\ current.status # "active" -> Step(c, "commit")
           [] removes -> Step(c, "count")
           [] OTHER -> Step(c, "update")
      /\ NoRequestChanges /\ UNCHANGED <<operator, audit>>

(* requireAnotherAdmin.                                                    *)
CountAdmins(c) ==
  /\ command[c].pc = "count"
  /\ IF ActiveAdmins \ {command[c].order.target} # {} THEN Step(c, "update") ELSE Stop(c)
  /\ NoRequestChanges /\ UNCHANGED <<operator, audit>>

(* Mutant: an operator is given a lease's status.                          *)
MutUpdate(c) ==
  /\ command[c].pc = "update" /\ command[c].order.op = "revoke"
  /\ operator' = [operator EXCEPT ![command[c].order.target].status = "revoked"]
  /\ Step(c, "audit")
  /\ NoRequestChanges /\ UNCHANGED audit

(* What each UPDATE sets.                                                 *)
Changed(row, order) ==
  CASE order.op = "set_role" -> [row EXCEPT !.role = order.role]
    [] order.op = "rotate"   -> [row EXCEPT !.token = row.token + 1]
    [] order.op = "revoke"   -> [row EXCEPT !.status = "disabled"]

(* The UPDATE and COMMIT.                                                  *)
Update(c) ==
  LET order == command[c].order
      o     == order.target
  IN  /\ command[c].pc = "update"
      /\ operator' = [operator EXCEPT ![o] = Changed(operator[o], order)]
      /\ order.op = "rotate" => operator[o].token < MaxToken
      /\ Step(c, "audit")
      /\ NoRequestChanges /\ UNCHANGED audit

(* Revoking a revoked operator succeeds and changes nothing.               *)
CommitUnchanged(c) ==
  /\ command[c].pc = "commit"
  /\ Step(c, "audit")
  /\ NoRequestChanges /\ UNCHANGED <<operator, audit>>

AuditCommand(c) ==
  /\ command[c].pc = "audit"
  /\ audit' = audit \cup {[phase |-> "result", command |-> c]}
  /\ Stop(c)
  /\ NoRequestChanges /\ UNCHANGED operator

(* The command is interrupted, or the datastore does not answer it.        *)
Interrupt(c) ==
  /\ command[c].pc \in Statements \cup {"insert", "audit"}
  /\ Stop(c)
  /\ NoRequestChanges /\ UNCHANGED <<operator, audit>>

Invocation(c) ==
  \/ Invoke(c) \/ Insert(c) \/ Find(c) \/ Lock(c) \/ ReadCurrent(c) \/ CountAdmins(c)
  \/ Update(c) \/ CommitUnchanged(c) \/ AuditCommand(c) \/ Interrupt(c)

-----------------------------------------------------------------------------
(***************************************************************************)
(* The end of runServe.                                                    *)
(***************************************************************************)

(* SIGTERM: the listener closes and Shutdown waits.                        *)
Shutdown ==
  /\ phase = "serving"
  /\ phase' = "stopping"
  /\ UNCHANGED <<storeVars, alertVars, request, command>>

(* The requests in flight have ended, or shutdownGrace has: their handlers *)
(* are then still running.                                                 *)
CloseAlerts ==
  /\ phase = "stopping"
  /\ phase' = "draining"
  /\ Close
  /\ UNCHANGED <<storeVars, request, command>>

(* The queue is drained, or alertDrainGrace has passed.                    *)
CloseStore(inTime) ==
  /\ phase = "draining" /\ inTime = exited
  /\ phase' = "closing"
  /\ UNCHANGED <<storeVars, alertVars, request, command>>

(* The process ends, or is killed, and its memory is gone.                 *)
Exit ==
  /\ phase # "exited"
  /\ phase' = "exited"
  /\ request' = [q \in Request |-> Waiting("lost")]
  /\ queue' = << >> /\ sending' = << >> /\ closed' = TRUE /\ exited' = TRUE
  /\ sent' = {} /\ failed' = {} /\ dropped' = {} /\ ignored' = {}
  /\ UNCHANGED <<storeVars, command>>

Worker ==
  /\ phase # "exited"
  /\ Receive \/ Deliver
  /\ UNCHANGED <<storeVars, request, command, phase>>

-----------------------------------------------------------------------------

ConsoleNext ==
  \/ \E q \in Request : \/ \E c \in Credential, m \in Mutations : Authenticate(q, c, m)
                        \/ Handle(q)
  \/ \E c \in Command : Invocation(c)
  \/ Shutdown \/ CloseAlerts \/ (\E b \in BOOLEAN : CloseStore(b)) \/ Exit
  \/ Worker

ConsoleSpec == ConsoleInit /\ [][ConsoleNext]_consoleVars

(* Goroutines run: handlers get on, the worker works.  A shutdown that the *)
(* queue does not delay waits for the worker: alertDrainGrace is assumed   *)
(* not to run out, which CloseStore(FALSE) is.                             *)
ConsoleFairness ==
  /\ \A q \in Request : WF_consoleVars(Handle(q))
  /\ WF_consoleVars(Worker)

ConsoleFairSpec == ConsoleSpec /\ ConsoleFairness

-----------------------------------------------------------------------------
(***************************************************************************)
(* Properties.                                                             *)
(***************************************************************************)

Attempted == {a \in audit : a.phase = "attempt"}

Results == {a \in audit : a.phase = "result" /\ "request" \in DOMAIN a}

(* What a mutation is to bring about and nothing takes back.               *)
Achieved(m) ==
  CASE m.op \in {"create_agent", "issue_lease"} -> lease[m.target] # "absent"
    [] m.op = "create_run"   -> run[m.target] # "absent"
    [] m.op = "close_run"    -> run[m.target] = "closed"
    [] m.op = "revoke_lease" -> lease[m.target] = "revoked"
    [] m.op = "revoke_principal" -> TRUE
    [] m.op = "set_mode" -> TRUE

AttemptedOn(ops, target) ==
  \E a \in Attempted : a.mutation.op \in ops /\ a.mutation.target = target

(* The audit trail answers for the datastore: what it says succeeded is    *)
(* so, nothing was closed, revoked or switched that no attempt before it   *)
(* names, and each attempt is by someone whose role allows it.             *)
AuditTells ==
  /\ \A a \in Results : a.status = "ok" => Achieved(a.mutation)
  /\ \A r \in Run : run[r] = "closed" => AttemptedOn({"close_run"}, r)
  /\ \A l \in Lease : lease[l] = "revoked" =>
       AttemptedOn({"revoke_lease"}, l) \/ AttemptedOn({"revoke_principal"}, Owner[LeaseRun[l]])
  /\ \A p \in Principal : mode[p] = "enforce" => AttemptedOn({"set_mode"}, p)
  /\ \A a \in Attempted : Allows(a.role, Required[a.mutation.op])

(* A mutation whose handler came to its end has a record of its result or  *)
(* raised an alert, and each alert is waiting, being delivered, or counted *)
(* once, whatever else shutdown has closed by then.                        *)
ResultsOrAlerts ==
  /\ \A q \in Request : request[q].pc = "over" /\ request[q].status # "none" =>
       q \in Notified \/ \E a \in Results : a.request = q /\ a.status = request[q].status
  /\ EachInOnePlace

(* However commands of two processes interleave, the control plane is not  *)
(* left without an active admin once it has one.                           *)
AnAdminRemains == [][ActiveAdmins # {} => ActiveAdmins' # {}]_consoleVars

(* A queued alert is delivered or given up on, also when the process is    *)
(* told to stop first; only its death or the end of the grace lose it.     *)
AlertsAreDelivered ==
  \A q \in Request : q \in InQueue ~>
    q \in sent \cup failed \/ phase \in {"closing", "exited"}
=============================================================================
