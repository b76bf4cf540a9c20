--------------------------- MODULE ConsoleProofs ---------------------------
(***************************************************************************)
(* Operators: however many commands of however many processes interleave,  *)
(* the control plane keeps an active admin once it has one.  What a        *)
(* command has found out under the lock is still so when it updates.       *)
(*                                                                         *)
(* Mutations: however requests, commands, alerts, shutdown and failures    *)
(* interleave, the audit trail answers for the datastore, and a mutation   *)
(* that came to its end is told of in a record or an alert.                *)
(*                                                                         *)
(* The alert queue, for any queue size and number of attempts: each event  *)
(* is in one place, whatever the order of notifications, deliveries and    *)
(* Close.                                                                  *)
(***************************************************************************)
EXTENDS Console, FiniteSetTheorems, SequenceTheorems, TLAPS

-----------------------------------------------------------------------------
(***************************************************************************)
(* The alert queue.                                                        *)
(***************************************************************************)

(* The six places share no event, and the queue repeats none.              *)
Apart ==
  /\ InQueue \cap (InHand \cup sent \cup failed \cup dropped \cup ignored) = {}
  /\ InHand \cap (sent \cup failed \cup dropped \cup ignored) = {}
  /\ sent \cap (failed \cup dropped \cup ignored) = {}
  /\ failed \cap (dropped \cup ignored) = {}
  /\ dropped \cap ignored = {}

NoRepeats == \A i, j \in DOMAIN queue : queue[i] = queue[j] => i = j

AlertsInv == AlertsTypeOK /\ Apart /\ NoRepeats

Known == InQueue \cup InHand \cup sent \cup failed \cup dropped \cup ignored

-----------------------------------------------------------------------------

LEMMA QueueIndices ==
  ASSUME AlertsTypeOK
  PROVE  /\ Len(queue) \in Nat /\ DOMAIN queue = 1 .. Len(queue)
         /\ \A i \in DOMAIN queue : queue[i] \in Event
BY LenProperties, ElementOfSeq DEF AlertsTypeOK

LEMMA NotifiedIsKnown == Notified = Known
<1>1. /\ DOMAIN Places = 1 .. 6
      /\ Places[1] = InQueue /\ Places[2] = InHand /\ Places[3] = sent
      /\ Places[4] = failed /\ Places[5] = dropped /\ Places[6] = ignored
  BY DEF Places
<1>2. DOMAIN Places = {1, 2, 3, 4, 5, 6}
  BY <1>1
<1> QED
  BY <1>1, <1>2, Zenon DEF Notified, Known

LEMMA PlacesApart ==
  ASSUME AlertsInv
  PROVE  EachInOnePlace
<1>1. /\ DOMAIN Places = 1 .. 6
      /\ Places[1] = InQueue /\ Places[2] = InHand /\ Places[3] = sent
      /\ Places[4] = failed /\ Places[5] = dropped /\ Places[6] = ignored
  BY DEF Places
<1>2. \A i, j \in 1 .. 6 : i # j => Places[i] \cap Places[j] = {}
  <2> SUFFICES ASSUME NEW i \in 1 .. 6, NEW j \in 1 .. 6, i < j
               PROVE  Places[i] \cap Places[j] = {}
    <3>1. \A i, j \in 1 .. 6 : i # j => i < j \/ j < i
      OBVIOUS
    <3> QED
      BY <3>1
  <2>1. CASE i = 1
    BY <1>1, <2>1 DEF AlertsInv, Apart
  <2>2. CASE i = 2
    BY <1>1, <2>2 DEF AlertsInv, Apart
  <2>3. CASE i = 3
    BY <1>1, <2>3 DEF AlertsInv, Apart
  <2>4. CASE i = 4
    BY <1>1, <2>4 DEF AlertsInv, Apart
  <2>5. CASE i = 5
    BY <1>1, <2>5 DEF AlertsInv, Apart
  <2> QED
    BY <2>1, <2>2, <2>3, <2>4, <2>5
<1>3. Len(queue) = Cardinality(InQueue)
  <2>1. Len(queue) \in Nat /\ DOMAIN queue = 1 .. Len(queue) /\ queue \in Seq(Event)
    BY QueueIndices DEF AlertsInv, AlertsTypeOK
  <2>2. queue \in Bijection(1 .. Len(queue), InQueue)
    <3>1. queue \in [1 .. Len(queue) -> InQueue]
      BY <2>1 DEF InQueue
    <3> QED
      BY <2>1, <3>1 DEF Bijection, Injection, Surjection, IsInjective, InQueue, AlertsInv, NoRepeats
  <2>3. ExistsBijection(1 .. Len(queue), InQueue)
    BY <2>2 DEF ExistsBijection
  <2> QED
    BY <2>1, <2>3, FS_CountingElements
<1> QED
  BY <1>1, <1>2, <1>3 DEF EachInOnePlace

-----------------------------------------------------------------------------

LEMMA InHandCases ==
  /\ sending = << >> => InHand = {}
  /\ \A d : sending = <<d>> => InHand = {d.event}
<1>1. sending = << >> => InHand = {}
  BY DEF InHand
<1>2. ASSUME NEW d, sending = <<d>> PROVE InHand = {d.event}
  BY <1>2 DEF InHand
<1> QED
  BY <1>1, <1>2

LEMMA AlertsInitInv == AlertsInit => AlertsInv /\ Known = {}
<1> SUFFICES ASSUME AlertsInit PROVE AlertsInv /\ Known = {}
  OBVIOUS
<1>1. queue = << >> /\ sending = << >> /\ DOMAIN queue = {} /\ Len(queue) = 0 /\ queue \in Seq(Event)
  BY EmptySeq DEF AlertsInit
<1>2. InQueue = {} /\ InHand = {}
  BY <1>1 DEF InQueue, InHand
<1>3. AlertsTypeOK
  <2>1. Len(queue) <= QueueSize
    BY <1>1, AlertLimits
  <2>2. \A S \in {sent, failed, dropped, ignored} : S \subseteq Event
    BY DEF AlertsInit
  <2>3. closed \in BOOLEAN /\ exited \in BOOLEAN
    BY DEF AlertsInit
  <2> QED
    BY <1>1, <2>1, <2>2, <2>3, Zenon DEF AlertsTypeOK
<1> QED
  BY <1>1, <1>2, <1>3 DEF AlertsInv, Apart, NoRepeats, Known, AlertsInit

(* A notification puts a new event into one place.                         *)
LEMMA NotifyStep ==
  ASSUME AlertsInv, NEW e \in Event, e \notin Known, Notify(e)
  PROVE  AlertsInv' /\ Known' = Known \cup {e}
<1> USE DEF AlertsInv
<1>1. UNCHANGED <<sending, closed, exited, sent, failed>> /\ InHand' = InHand
  BY DEF Notify, InHand
<1>2. CASE UNCHANGED queue /\ (\/ ignored' = ignored \cup {e} /\ UNCHANGED dropped
                               \/ dropped' = dropped \cup {e} /\ UNCHANGED ignored)
  <2>1. InQueue' = InQueue
    BY <1>2 DEF InQueue
  <2>2. NoRepeats'
    BY <1>2 DEF NoRepeats
  <2>3. AlertsTypeOK'
    BY <1>1, <1>2 DEF AlertsTypeOK
  <2> QED
    BY <1>1, <1>2, <2>1, <2>2, <2>3 DEF Apart, Known
<1>3. CASE Len(queue) < QueueSize /\ queue' = Append(queue, e) /\ UNCHANGED <<ignored, dropped>>
  <2>1. Len(queue) \in Nat /\ DOMAIN queue = 1 .. Len(queue) /\ queue \in Seq(Event)
    BY QueueIndices DEF AlertsTypeOK
  <2>2. /\ queue' \in Seq(Event) /\ Len(queue') = Len(queue) + 1 /\ queue'[Len(queue) + 1] = e
        /\ \A i \in 1 .. Len(queue) : queue'[i] = queue[i]
    BY <1>3, <2>1, AppendProperties
  <2>3. DOMAIN queue' = 1 .. Len(queue) + 1
    BY <2>2, LenProperties
  <2>4. InQueue' = InQueue \cup {e}
    BY <2>1, <2>2, <2>3 DEF InQueue
  <2>5. NoRepeats'
    <3>1. \A i \in 1 .. Len(queue) : queue[i] # e
      BY <2>1 DEF Known, InQueue
    <3> QED
      BY <2>1, <2>2, <2>3, <3>1 DEF NoRepeats
  <2>6. AlertsTypeOK'
    BY <1>1, <1>3, <2>1, <2>2, AlertLimits DEF AlertsTypeOK
  <2> QED
    BY <1>1, <1>3, <2>4, <2>5, <2>6 DEF Apart, Known
<1> QED
  BY <1>2, <1>3 DEF Notify

(* What the worker does moves an event from one place to another.          *)
LEMMA ReceiveStep ==
  ASSUME AlertsInv, Receive
  PROVE  AlertsInv' /\ Known' = Known
<1> USE DEF AlertsInv
<1>1. UNCHANGED <<closed, sent, failed, dropped, ignored>> /\ sending = << >>
  BY DEF Receive
<1>2. CASE exited' = TRUE /\ UNCHANGED <<queue, sending>>
  BY <1>1, <1>2 DEF AlertsTypeOK, Apart, Known, NoRepeats, InQueue, InHand
<1>3. CASE /\ queue # << >> /\ sending' = <<[event |-> Head(queue), attempt |-> 1]>>
           /\ queue' = Tail(queue) /\ UNCHANGED exited
  <2> DEFINE e == Head(queue)
  <2>1. Len(queue) \in Nat /\ DOMAIN queue = 1 .. Len(queue) /\ queue \in Seq(Event)
    BY QueueIndices DEF AlertsTypeOK
  <2>2. /\ e \in Event /\ queue' \in Seq(Event) /\ Len(queue') = Len(queue) - 1
        /\ \A i \in 1 .. Len(queue') : queue'[i] = queue[i + 1]
    BY <1>3, <2>1, HeadTailProperties
  <2>3. e = queue[1] /\ DOMAIN queue' = 1 .. Len(queue') /\ Len(queue') \in Nat /\ Len(queue) > 0
    BY <1>3, <2>1, <2>2, LenProperties, EmptySeq
  <2>4. InQueue = InQueue' \cup {e} /\ e \notin InQueue'
    <3>1. \A i \in 1 .. Len(queue) : i = 1 \/ i - 1 \in 1 .. Len(queue')
      BY <2>1, <2>2, <2>3
    <3>2. \A i \in 1 .. Len(queue) : i # 1 => queue[i] = queue'[i - 1]
      BY <2>1, <2>2, <2>3, <3>1
    <3>3. InQueue \subseteq InQueue' \cup {e}
      BY <2>1, <2>3, <3>1, <3>2 DEF InQueue
    <3>4. \A i \in 1 .. Len(queue') : i + 1 \in 1 .. Len(queue) /\ i + 1 # 1
      BY <2>1, <2>2, <2>3
    <3>5. InQueue' \subseteq InQueue
      BY <2>1, <2>2, <2>3, <3>4 DEF InQueue
    <3>6. 1 \in 1 .. Len(queue)
      BY <2>1, <2>3
    <3>7. e \in InQueue
      BY <2>1, <2>3, <3>6 DEF InQueue
    <3>8. e \notin InQueue'
      BY <2>1, <2>2, <2>3, <3>4, <3>6 DEF InQueue, NoRepeats
    <3> QED
      BY <3>3, <3>5, <3>7, <3>8
  <2>5. NoRepeats'
    <3>1. \A i \in 1 .. Len(queue') : i + 1 \in 1 .. Len(queue)
      BY <2>1, <2>2, <2>3
    <3>2. ASSUME NEW i \in 1 .. Len(queue'), NEW j \in 1 .. Len(queue'), queue'[i] = queue'[j]
          PROVE  i = j
      <4>1. queue[i + 1] = queue[j + 1]
        BY <2>2, <3>2
      <4>2. i + 1 = j + 1
        BY <2>1, <3>1, <4>1 DEF NoRepeats
      <4> QED
        BY <4>2
    <3> QED
      BY <2>3, <3>2 DEF NoRepeats
  <2>6. InHand = {} /\ InHand' = {e}
    BY <1>1, <1>3 DEF InHand
  <2>7. AlertsTypeOK'
    <3>1. [event |-> e, attempt |-> 1] \in [event : Event, attempt : 1 .. Attempts]
      BY <2>2, AlertLimits
    <3>2. Len(queue') <= QueueSize
      BY <2>1, <2>2, <2>3, AlertLimits DEF AlertsTypeOK
    <3> QED
      BY <1>1, <1>3, <2>2, <3>1, <3>2 DEF AlertsTypeOK
  <2> HIDE DEF e
  <2> QED
    BY <1>1, <2>4, <2>5, <2>6, <2>7 DEF Apart, Known
<1> QED
  BY <1>2, <1>3 DEF Receive

LEMMA DeliverStep ==
  ASSUME AlertsInv, Deliver
  PROVE  AlertsInv' /\ Known' = Known
<1> USE DEF AlertsInv
<1> DEFINE d == sending[1]
<1>1. UNCHANGED <<queue, closed, exited, dropped, ignored>> /\ InQueue' = InQueue /\ NoRepeats'
  BY DEF Deliver, InQueue, NoRepeats
<1>2. sending = <<d>> /\ d \in [event : Event, attempt : 1 .. Attempts]
  <2>1. sending # << >>
    BY DEF Deliver
  <2>2. PICK x \in [event : Event, attempt : 1 .. Attempts] : sending = <<x>>
    BY <2>1 DEF AlertsTypeOK
  <2> QED
    BY <2>2
<1>3. InHand = {d.event}
  BY <1>2 DEF InHand
<1>4. CASE sending' = << >> /\ (\/ sent' = sent \cup {d.event} /\ UNCHANGED failed
                                \/ failed' = failed \cup {d.event} /\ UNCHANGED sent)
  <2>1. InHand' = {}
    BY <1>4 DEF InHand
  <2>2. AlertsTypeOK'
    BY <1>1, <1>2, <1>4 DEF AlertsTypeOK
  <2> HIDE DEF d
  <2> QED
    BY <1>1, <1>3, <1>4, <2>1, <2>2 DEF Apart, Known
<1>5. CASE /\ d.attempt < Attempts /\ sending' = <<[d EXCEPT !.attempt = @ + 1]>>
           /\ UNCHANGED <<sent, failed>>
  <2> DEFINE n == [event |-> d.event, attempt |-> d.attempt + 1]
  <2>1. [d EXCEPT !.attempt = @ + 1] = n /\ n \in [event : Event, attempt : 1 .. Attempts]
    BY <1>2, <1>5, AlertLimits
  <2>2. sending' = <<n>>
    BY <1>5, <2>1
  <2>3. InHand' = {d.event}
    BY <2>2 DEF InHand
  <2>4. AlertsTypeOK'
    BY <1>1, <1>5, <2>1, <2>2 DEF AlertsTypeOK
  <2> QED
    BY <1>1, <1>3, <1>5, <2>3, <2>4 DEF Apart, Known
<1> QED
  BY <1>4, <1>5 DEF Deliver

LEMMA CloseStep ==
  ASSUME AlertsInv, Close \/ UNCHANGED alertVars
  PROVE  AlertsInv' /\ Known' = Known
BY DEF AlertsInv, Close, alertVars, AlertsTypeOK, Apart, Known, NoRepeats, InQueue, InHand

-----------------------------------------------------------------------------
(***************************************************************************)
(* Operators.                                                              *)
(***************************************************************************)

OperatorVars == <<operator, command>>

OperatorsTyped ==
  /\ operator \in [Operator -> OperatorRow]
  /\ command \in [Command -> CommandState]
  /\ \A c \in Command : command[c].pc \in Statements \cup {"insert", "audit"} =>
       command[c].order \in Order

(* What an update is about to take an active admin away for.               *)
TakesAway(order) ==
  order.op = "revoke" \/ (order.op = "set_role" /\ order.role # "admin")

Located == {"lock", "read", "count", "update", "commit"}

(* One transaction at a time; the operator of a command that found it is   *)
(* still there; and an update that takes an active admin away leaves       *)
(* another one.                                                            *)
Guarded ==
  /\ \A c, d \in Command : InTransaction(c) /\ InTransaction(d) => c = d
  /\ \A c \in Command : command[c].pc \in Located =>
       operator[command[c].order.target].status # "absent"
  /\ \A c \in Command : command[c].pc \in Located \cup {"find"} => command[c].order.op # "create"
  /\ \A c \in Command : command[c].pc = "insert" => command[c].order.op = "create"
  /\ \A c \in Command : command[c].pc = "update" =>
       LET order == command[c].order
       IN  /\ order.target \in ActiveAdmins /\ TakesAway(order) =>
                \E o \in ActiveAdmins : o # order.target

OperatorsInv == OperatorsTyped /\ Guarded

-----------------------------------------------------------------------------

LEMMA OrderFields ==
  ASSUME NEW order \in Order
  PROVE  /\ order.target \in Operator
         /\ order.op \in {"create", "set_role", "rotate", "revoke"}
         /\ order.op \in {"create", "set_role"} => order.role \in Role
BY DEF Order

(* What is not a command leaves operators and commands alone.              *)
LEMMA OthersLeaveOperators ==
  ASSUME ConsoleNext \/ UNCHANGED consoleVars
  PROVE  UNCHANGED OperatorVars \/ \E c \in Command : Invocation(c)
<1> USE DEF consoleVars, storeVars, OperatorVars
<1>1. ASSUME NEW q \in Request, NEW c \in Credential, NEW m \in Mutations, Authenticate(q, c, m)
      PROVE  UNCHANGED OperatorVars
  BY <1>1 DEF Authenticate
<1>2. ASSUME NEW q \in Request, Handle(q)
      PROVE  UNCHANGED OperatorVars
  BY <1>2 DEF Handle, RecordAttempt, ReadBefore, Change, RecordResult
<1>3. CASE Shutdown \/ CloseAlerts \/ (\E b \in BOOLEAN : CloseStore(b)) \/ Exit \/ Worker
  BY <1>3 DEF Shutdown, CloseAlerts, CloseStore, Exit, Worker
<1>4. CASE UNCHANGED consoleVars
  BY <1>4
<1> QED
  BY <1>1, <1>2, <1>3, <1>4 DEF ConsoleNext

LEMMA OperatorsInit == ConsoleInit => OperatorsInv
<1> SUFFICES ASSUME ConsoleInit PROVE OperatorsInv
  OBVIOUS
<1>1. \A c \in Command : command[c] \in CommandState /\ command[c].pc \in {"idle", "never"}
  BY DEF ConsoleInit, CommandState, Statements
<1>2. command \in [Command -> CommandState]
  BY <1>1 DEF ConsoleInit
<1>3. operator \in [Operator -> OperatorRow]
  BY TokenBound DEF ConsoleInit, OperatorRow, Unknown, Role
<1> QED
  BY <1>1, <1>2, <1>3 DEF OperatorsInv, OperatorsTyped, Guarded, InTransaction, Located, Statements

-----------------------------------------------------------------------------

LEMMA ChangedRow ==
  ASSUME NEW row \in OperatorRow, NEW order \in Order,
         order.op \in {"set_role", "rotate", "revoke"},
         order.op = "rotate" => row.token < MaxToken
  PROVE  Changed(row, order) \in OperatorRow
<1>1. CASE order.op = "set_role"
  <2>1. order.role \in Role
    BY <1>1, OrderFields
  <2>2. Changed(row, order) = [row EXCEPT !.role = order.role]
    BY <1>1 DEF Changed
  <2> QED
    BY <2>1, <2>2 DEF OperatorRow
<1>2. CASE order.op = "rotate"
  <2>1. row.token + 1 \in 0 .. MaxToken
    BY <1>2, TokenBound DEF OperatorRow
  <2>2. Changed(row, order) = [row EXCEPT !.token = row.token + 1]
    BY <1>2 DEF Changed
  <2> QED
    BY <2>1, <2>2 DEF OperatorRow
<1>3. CASE order.op = "revoke"
  <2>2. Changed(row, order) = [row EXCEPT !.status = "disabled"]
    BY <1>3 DEF Changed
  <2> QED
    BY <2>2 DEF OperatorRow
<1> QED
  BY <1>1, <1>2, <1>3

LEMMA TypesStep ==
  ASSUME OperatorsInv, NEW c \in Command, Invocation(c)
  PROVE  OperatorsTyped'
<1> DEFINE order == command[c].order
<1> USE DEF OperatorsInv, OperatorsTyped, CommandState
<1>1. CASE Invoke(c)
  BY <1>1 DEF Invoke, Statements
<1>2. CASE Insert(c)
  <2>1. order \in Order /\ order.target \in Operator
    BY <1>2, OrderFields DEF Insert
  <2>2. CASE UNCHANGED operator
    BY <1>2, <2>2 DEF Insert, Step, Stop, Statements
  <2>3. CASE operator' = [operator EXCEPT ![order.target] =
                            [status |-> "active", role |-> order.role, token |-> 1]]
             /\ order.op = "create" /\ Step(c, "audit")
    <3>1. order.role \in Role
      BY <2>1, <2>3, OrderFields
    <3>2. [status |-> "active", role |-> order.role, token |-> 1] \in OperatorRow
      BY <3>1, TokenBound DEF OperatorRow
    <3>3. operator' \in [Operator -> OperatorRow]
      BY <2>1, <2>3, <3>2
    <3> QED
      BY <2>1, <2>3, <3>3 DEF Step, Statements
  <2> QED
    BY <1>2, <2>2, <2>3 DEF Insert, Guarded
<1>3. CASE Find(c)
  BY <1>3 DEF Find, Step, Stop, Statements
<1>4. CASE Lock(c)
  BY <1>4 DEF Lock, Step, Statements
<1>5. CASE ReadCurrent(c)
  BY <1>5 DEF ReadCurrent, Step, Stop, Statements
<1>6. CASE CountAdmins(c)
  BY <1>6 DEF CountAdmins, Step, Stop, Statements
<1>7. CASE Update(c)
  <2> DEFINE o == order.target
  <2>1. order \in Order /\ o \in Operator /\ order.op \in {"set_role", "rotate", "revoke"}
    BY <1>7, OrderFields DEF Update, Statements, Guarded, Located
  <2>2. Changed(operator[o], order) \in OperatorRow
    BY <1>7, <2>1, ChangedRow DEF Update
  <2>3. operator' \in [Operator -> OperatorRow]
    BY <1>7, <2>1, <2>2 DEF Update
  <2> QED
    BY <1>7, <2>1, <2>3 DEF Update, Step, Statements
<1>8. CASE CommitUnchanged(c)
  BY <1>8 DEF CommitUnchanged, Step, Statements
<1>9. CASE AuditCommand(c) \/ Interrupt(c)
  BY <1>9 DEF AuditCommand, Interrupt, Stop, Statements
<1> QED
  BY <1>1, <1>2, <1>3, <1>4, <1>5, <1>6, <1>7, <1>8, <1>9 DEF Invocation

(* A command changes operators only as it inserts or updates, and its own  *)
(* place only.                                                             *)
LEMMA OtherCommandsWait ==
  ASSUME OperatorsInv, NEW c \in Command, Invocation(c), NEW d \in Command \ {c}
  PROVE  command'[d] = command[d]
BY DEF OperatorsInv, OperatorsTyped, Invocation, Invoke, Insert, Find, Lock, ReadCurrent, CountAdmins,
       Update, CommitUnchanged, AuditCommand, Interrupt, Step, Stop

LEMMA OneTransaction ==
  ASSUME OperatorsInv, NEW c \in Command, Invocation(c)
  PROVE  \A d, e \in Command : InTransaction(d)' /\ InTransaction(e)' => d = e
<1>1. \A d \in Command \ {c} : InTransaction(d)' => InTransaction(d)
  BY OtherCommandsWait DEF InTransaction
<1>2. CASE Lock(c)
  BY <1>1, <1>2 DEF Lock, OperatorsLockFree
<1>3. CASE ~Lock(c)
  <2>1. InTransaction(c)' => InTransaction(c)
    <3> USE DEF InTransaction, OperatorsInv, OperatorsTyped, CommandState, Step, Stop
    <3>1. CASE Invoke(c)
      BY <3>1 DEF Invoke
    <3>4. CASE Insert(c) \/ Find(c)
      BY <3>4 DEF Insert, Find
    <3>2. CASE ReadCurrent(c) \/ CountAdmins(c) \/ Update(c) \/ CommitUnchanged(c)
      BY <3>2 DEF ReadCurrent, CountAdmins, Update, CommitUnchanged
    <3>3. CASE AuditCommand(c) \/ Interrupt(c)
      BY <3>3 DEF AuditCommand, Interrupt
    <3> QED
      BY <1>3, <3>1, <3>2, <3>3, <3>4 DEF Invocation
  <2> QED
    BY <1>1, <2>1 DEF OperatorsInv, Guarded
<1> QED
  BY <1>2, <1>3

(* No command makes an operator absent again.                              *)
LEMMA NoOperatorVanishes ==
  ASSUME OperatorsInv, NEW c \in Command, Invocation(c),
         NEW o \in Operator, operator[o].status # "absent"
  PROVE  operator'[o].status # "absent"
<1> DEFINE order == command[c].order
<1>1. operator \in [Operator -> OperatorRow]
  BY DEF OperatorsInv, OperatorsTyped
<1>2. CASE Insert(c)
  BY <1>1, <1>2 DEF Insert
<1>3. CASE Update(c)
  <2>1. order.target \in Operator /\ order.op \in {"set_role", "rotate", "revoke"}
    BY <1>3, OrderFields DEF Update, OperatorsInv, OperatorsTyped, Guarded, Located, Statements
  <2>2. CASE o # order.target
    BY <1>1, <1>3, <2>2 DEF Update
  <2>3. CASE o = order.target
    <3>1. operator'[o] = Changed(operator[o], order)
      BY <1>1, <1>3, <2>3 DEF Update
    <3>2. operator[o] \in OperatorRow
      BY <1>1
    <3>3. Changed(operator[o], order).status \in {operator[o].status, "disabled"}
      BY <2>1, <3>2 DEF Changed, OperatorRow
    <3> QED
      BY <3>1, <3>3
  <2> QED
    BY <2>2, <2>3
<1>4. CASE UNCHANGED operator
  BY <1>4
<1> QED
  BY <1>2, <1>3, <1>4 DEF Invocation, Invoke, Find, Lock, ReadCurrent, CountAdmins,
     CommitUnchanged, AuditCommand, Interrupt

(* What a command goes on with: the order it was invoked with, until it    *)
(* stops.                                                                  *)
LEMMA OrderKept ==
  ASSUME OperatorsInv, NEW c \in Command, Invocation(c),
         command'[c].pc \in Located \cup {"find", "insert"}
  PROVE  \/ /\ Invoke(c)
            /\ command'[c].pc = IF command'[c].order.op = "create" THEN "insert" ELSE "find"
         \/ /\ command'[c].order = command[c].order
            /\ command'[c].pc \in Located
            /\ command[c].pc \in Located \cup {"find"}
            /\ UNCHANGED operator
<1> USE DEF OperatorsInv, OperatorsTyped, CommandState, Located, Step, Stop
<1>1. CASE Invoke(c)
  BY <1>1 DEF Invoke, Order
<1>2. CASE Insert(c) \/ Update(c) \/ CommitUnchanged(c) \/ AuditCommand(c) \/ Interrupt(c)
  BY <1>2 DEF Insert, Update, CommitUnchanged, AuditCommand, Interrupt
<1>3. CASE Find(c) \/ Lock(c)
  BY <1>3 DEF Find, Lock
<1>4. CASE ReadCurrent(c)
  BY <1>4 DEF ReadCurrent
<1>5. CASE CountAdmins(c)
  BY <1>5 DEF CountAdmins
<1> QED
  BY <1>1, <1>2, <1>3, <1>4, <1>5 DEF Invocation

LEMMA GuardedStep ==
  ASSUME OperatorsInv, NEW c \in Command, Invocation(c)
  PROVE  Guarded'
<1> USE DEF OperatorsInv
<1>1. (\A d, e \in Command : InTransaction(d) /\ InTransaction(e) => d = e)'
  BY OneTransaction
<1>2. ASSUME NEW d \in Command, command'[d].pc \in Located
      PROVE  operator'[command'[d].order.target].status # "absent"
  <2>1. CASE d # c
    <3>1. command'[d] = command[d]
      BY <2>1, OtherCommandsWait
    <3>2. command[d].order.target \in Operator
      BY <1>2, <3>1, OrderFields DEF OperatorsTyped, Located, Statements
    <3> QED
      BY <1>2, <3>1, <3>2, NoOperatorVanishes DEF Guarded
  <2>2. CASE d = c
    <3>1. /\ command'[c].order = command[c].order
          /\ command[c].pc \in Located \cup {"find"}
          /\ UNCHANGED operator
      BY <1>2, <2>2, OrderKept DEF Located
    <3>2. CASE command[c].pc \in Located
      BY <2>2, <3>1, <3>2 DEF Guarded
    <3>3. CASE command[c].pc = "find"
      <4>1. Find(c)
        BY <1>2, <2>2, <3>3 DEF Invocation, Invoke, Insert, Lock, ReadCurrent, CountAdmins, Update,
           CommitUnchanged, AuditCommand, Interrupt, Stop, Located, OperatorsTyped
      <4> QED
        BY <1>2, <2>2, <3>1, <4>1 DEF Find, Stop, Located, OperatorsTyped
    <3> QED
      BY <3>1, <3>2, <3>3
  <2> QED
    BY <2>1, <2>2
<1>3. ASSUME NEW d \in Command
      PROVE  /\ command'[d].pc \in Located \cup {"find"} => command'[d].order.op # "create"
             /\ command'[d].pc = "insert" => command'[d].order.op = "create"
  <2>1. CASE d # c
    BY <2>1, OtherCommandsWait DEF Guarded
  <2>2. CASE d = c
    BY <2>2, OrderKept DEF Guarded, Located
  <2> QED
    BY <2>1, <2>2
<1>4. ASSUME NEW d \in Command, command'[d].pc = "update",
             command'[d].order.target \in ActiveAdmins', TakesAway(command'[d].order)
      PROVE  \E o \in ActiveAdmins' : o # command'[d].order.target
  <2>1. CASE d # c
    <3>1. command'[d] = command[d]
      BY <2>1, OtherCommandsWait
    <3> DEFINE t == command[d].order.target
    <3>2. t \in Operator /\ operator[t].status # "absent"
      BY <1>4, <3>1, OrderFields DEF OperatorsTyped, Guarded, Located, Statements
    <3>3. ~InTransaction(c) /\ InTransaction(d)
      BY <1>4, <2>1, <3>1 DEF Guarded, InTransaction
    <3>4. CASE Insert(c)
      <4>1. \A o \in Operator : operator[o].status # "absent" => operator'[o] = operator[o]
        BY <3>4 DEF Insert, OperatorsTyped
      <4>2. t \in ActiveAdmins
        BY <1>4, <3>1, <3>2, <4>1 DEF ActiveAdmins, Active
      <4>3. PICK o \in ActiveAdmins : o # t
        BY <1>4, <3>1, <4>2 DEF Guarded
      <4>4. o \in ActiveAdmins'
        BY <4>1, <4>3 DEF ActiveAdmins, Active
      <4> QED
        BY <3>1, <4>3, <4>4
    <3>5. CASE UNCHANGED operator
      BY <1>4, <3>1, <3>5 DEF Guarded, ActiveAdmins, Active
    <3> QED
      BY <3>3, <3>4, <3>5 DEF Invocation, Invoke, Find, Lock, ReadCurrent, CountAdmins, Update,
         CommitUnchanged, AuditCommand, Interrupt, InTransaction
  <2>2. CASE d = c
    <3>1. command'[c].order = command[c].order /\ UNCHANGED operator
      BY <1>4, <2>2, OrderKept DEF Located
    <3>2. ReadCurrent(c) \/ CountAdmins(c)
      <4> USE DEF Step, Stop, OperatorsTyped, CommandState
      <4>1. ~Invoke(c)
        BY <1>4, <2>2 DEF Invoke
      <4>3. ~Insert(c)
        BY <1>4, <2>2 DEF Insert
      <4>4. ~Find(c) /\ ~Lock(c)
        BY <1>4, <2>2 DEF Find, Lock
      <4>2. ~Update(c) /\ ~CommitUnchanged(c) /\ ~AuditCommand(c) /\ ~Interrupt(c)
        BY <1>4, <2>2 DEF Update, CommitUnchanged, AuditCommand, Interrupt
      <4> QED
        BY <4>1, <4>2, <4>3, <4>4 DEF Invocation
    <3>3. ActiveAdmins' = ActiveAdmins
      BY <3>1 DEF ActiveAdmins, Active
    <3>4. CASE ReadCurrent(c)
      <4> DEFINE order   == command[c].order
                 current == operator[order.target]
      <4>1. command[c] \in CommandState /\ command \in [Command -> CommandState]
        BY DEF OperatorsTyped
      <4>2. current.status = "active" /\ current.role = "admin"
        BY <1>4, <2>2, <3>1, <3>3 DEF ActiveAdmins, Active
      <4>3. order.op = "revoke" \/ (order.op = "set_role" /\ order.role # "admin")
        BY <1>4, <2>2, <3>1 DEF TakesAway
      <4>4. Step(c, "count")
        BY <3>4, <4>2, <4>3 DEF ReadCurrent
      <4> QED
        BY <1>4, <2>2, <4>1, <4>4 DEF Step
    <3>5. CASE CountAdmins(c)
      BY <1>4, <2>2, <3>1, <3>3, <3>5 DEF CountAdmins, Step, Stop, OperatorsTyped, CommandState
    <3> QED
      BY <3>2, <3>4, <3>5
  <2> QED
    BY <2>1, <2>2
<1> QED
  BY <1>1, <1>2, <1>3, <1>4 DEF Guarded

(* A step that starts with an active admin ends with one.                  *)
LEMMA AdminStep ==
  ASSUME OperatorsInv, NEW c \in Command, Invocation(c), ActiveAdmins # {}
  PROVE  ActiveAdmins' # {}
<1> DEFINE order == command[c].order
           t     == order.target
<1> USE DEF OperatorsInv
<1>1. CASE UNCHANGED operator
  BY <1>1 DEF ActiveAdmins, Active
<1>2. CASE Insert(c)
  BY <1>2 DEF Insert, ActiveAdmins, Active, OperatorsTyped
<1>3. CASE Update(c)
  <2>1. t \in Operator /\ order.op \in {"set_role", "rotate", "revoke"}
    BY <1>3, OrderFields DEF Update, OperatorsTyped, Guarded, Located, Statements
  <2>2. \A o \in Operator \ {t} : operator'[o] = operator[o]
    BY <1>3 DEF Update, OperatorsTyped
  <2>3. CASE \E o \in ActiveAdmins : o # t
    BY <2>2, <2>3 DEF ActiveAdmins, Active
  <2>4. CASE \A o \in ActiveAdmins : o = t
    <3>1. t \in ActiveAdmins
      BY <2>4
    <3>2. ~TakesAway(order)
      BY <1>3, <2>4, <3>1 DEF Guarded, Update
    <3>3. operator'[t] = Changed(operator[t], order) /\ operator[t] \in OperatorRow
      BY <1>3, <2>1 DEF Update, OperatorsTyped
    <3>4. operator'[t].status = operator[t].status /\ operator'[t].role = "admin"
      BY <2>1, <3>1, <3>2, <3>3 DEF Changed, TakesAway, OperatorRow, ActiveAdmins
    <3> QED
      BY <2>1, <3>1, <3>4 DEF ActiveAdmins, Active
  <2> QED
    BY <2>3, <2>4
<1> QED
  BY <1>1, <1>2, <1>3 DEF Invocation, Invoke, Find, Lock, ReadCurrent, CountAdmins,
     CommitUnchanged, AuditCommand, Interrupt

-----------------------------------------------------------------------------

(* At most one transaction on operators is open, whichever processes the   *)
(* commands run in, and what a command has found out under the lock is     *)
(* still so when it updates.                                               *)
THEOREM OperatorsGuarded == ConsoleSpec => []OperatorsInv
<1>1. ConsoleInit => OperatorsInv
  BY OperatorsInit
<1>2. OperatorsInv /\ [ConsoleNext]_consoleVars => OperatorsInv'
  <2> SUFFICES ASSUME OperatorsInv, [ConsoleNext]_consoleVars PROVE OperatorsInv'
    OBVIOUS
  <2>1. CASE UNCHANGED OperatorVars
    BY <2>1 DEF OperatorVars, OperatorsInv, OperatorsTyped, Guarded, InTransaction, ActiveAdmins, Active
  <2>2. CASE \E c \in Command : Invocation(c)
    BY <2>2, TypesStep, GuardedStep DEF OperatorsInv
  <2> QED
    BY <2>1, <2>2, OthersLeaveOperators
<1> QED
  BY <1>1, <1>2, PTL DEF ConsoleSpec

(* However the commands of two processes interleave - to change a role,    *)
(* rotate a token, revoke an operator, or stop halfway - the control plane *)
(* is not left without an active admin once it has one.                    *)
THEOREM ConsoleKeepsAnAdmin == ConsoleSpec => AnAdminRemains
<1>1. OperatorsInv /\ [ConsoleNext]_consoleVars
        => [ActiveAdmins # {} => ActiveAdmins' # {}]_consoleVars
  <2> SUFFICES ASSUME OperatorsInv, [ConsoleNext]_consoleVars, ActiveAdmins # {}
               PROVE  ActiveAdmins' # {}
    OBVIOUS
  <2>1. CASE UNCHANGED OperatorVars
    BY <2>1 DEF OperatorVars, ActiveAdmins, Active
  <2>2. CASE \E c \in Command : Invocation(c)
    BY <2>2, AdminStep
  <2> QED
    BY <2>1, <2>2, OthersLeaveOperators
<1> QED
  BY <1>1, OperatorsGuarded, PTL DEF ConsoleSpec, AnAdminRemains
-----------------------------------------------------------------------------
(***************************************************************************)
(* The mutations of the control plane.                                     *)
(***************************************************************************)

LEMMA MutationFields ==
  ASSUME NEW m \in Mutations
  PROVE  \/ m.op \in {"create_agent", "issue_lease", "revoke_lease"} /\ m.target \in Lease
         \/ m.op \in {"create_run", "close_run"} /\ m.target \in Run
         \/ m.op \in {"set_mode", "revoke_principal"} /\ m.target \in Principal
BY DEF Mutations

StoreTyped == TypeOK /\ mode \in [Principal -> Mode]

(* What a mutation may do to the rows of runs, leases and agents.          *)
Traces(m) ==
  /\ \A r \in Run : \/ run'[r] = run[r]
                    \/ run[r] = "absent" /\ run'[r] = "active"
                    \/ run'[r] = "closed" /\ m.op = "close_run" /\ m.target = r
  /\ \A l \in Lease : \/ lease'[l] = lease[l]
                      \/ lease[l] = "absent" /\ lease'[l] = "live"
                      \/ /\ lease[l] # "absent" /\ lease'[l] = "revoked"
                         /\ \/ m.op = "revoke_lease" /\ m.target = l
                            \/ m.op = "revoke_principal" /\ m.target = Owner[LeaseRun[l]]
  /\ \A p \in Principal : \/ mode'[p] = mode[p]
                          \/ m.op = "set_mode" /\ m.target = p

LEMMA EffectStep ==
  ASSUME StoreTyped, NEW m \in Mutations, Effect(m)
  PROVE  StoreTyped' /\ Traces(m) /\ Achieved(m)'
<1> DEFINE x == m.target
<1> USE DEF StoreTyped, TypeOK, RunStatus, LeaseStatus, Traces
<1>1. CASE m.op = "create_agent"
  <2>1. x \in Lease /\ handleCreateAgent(x)
    BY <1>1, MutationFields DEF Effect
  <2>2. LeaseRun[x] \in Run
    BY <2>1, RowValues
  <2> HIDE DEF x
  <2>3. StoreTyped' /\ Traces(m) /\ lease'[x] = "live"
    BY <1>1, <2>1, <2>2 DEF handleCreateAgent, CreatePrincipalRunLease, moneyVars
  <2> QED
    BY <1>1, <2>3 DEF Achieved, x
<1>2. CASE m.op = "issue_lease"
  <2>1. x \in Lease /\ issueLease(x)
    BY <1>2, MutationFields DEF Effect
  <2> HIDE DEF x
  <2>3. StoreTyped' /\ Traces(m) /\ lease'[x] = "live"
    BY <1>2, <2>1 DEF issueLease, CreateLease, moneyVars
  <2> QED
    BY <1>2, <2>3 DEF Achieved, x
<1>3. CASE m.op = "revoke_lease"
  <2>1. x \in Lease /\ revokeLease(x)
    BY <1>3, MutationFields DEF Effect
  <2> HIDE DEF x
  <2>3. StoreTyped' /\ lease'[x] = "revoked"
    BY <1>3, <2>1 DEF revokeLease, RevokeLease, moneyVars, vars
  <2>4. Traces(m)
    BY <1>3, <2>1 DEF revokeLease, RevokeLease, moneyVars, vars, x
  <2> QED
    BY <1>3, <2>3, <2>4 DEF Achieved, x
<1>4. CASE m.op = "create_run"
  <2>1. x \in Run /\ createRun(x)
    BY <1>4, MutationFields DEF Effect
  <2> HIDE DEF x
  <2>3. StoreTyped' /\ Traces(m) /\ run'[x] = "active"
    BY <1>4, <2>1 DEF createRun, CreateRun, moneyVars
  <2> QED
    BY <1>4, <2>3 DEF Achieved, x
<1>5. CASE m.op = "close_run"
  <2>1. x \in Run /\ closeRun(x)
    BY <1>5, MutationFields DEF Effect
  <2> HIDE DEF x
  <2>3. StoreTyped' /\ run'[x] = "closed"
    BY <1>5, <2>1 DEF closeRun, CloseRun, moneyVars, vars
  <2>4. Traces(m)
    BY <1>5, <2>1 DEF closeRun, CloseRun, moneyVars, vars, x
  <2> QED
    BY <1>5, <2>3, <2>4 DEF Achieved, x
<1>6. CASE m.op = "set_mode"
  <2>1. x \in Principal /\ handleSetMode(x)
    BY <1>6, MutationFields DEF Effect
  <2>2. StoreTyped' /\ Traces(m)
    BY <1>6, <2>1 DEF handleSetMode, vars
  <2> QED
    BY <1>6, <2>2 DEF Achieved
<1>7. CASE m.op = "revoke_principal"
  <2>1. x \in Principal /\ handleRevoke(x)
    BY <1>7, MutationFields DEF Effect
  <2>2. CASE UNCHANGED vars
    BY <1>7, <2>1, <2>2 DEF handleRevoke, vars, Achieved
  <2>3. CASE RevokeLeasesForPrincipal(x)
    <3> DEFINE live == {l \in LeasesOfPrincipal(x) : lease[l] = "live"}
    <3>1. /\ lease' = [l \in Lease |-> IF l \in live THEN "revoked" ELSE lease[l]]
          /\ UNCHANGED <<run, moneyVars, mode>>
      BY <2>1, <2>3 DEF RevokeLeasesForPrincipal, handleRevoke
    <3>2. \A l \in live : l \in Lease /\ lease[l] = "live" /\ Owner[LeaseRun[l]] = x
      BY DEF LeasesOfPrincipal
    <3> HIDE DEF live
    <3> QED
      BY <1>7, <3>1, <3>2 DEF Achieved, moneyVars
  <2> QED
    BY <2>1, <2>2, <2>3 DEF handleRevoke
<1> QED
  BY <1>1, <1>2, <1>3, <1>4, <1>5, <1>6, <1>7, MutationFields

(* What was achieved stays so.                                             *)
LEMMA AchievedStays ==
  ASSUME NEW m \in Mutations, Traces(m), NEW other \in Mutations, Achieved(other)
  PROVE  Achieved(other)'
<1> DEFINE x == other.target
<1>1. CASE other.op \in {"create_agent", "issue_lease", "revoke_lease"}
  <2>1. x \in Lease
    BY <1>1, MutationFields
  <2> HIDE DEF x
  <2>2. /\ lease[x] # "absent" => lease'[x] # "absent"
        /\ lease[x] = "revoked" => lease'[x] = "revoked"
    BY <2>1 DEF Traces
  <2> QED
    BY <1>1, <2>2 DEF Achieved, x
<1>2. CASE other.op \in {"create_run", "close_run"}
  <2>1. x \in Run
    BY <1>2, MutationFields
  <2> HIDE DEF x
  <2>2. /\ run[x] # "absent" => run'[x] # "absent"
        /\ run[x] = "closed" => run'[x] = "closed"
    BY <2>1 DEF Traces
  <2> QED
    BY <1>2, <2>2 DEF Achieved, x
<1>3. CASE other.op \in {"set_mode", "revoke_principal"}
  BY <1>3 DEF Achieved
<1> QED
  BY <1>1, <1>2, <1>3, MutationFields

-----------------------------------------------------------------------------
(***************************************************************************)
(* Requests.                                                               *)
(***************************************************************************)

(* Where a request stands: what its handler has recorded, what it has      *)
(* changed, and that it raised no alert before its end.                    *)
RequestInv(q) ==
  LET r == request[q]
  IN  /\ r.pc \in Handling => /\ r.mutation \in Mutations
                              /\ Allows(r.role, Required[r.mutation.op])
      /\ r.pc \in {"read", "change", "result"} => Attempt(q) \in audit
      /\ r.pc = "result" => /\ r.status \in {"ok", "error"}
                            /\ r.status = "ok" => Achieved(r.mutation)
      /\ r.pc # "over" => q \notin Known
      /\ r.pc = "over" /\ r.status # "none" =>
           q \in Known \/ \E a \in Results : a.request = q /\ a.status = r.status

RequestsTyped == request \in [Request -> RequestState] /\ audit \subseteq Record

ConsoleInv ==
  /\ StoreTyped /\ AlertsInv /\ RequestsTyped
  /\ \A q \in Request : RequestInv(q)
  /\ AuditTells

(* The three kinds of record.                                              *)
LEMMA RecordKinds ==
  /\ \A a \in Record : a.phase = "attempt" => a.mutation \in Mutations /\ a.role \in Role
  /\ \A a \in Record : a.phase = "result" /\ "request" \in DOMAIN a => a.mutation \in Mutations
  /\ \A c \in Command : LET a == [phase |-> "result", command |-> c]
                         IN  a \in Record /\ a.phase = "result" /\ "request" \notin DOMAIN a
<1>1. \A a \in [phase : {"result"}, command : Command] : "request" \notin DOMAIN a /\ a.phase = "result"
  OBVIOUS
<1>2. \A a \in [phase : {"attempt"}, request : Request, role : Role, mutation : Mutations] :
         a.phase = "attempt" /\ a.mutation \in Mutations /\ a.role \in Role
  OBVIOUS
<1>3. \A a \in [phase : {"result"}, request : Request, role : Role, mutation : Mutations,
                status : {"ok", "error"}] : a.phase = "result" /\ a.mutation \in Mutations
  OBVIOUS
<1>4. \A c \in Command : [phase |-> "result", command |-> c] \in [phase : {"result"}, command : Command]
  OBVIOUS
<1>5. \A a : a \in Record <=>
        \/ a \in [phase : {"attempt"}, request : Request, role : Role, mutation : Mutations]
        \/ a \in [phase : {"result"}, request : Request, role : Role, mutation : Mutations,
                  status : {"ok", "error"}]
        \/ a \in [phase : {"result"}, command : Command]
  BY Zenon DEF Record
<1>6. \A a \in Record : a.phase = "attempt" => a.mutation \in Mutations /\ a.role \in Role
  BY <1>1, <1>2, <1>3, <1>5
<1>7. \A a \in Record : a.phase = "result" /\ "request" \in DOMAIN a => a.mutation \in Mutations
  BY <1>1, <1>2, <1>3, <1>5
<1>8. \A c \in Command : LET a == [phase |-> "result", command |-> c]
                         IN  a \in Record /\ a.phase = "result" /\ "request" \notin DOMAIN a
  BY <1>1, <1>4, <1>5
<1> QED
  BY <1>6, <1>7, <1>8

LEMMA AttemptRecord ==
  ASSUME RequestsTyped, NEW q \in Request, request[q].mutation \in Mutations
  PROVE  /\ Attempt(q) \in Record /\ Attempt(q).phase = "attempt"
         /\ Attempt(q).mutation = request[q].mutation /\ Attempt(q).role = request[q].role
<1>1. request[q].role \in Role
  BY DEF RequestsTyped, RequestState
<1> QED
  BY <1>1 DEF Attempt, Record

LEMMA ResultRecord ==
  ASSUME RequestsTyped, NEW q \in Request, request[q].mutation \in Mutations,
         request[q].status \in {"ok", "error"}
  PROVE  /\ Result(q) \in Record /\ Result(q).phase = "result" /\ "request" \in DOMAIN Result(q)
         /\ Result(q).request = q /\ Result(q).status = request[q].status
         /\ Result(q).mutation = request[q].mutation
<1>1. request[q].role \in Role
  BY DEF RequestsTyped, RequestState
<1> QED
  BY <1>1 DEF Result, Record

(* What the moves of a handler do to the table of requests.                *)
OnlyRow(q) == /\ request' \in [Request -> RequestState]
              /\ \A other \in Request \ {q} : request'[other] = request[other]

LEMMA GotoRow ==
  ASSUME RequestsTyped, NEW q \in Request, NEW pc \in Handling, Goto(q, pc)
  PROVE  /\ OnlyRow(q) /\ request'[q].pc = pc /\ request'[q].status = request[q].status
         /\ request'[q].mutation = request[q].mutation /\ request'[q].role = request[q].role
BY DEF RequestsTyped, Goto, OnlyRow, RequestState

LEMMA RespondRow ==
  ASSUME RequestsTyped, NEW q \in Request, NEW status \in {"ok", "error"}, Respond(q, status)
  PROVE  /\ OnlyRow(q) /\ request'[q].pc = "result" /\ request'[q].status = status
         /\ request'[q].mutation = request[q].mutation /\ request'[q].role = request[q].role
BY DEF RequestsTyped, Respond, OnlyRow, RequestState, Handling

LEMMA OverRow ==
  ASSUME RequestsTyped, NEW q \in Request, NEW status \in {"none", "ok", "error"}, Over(q, status)
  PROVE  OnlyRow(q) /\ request'[q].pc = "over" /\ request'[q].status = status
<1> DEFINE row == [pc |-> "over", mutation |-> Nothing, role |-> "viewer", status |-> status]
<1>1. [Waiting("over") EXCEPT !.status = status] = row
  BY DEF Waiting
<1>2. row \in RequestState
  BY DEF RequestState, Role
<1>3. request' = [request EXCEPT ![q] = row]
  BY <1>1 DEF Over
<1> QED
  BY <1>2, <1>3 DEF RequestsTyped, OnlyRow

LEMMA AttemptRow ==
  ASSUME RequestsTyped, NEW q \in Request, NEW m \in Mutations, NEW role \in Role,
         request' = [request EXCEPT ![q] = [Waiting("attempt") EXCEPT !.mutation = m, !.role = role]]
  PROVE  /\ OnlyRow(q) /\ request'[q].pc = "attempt"
         /\ request'[q].mutation = m /\ request'[q].role = role
<1> DEFINE w   == Waiting("attempt")
           row == [w EXCEPT !.mutation = m, !.role = role]
<1>1. w \in RequestState /\ w.pc = "attempt"
  BY DEF Waiting, RequestState, Handling, Role
<1> HIDE DEF w
<1>2. row \in RequestState /\ row.pc = "attempt" /\ row.mutation = m /\ row.role = role
  BY <1>1 DEF RequestState
<1>3. request' = [request EXCEPT ![q] = row]
  BY DEF w
<1> HIDE DEF row
<1> QED
  BY <1>2, <1>3 DEF RequestsTyped, OnlyRow

(* A request that does not move keeps its standing while records and       *)
(* alerts of others are added.                                             *)
AchievementsStay == \A m \in Mutations : Achieved(m) => Achieved(m)'

LEMMA StandingKept ==
  ASSUME NEW q \in Request, RequestInv(q), request'[q] = request[q],
         audit \subseteq audit', Known \subseteq Known', q \in Known' => q \in Known,
         AchievementsStay
  PROVE  RequestInv(q)'
<1>1. Attempt(q)' = Attempt(q)
  BY DEF Attempt
<1>2. Results \subseteq Results'
  BY DEF Results
<1>3. request[q].pc = "result" => request[q].mutation \in Mutations
  BY DEF RequestInv, Handling
<1> QED
  BY <1>1, <1>2, <1>3 DEF RequestInv, AchievementsStay

(* The audit trail goes on answering for the datastore when a record is    *)
(* added, and when a mutation that has its attempt recorded changes it.    *)
LEMMA TrailGrows ==
  ASSUME AuditTells, UNCHANGED <<run, lease, mode>>, audit \subseteq audit',
         \A a \in audit' \ audit :
           /\ a.phase = "attempt" => Allows(a.role, Required[a.mutation.op])
           /\ a.phase = "result" /\ "request" \in DOMAIN a /\ a.status = "ok" => Achieved(a.mutation)
  PROVE  AuditTells'
<1>1. \A m : Achieved(m)' <=> Achieved(m)
  BY DEF Achieved
<1>2. /\ Attempted \subseteq Attempted'
      /\ \A a \in Attempted' : a \in Attempted \/ (a \in audit' \ audit /\ a.phase = "attempt")
  BY DEF Attempted
<1>3. \A a \in Results' : \/ a \in Results
                          \/ a \in audit' \ audit /\ a.phase = "result" /\ "request" \in DOMAIN a
  BY DEF Results
<1>4. \A ops, t : AttemptedOn(ops, t) => AttemptedOn(ops, t)'
  BY <1>2 DEF AttemptedOn
<1>5. \A a \in Results' : a.status = "ok" => Achieved(a.mutation)'
  BY <1>1, <1>3 DEF AuditTells
<1>6. \A a \in Attempted' : Allows(a.role, Required[a.mutation.op])
  BY <1>2 DEF AuditTells
<1>7. \A r \in Run : run'[r] = "closed" => AttemptedOn({"close_run"}, r)'
  BY <1>4 DEF AuditTells
<1>8. \A l \in Lease : lease'[l] = "revoked" =>
        AttemptedOn({"revoke_lease"}, l)' \/ AttemptedOn({"revoke_principal"}, Owner[LeaseRun[l]])'
  BY <1>4 DEF AuditTells
<1>9. \A p \in Principal : mode'[p] = "enforce" => AttemptedOn({"set_mode"}, p)'
  BY <1>4 DEF AuditTells
<1> QED
  BY <1>5, <1>6, <1>7, <1>8, <1>9 DEF AuditTells

LEMMA TrailNamesChange ==
  ASSUME AuditTells, RequestsTyped, UNCHANGED audit, NEW m \in Mutations, Traces(m),
         NEW a \in audit, a.phase = "attempt", a.mutation = m
  PROVE  AuditTells' /\ AchievementsStay
<1>1. AchievementsStay
  BY AchievedStays DEF AchievementsStay
<1>2. Attempted' = Attempted /\ Results' = Results /\ a \in Attempted
  BY DEF Attempted, Results
<1>3. \A b \in Results : b.mutation \in Mutations
  BY RecordKinds DEF Results, RequestsTyped
<1>4. \A ops, t : AttemptedOn(ops, t)' <=> AttemptedOn(ops, t)
  BY <1>2 DEF AttemptedOn
<1>5. \A ops, t : m.op \in ops /\ m.target = t => AttemptedOn(ops, t)
  BY <1>2 DEF AttemptedOn
<1>6. \A b \in Results' : b.status = "ok" => Achieved(b.mutation)'
  BY <1>1, <1>2, <1>3 DEF AuditTells, AchievementsStay
<1>7. \A r \in Run : run'[r] = "closed" => AttemptedOn({"close_run"}, r)
  <2>1. \A r \in Run : m.op = "close_run" /\ m.target = r => AttemptedOn({"close_run"}, r)
    BY <1>5
  <2> QED
    BY <2>1 DEF AuditTells, Traces
<1>8. \A l \in Lease : lease'[l] = "revoked" =>
        AttemptedOn({"revoke_lease"}, l) \/ AttemptedOn({"revoke_principal"}, Owner[LeaseRun[l]])
  <2>1. \A l \in Lease : /\ m.op = "revoke_lease" /\ m.target = l => AttemptedOn({"revoke_lease"}, l)
                         /\ m.op = "revoke_principal" /\ m.target = Owner[LeaseRun[l]]
                            => AttemptedOn({"revoke_principal"}, Owner[LeaseRun[l]])
    BY <1>5
  <2> QED
    BY <2>1 DEF AuditTells, Traces
<1>9. \A p \in Principal : mode'[p] = "enforce" => AttemptedOn({"set_mode"}, p)
  <2>1. \A p \in Principal : m.op = "set_mode" /\ m.target = p => AttemptedOn({"set_mode"}, p)
    BY <1>5
  <2> QED
    BY <2>1 DEF AuditTells, Traces
<1>10. \A b \in Attempted' : Allows(b.role, Required[b.mutation.op])
  BY <1>2 DEF AuditTells
<1> QED
  BY <1>1, <1>4, <1>6, <1>7, <1>8, <1>9, <1>10 DEF AuditTells

-----------------------------------------------------------------------------

(* What does not concern the datastore leaves its rows alone.              *)
LEMMA StoreKept ==
  ASSUME StoreTyped, UNCHANGED <<vars, mode>>
  PROVE  StoreTyped' /\ UNCHANGED <<run, lease, mode>> /\ AchievementsStay
BY DEF StoreTyped, TypeOK, vars, AchievementsStay, Achieved

(* The other requests, when one moves.                                     *)
LEMMA OthersKept ==
  ASSUME ConsoleInv, NEW q \in Request, OnlyRow(q), audit \subseteq audit', Known' \in {Known, Known \cup {q}},
         AchievementsStay
  PROVE  \A other \in Request \ {q} : RequestInv(other)'
<1> SUFFICES ASSUME NEW other \in Request \ {q} PROVE RequestInv(other)'
  OBVIOUS
<1>1. request'[other] = request[other] /\ RequestInv(other)
  BY DEF OnlyRow, ConsoleInv
<1>2. Known \subseteq Known' /\ (other \in Known' => other \in Known)
  OBVIOUS
<1> QED
  BY <1>1, <1>2, StandingKept

LEMMA AuthenticateInv ==
  ASSUME ConsoleInv, OperatorsInv,
         NEW q \in Request, NEW c \in Credential, NEW m \in Mutations, Authenticate(q, c, m)
  PROVE  ConsoleInv'
<1>1. UNCHANGED <<vars, mode, audit, alertVars>> /\ At(q, "idle")
  BY DEF Authenticate, storeVars
<1>2. StoreTyped' /\ UNCHANGED <<run, lease, mode>> /\ AchievementsStay
  BY <1>1, StoreKept DEF ConsoleInv
<1>3. AlertsInv' /\ Known' = Known
  BY <1>1, CloseStep DEF ConsoleInv
<1>4. AuditTells'
  BY <1>1, <1>2, TrailGrows DEF ConsoleInv
<1>5. q \notin Known
  BY <1>1 DEF ConsoleInv, RequestInv, At
<1>6. RequestsTyped /\ UNCHANGED audit
  BY <1>1 DEF ConsoleInv
<1>7. OnlyRow(q) /\ RequestInv(q)'
  <2>1. ASSUME NEW role \in Identity(c), Allows(role, Required[m.op]),
               request' = [request EXCEPT ![q] = [Waiting("attempt") EXCEPT !.mutation = m, !.role = role]]
        PROVE  OnlyRow(q) /\ RequestInv(q)'
    <3>1. role \in Role
      <4>1. CASE c.kind = "named"
        <5>1. c.operator \in Operator
          BY <4>1 DEF Credential
        <5>2. role = operator[c.operator].role
          BY <2>1, <4>1 DEF Identity
        <5> QED
          BY <5>1, <5>2 DEF OperatorsInv, OperatorsTyped, OperatorRow
      <4>2. CASE c.kind # "named"
        BY <2>1, <4>2 DEF Identity, Role
      <4> QED
        BY <4>1, <4>2
    <3>2. /\ OnlyRow(q) /\ request'[q].pc = "attempt"
          /\ request'[q].mutation = m /\ request'[q].role = role
      BY <1>6, <2>1, <3>1, AttemptRow
    <3> QED
      BY <1>3, <1>5, <2>1, <3>2 DEF RequestInv
  <2>2. CASE Over(q, "none")
    <3>1. OnlyRow(q) /\ request'[q].pc = "over" /\ request'[q].status = "none"
      BY <1>6, <2>2, OverRow
    <3> QED
      BY <3>1 DEF RequestInv, Handling
  <2> QED
    BY <2>1, <2>2 DEF Authenticate
<1>8. \A other \in Request \ {q} : RequestInv(other)'
  BY <1>2, <1>3, <1>6, <1>7, OthersKept
<1>9. RequestsTyped'
  BY <1>6, <1>7 DEF RequestsTyped, OnlyRow
<1> QED
  BY <1>2, <1>3, <1>4, <1>7, <1>8, <1>9 DEF ConsoleInv

LEMMA RecordAttemptInv ==
  ASSUME ConsoleInv, NEW q \in Request, RecordAttempt(q)
  PROVE  ConsoleInv'
<1>1. UNCHANGED <<vars, mode, alertVars>> /\ request[q].pc = "attempt"
  BY DEF RecordAttempt, At
<1>2. StoreTyped' /\ UNCHANGED <<run, lease, mode>> /\ AchievementsStay
  BY <1>1, StoreKept DEF ConsoleInv
<1>3. AlertsInv' /\ Known' = Known
  BY <1>1, CloseStep DEF ConsoleInv
<1>4. /\ RequestsTyped /\ request[q].mutation \in Mutations /\ q \notin Known
      /\ Allows(request[q].role, Required[request[q].mutation.op])
  BY <1>1 DEF ConsoleInv, RequestInv, Handling
<1>5. /\ Attempt(q) \in Record /\ Attempt(q).phase = "attempt"
      /\ Attempt(q).mutation = request[q].mutation /\ Attempt(q).role = request[q].role
  BY <1>4, AttemptRecord
<1>6. audit' = audit \/ audit' = audit \cup {Attempt(q)}
  BY DEF RecordAttempt
<1>7. audit \subseteq audit' /\ audit' \subseteq Record /\ \A a \in audit' \ audit : a = Attempt(q)
  BY <1>4, <1>5, <1>6 DEF RequestsTyped
<1>8. AuditTells'
  BY <1>2, <1>4, <1>5, <1>7, TrailGrows DEF ConsoleInv
<1>9. OnlyRow(q) /\ RequestInv(q)'
  <2>1. CASE Over(q, "none")
    <3>1. OnlyRow(q) /\ request'[q].pc = "over" /\ request'[q].status = "none"
      BY <1>4, <2>1, OverRow
    <3> QED
      BY <3>1 DEF RequestInv, Handling
  <2>2. CASE Goto(q, "read") /\ audit' = audit \cup {Attempt(q)}
    <3>1. /\ OnlyRow(q) /\ request'[q].pc = "read"
          /\ request'[q].mutation = request[q].mutation /\ request'[q].role = request[q].role
      BY <1>4, <2>2, GotoRow DEF Handling
    <3>2. Attempt(q)' = Attempt(q)
      BY <3>1 DEF Attempt
    <3> QED
      BY <1>3, <1>4, <2>2, <3>1, <3>2 DEF RequestInv
  <2> QED
    BY <2>1, <2>2 DEF RecordAttempt
<1>10. \A other \in Request \ {q} : RequestInv(other)'
  BY <1>2, <1>3, <1>7, <1>9, OthersKept
<1>11. RequestsTyped'
  BY <1>7, <1>9 DEF RequestsTyped, OnlyRow
<1> QED
  BY <1>2, <1>3, <1>8, <1>9, <1>10, <1>11 DEF ConsoleInv

LEMMA ReadBeforeInv ==
  ASSUME ConsoleInv, NEW q \in Request, ReadBefore(q)
  PROVE  ConsoleInv'
<1>1. UNCHANGED <<vars, mode, audit, alertVars>> /\ request[q].pc = "read"
  BY DEF ReadBefore, At, storeVars
<1>2. StoreTyped' /\ UNCHANGED <<run, lease, mode>> /\ AchievementsStay
  BY <1>1, StoreKept DEF ConsoleInv
<1>3. AlertsInv' /\ Known' = Known
  BY <1>1, CloseStep DEF ConsoleInv
<1>4. AuditTells'
  BY <1>1, <1>2, TrailGrows DEF ConsoleInv
<1>5. /\ RequestsTyped /\ UNCHANGED audit /\ request[q].mutation \in Mutations
      /\ q \notin Known /\ Attempt(q) \in audit
      /\ Allows(request[q].role, Required[request[q].mutation.op])
  BY <1>1 DEF ConsoleInv, RequestInv, Handling
<1>6. /\ OnlyRow(q) /\ request'[q].pc \in {"change", "result"}
      /\ request'[q].pc = "result" => request'[q].status = "error"
      /\ request'[q].mutation = request[q].mutation /\ request'[q].role = request[q].role
  <2>1. CASE Goto(q, "change")
    BY <1>5, <2>1, GotoRow DEF Handling
  <2>2. CASE Respond(q, "error")
    BY <1>5, <2>2, RespondRow
  <2> QED
    BY <2>1, <2>2 DEF ReadBefore
<1>7. Attempt(q)' = Attempt(q)
  BY <1>6 DEF Attempt
<1>8. RequestInv(q)'
  BY <1>3, <1>5, <1>6, <1>7 DEF RequestInv
<1>9. \A other \in Request \ {q} : RequestInv(other)'
  BY <1>2, <1>3, <1>5, <1>6, OthersKept
<1>10. RequestsTyped'
  BY <1>5, <1>6 DEF RequestsTyped, OnlyRow
<1> QED
  BY <1>2, <1>3, <1>4, <1>8, <1>9, <1>10 DEF ConsoleInv

LEMMA ChangeInv ==
  ASSUME ConsoleInv, NEW q \in Request, Change(q)
  PROVE  ConsoleInv'
<1>1. UNCHANGED <<audit, alertVars>> /\ request[q].pc = "change"
  BY DEF Change, At
<1>2. AlertsInv' /\ Known' = Known
  BY <1>1, CloseStep DEF ConsoleInv
<1>3. /\ RequestsTyped /\ UNCHANGED audit /\ request[q].mutation \in Mutations
      /\ q \notin Known /\ Attempt(q) \in audit
      /\ Allows(request[q].role, Required[request[q].mutation.op])
  BY <1>1 DEF ConsoleInv, RequestInv, Handling
<1> PICK m \in Mutations : m = request[q].mutation
  BY <1>3
<1>4. Attempt(q).phase = "attempt" /\ Attempt(q).mutation = m
  BY <1>3, AttemptRecord
<1>5. /\ StoreTyped' /\ AuditTells' /\ AchievementsStay
      /\ \E status \in {"ok", "error"} : Respond(q, status) /\ (status = "ok" => Achieved(m)')
  <2>1. CASE Effect(m) /\ \E status \in {"ok", "error"} : Respond(q, status)
    <3>1. StoreTyped' /\ Traces(m) /\ Achieved(m)'
      BY <1>3, <2>1, EffectStep DEF ConsoleInv
    <3>2. AuditTells' /\ AchievementsStay
      BY <1>3, <1>4, <3>1, TrailNamesChange DEF ConsoleInv
    <3> QED
      BY <2>1, <3>1, <3>2
  <2>2. CASE UNCHANGED <<vars, mode>> /\ Respond(q, "error")
    <3>1. StoreTyped' /\ UNCHANGED <<run, lease, mode>> /\ AchievementsStay
      BY <2>2, StoreKept DEF ConsoleInv
    <3>2. AuditTells'
      BY <1>1, <3>1, TrailGrows DEF ConsoleInv
    <3> QED
      BY <2>2, <3>1, <3>2
  <2> QED
    BY <2>1, <2>2 DEF Change
<1>6. PICK status \in {"ok", "error"} : Respond(q, status) /\ (status = "ok" => Achieved(m)')
  BY <1>5
<1>7. /\ OnlyRow(q) /\ request'[q].pc = "result" /\ request'[q].status = status
      /\ request'[q].mutation = request[q].mutation /\ request'[q].role = request[q].role
  BY <1>3, <1>6, RespondRow
<1>8. Attempt(q)' = Attempt(q)
  BY <1>7 DEF Attempt
<1>9. RequestInv(q)'
  <2>1. Achieved(request[q].mutation)' <=> Achieved(m)'
    BY <1>7
  <2> QED
    BY <1>2, <1>3, <1>6, <1>7, <1>8, <2>1 DEF RequestInv
<1>10. \A other \in Request \ {q} : RequestInv(other)'
  BY <1>2, <1>3, <1>5, <1>7, OthersKept
<1>11. RequestsTyped'
  BY <1>3, <1>7 DEF RequestsTyped, OnlyRow
<1> QED
  BY <1>2, <1>5, <1>9, <1>10, <1>11 DEF ConsoleInv

LEMMA RecordResultInv ==
  ASSUME ConsoleInv, NEW q \in Request, RecordResult(q)
  PROVE  ConsoleInv'
<1>1. UNCHANGED <<vars, mode>> /\ request[q].pc = "result" /\ Over(q, request[q].status)
  BY DEF RecordResult, At
<1>2. StoreTyped' /\ UNCHANGED <<run, lease, mode>> /\ AchievementsStay
  BY <1>1, StoreKept DEF ConsoleInv
<1>3. /\ RequestsTyped /\ request[q].mutation \in Mutations /\ q \notin Known /\ q \in Event
      /\ request[q].status \in {"ok", "error"}
      /\ request[q].status = "ok" => Achieved(request[q].mutation)
  BY <1>1, AuditAlerts DEF ConsoleInv, RequestInv, Handling
<1>4. /\ Result(q) \in Record /\ Result(q).phase = "result" /\ "request" \in DOMAIN Result(q)
      /\ Result(q).request = q /\ Result(q).status = request[q].status
      /\ Result(q).mutation = request[q].mutation
  BY <1>3, ResultRecord
<1>5. /\ audit' = audit \/ audit' = audit \cup {Result(q)}
      /\ UNCHANGED alertVars \/ Notify(q)
      /\ audit' = audit \cup {Result(q)} \/ Notify(q)
  BY DEF RecordResult
<1>6. /\ AlertsInv' /\ Known' \in {Known, Known \cup {q}}
      /\ Notify(q) => q \in Known'
  <2>1. Notify(q) => AlertsInv' /\ Known' = Known \cup {q}
    BY <1>3, NotifyStep DEF ConsoleInv
  <2>2. UNCHANGED alertVars => AlertsInv' /\ Known' = Known
    BY CloseStep DEF ConsoleInv
  <2> QED
    BY <1>5, <2>1, <2>2
<1>7. audit \subseteq audit' /\ audit' \subseteq Record /\ \A a \in audit' \ audit : a = Result(q)
  BY <1>3, <1>4, <1>5 DEF RequestsTyped
<1>8. AuditTells'
  BY <1>2, <1>3, <1>4, <1>7, TrailGrows DEF ConsoleInv
<1>9. OnlyRow(q) /\ request'[q].pc = "over" /\ request'[q].status = request[q].status
  BY <1>1, <1>3, OverRow
<1>10. RequestInv(q)'
  <2>1. CASE Notify(q)
    BY <1>6, <1>9, <2>1 DEF RequestInv, Handling
  <2>2. CASE audit' = audit \cup {Result(q)}
    <3>1. Result(q) \in Results'
      BY <1>4, <2>2 DEF Results
    <3> QED
      BY <1>4, <1>9, <3>1 DEF RequestInv, Handling
  <2> QED
    BY <1>5, <2>1, <2>2
<1>11. \A other \in Request \ {q} : RequestInv(other)'
  BY <1>2, <1>6, <1>7, <1>9, OthersKept
<1>12. RequestsTyped'
  BY <1>7, <1>9 DEF RequestsTyped, OnlyRow
<1> QED
  BY <1>2, <1>6, <1>8, <1>10, <1>11, <1>12 DEF ConsoleInv

(* A step of a command or of the process, which moves no request.          *)
LEMMA QuietInv ==
  ASSUME ConsoleInv, UNCHANGED <<vars, mode, request>>, AlertsInv', Known' = Known,
         audit \subseteq audit', audit' \subseteq Record,
         \A a \in audit' \ audit : a.phase = "result" /\ "request" \notin DOMAIN a
  PROVE  ConsoleInv'
<1>1. StoreTyped' /\ UNCHANGED <<run, lease, mode>> /\ AchievementsStay
  BY StoreKept DEF ConsoleInv
<1>2. AuditTells'
  BY <1>1, TrailGrows DEF ConsoleInv
<1>3. \A q \in Request : RequestInv(q)'
  BY <1>1, StandingKept DEF ConsoleInv
<1>4. RequestsTyped'
  BY DEF ConsoleInv, RequestsTyped
<1> QED
  BY <1>1, <1>2, <1>3, <1>4 DEF ConsoleInv

LEMMA CommandInv ==
  ASSUME ConsoleInv, NEW c \in Command, Invocation(c)
  PROVE  ConsoleInv'
<1>1. NoRequestChanges /\ audit' \in {audit, audit \cup {[phase |-> "result", command |-> c]}}
  BY DEF Invocation, Invoke, Insert, Find, Lock, ReadCurrent, CountAdmins, Update, CommitUnchanged,
         AuditCommand, Interrupt
<1>2. UNCHANGED <<vars, mode, request, alertVars>>
  BY <1>1 DEF NoRequestChanges
<1>3. AlertsInv' /\ Known' = Known
  BY <1>2, CloseStep DEF ConsoleInv
<1>4. /\ audit \subseteq audit' /\ audit' \subseteq Record
      /\ \A a \in audit' \ audit : a.phase = "result" /\ "request" \notin DOMAIN a
  BY <1>1, RecordKinds DEF ConsoleInv, RequestsTyped
<1> QED
  BY <1>2, <1>3, <1>4, QuietInv

LEMMA ProcessInv ==
  ASSUME ConsoleInv,
         Shutdown \/ CloseAlerts \/ (\E b \in BOOLEAN : CloseStore(b)) \/ Worker \/ UNCHANGED consoleVars
  PROVE  ConsoleInv'
<1>1. UNCHANGED <<vars, mode, request, audit>>
  BY DEF Shutdown, CloseAlerts, CloseStore, Worker, consoleVars, storeVars
<1>2. UNCHANGED alertVars \/ Close \/ Receive \/ Deliver
  BY DEF Shutdown, CloseAlerts, CloseStore, Worker, consoleVars
<1>3. AlertsInv' /\ Known' = Known
  BY <1>2, CloseStep, ReceiveStep, DeliverStep DEF ConsoleInv
<1> QED
  BY <1>1, <1>3, QuietInv DEF ConsoleInv, RequestsTyped

(* The death of the process takes its requests and alerts with it and      *)
(* leaves the datastore as it is.                                          *)
LEMMA ExitInv ==
  ASSUME ConsoleInv, Exit
  PROVE  ConsoleInv'
<1>1. UNCHANGED <<vars, mode, audit>>
  BY DEF Exit, storeVars
<1>2. StoreTyped' /\ UNCHANGED <<run, lease, mode>>
  BY <1>1, StoreKept DEF ConsoleInv
<1>3. AuditTells'
  BY <1>1, <1>2, TrailGrows DEF ConsoleInv
<1>4. /\ queue' = << >> /\ sending' = << >> /\ closed' = TRUE /\ exited' = TRUE
      /\ sent' = {} /\ failed' = {} /\ dropped' = {} /\ ignored' = {}
  BY DEF Exit
<1>5. AlertsInv' /\ Known' = {}
  <2>1. InQueue' = {} /\ InHand' = {} /\ DOMAIN queue' = {}
    BY <1>4 DEF InQueue, InHand
  <2>2. AlertsTypeOK'
    <3>1. queue' \in Seq(Event) /\ Len(queue') <= QueueSize
      BY <1>4, EmptySeq, AlertLimits
    <3>2. \A S \in {sent', failed', dropped', ignored'} : S \subseteq Event
      BY <1>4
    <3>3. closed' \in BOOLEAN /\ exited' \in BOOLEAN /\ sending' = << >>
      BY <1>4
    <3> QED
      BY <3>1, <3>2, <3>3, Zenon DEF AlertsTypeOK
  <2> QED
    BY <1>4, <2>1, <2>2 DEF AlertsInv, Apart, NoRepeats, Known
<1>6. request' = [q \in Request |-> Waiting("lost")]
  BY DEF Exit
<1>7. \A q \in Request : request'[q].pc = "lost"
  BY <1>6 DEF Waiting
<1>8. RequestsTyped'
  <2>1. Waiting("lost") \in RequestState
    BY DEF Waiting, RequestState, Role
  <2>2. request' \in [Request -> RequestState]
    BY <1>6, <2>1
  <2> QED
    BY <1>1, <2>2 DEF ConsoleInv, RequestsTyped
<1>9. \A q \in Request : RequestInv(q)'
  BY <1>5, <1>7 DEF RequestInv, Handling
<1> QED
  BY <1>2, <1>3, <1>5, <1>8, <1>9 DEF ConsoleInv

LEMMA ConsoleInvInit == ConsoleInit => ConsoleInv
<1> SUFFICES ASSUME ConsoleInit PROVE ConsoleInv
  OBVIOUS
<1>1. StoreTyped
  <2>1. ledger \in Seq(Entry) /\ hold \in [Hold -> HoldRow \cup {NoHold}] /\ settlement \in [Hold -> Nat]
    BY EmptySeq DEF ConsoleInit
  <2>2. run \in [Run -> RunStatus] /\ lease \in [Lease -> LeaseStatus] /\ overdue \subseteq Hold
    BY DEF ConsoleInit, RunStatus, LeaseStatus
  <2>3. mode \in [Principal -> Mode]
    BY DEF ConsoleInit, Mode
  <2> QED
    BY <2>1, <2>2, <2>3 DEF StoreTyped, TypeOK
<1>2. AlertsInv /\ Known = {}
  BY AlertsInitInv DEF ConsoleInit
<1>3. PICK w \in Workloads :
        request = [q \in Request |-> Waiting(IF q \in w THEN "idle" ELSE "never")]
  BY DEF ConsoleInit
<1>4. \A q \in Request : request[q] \in RequestState /\ request[q].pc \in {"idle", "never"}
  BY <1>3 DEF Waiting, RequestState, Role
<1>5. RequestsTyped
  BY <1>3, <1>4 DEF RequestsTyped, ConsoleInit
<1>6. \A q \in Request : RequestInv(q)
  BY <1>2, <1>4 DEF RequestInv, Handling
<1>7. AuditTells
  <2>1. Results = {} /\ Attempted = {}
    BY DEF ConsoleInit, Results, Attempted
  <2>2. /\ \A r \in Run : run[r] # "closed"
        /\ \A l \in Lease : lease[l] # "revoked"
        /\ \A p \in Principal : mode[p] # "enforce"
    BY DEF ConsoleInit
  <2> QED
    BY <2>1, <2>2 DEF AuditTells
<1> QED
  BY <1>1, <1>2, <1>5, <1>6, <1>7 DEF ConsoleInv

(* Records, alerts and the datastore stay together.                        *)
THEOREM ConsoleInvHolds == ConsoleSpec => []ConsoleInv
<1>1. ConsoleInit => ConsoleInv
  BY ConsoleInvInit
<1>2. ConsoleInv /\ OperatorsInv /\ [ConsoleNext]_consoleVars => ConsoleInv'
  <2> SUFFICES ASSUME ConsoleInv, OperatorsInv, [ConsoleNext]_consoleVars
               PROVE  ConsoleInv'
    OBVIOUS
  <2>1. ASSUME NEW q \in Request, NEW c \in Credential, NEW m \in Mutations, Authenticate(q, c, m)
        PROVE  ConsoleInv'
    BY <2>1, AuthenticateInv
  <2>2. ASSUME NEW q \in Request, Handle(q) PROVE ConsoleInv'
    BY <2>2, RecordAttemptInv, ReadBeforeInv, ChangeInv, RecordResultInv DEF Handle
  <2>3. ASSUME NEW c \in Command, Invocation(c) PROVE ConsoleInv'
    BY <2>3, CommandInv
  <2>4. CASE Shutdown \/ CloseAlerts \/ (\E b \in BOOLEAN : CloseStore(b)) \/ Worker \/ UNCHANGED consoleVars
    BY <2>4, ProcessInv
  <2>5. CASE Exit
    BY <2>5, ExitInv
  <2> QED
    BY <2>1, <2>2, <2>3, <2>4, <2>5 DEF ConsoleNext
<1> QED
  BY <1>1, <1>2, OperatorsGuarded, PTL DEF ConsoleSpec

(* The rows of the control plane keep their shape; a handler that changes  *)
(* something has a mutation, and the queue of alerts stays in its limit.   *)
THEOREM ConsoleTypes == ConsoleSpec => []ConsoleTypeOK
<1> DEFINE Phases == phase \in {"serving", "stopping", "draining", "closing", "exited"}
<1>1. ConsoleInit => Phases
  BY DEF ConsoleInit
<1>2. Phases /\ [ConsoleNext]_consoleVars => Phases'
  <2> SUFFICES ASSUME Phases, [ConsoleNext]_consoleVars PROVE Phases'
    OBVIOUS
  <2>1. ASSUME NEW q \in Request, NEW c \in Credential, NEW m \in Mutations, Authenticate(q, c, m)
        PROVE  UNCHANGED phase
    BY <2>1 DEF Authenticate
  <2>2. ASSUME NEW q \in Request, Handle(q) PROVE UNCHANGED phase
    BY <2>2 DEF Handle, RecordAttempt, ReadBefore, Change, RecordResult
  <2>3. ASSUME NEW c \in Command, Invocation(c) PROVE UNCHANGED phase
    BY <2>3 DEF Invocation, Invoke, Insert, Find, Lock, ReadCurrent, CountAdmins, Update, CommitUnchanged,
       AuditCommand, Interrupt, NoRequestChanges
  <2>4. CASE Shutdown \/ CloseAlerts \/ (\E b \in BOOLEAN : CloseStore(b)) \/ Exit
    BY <2>4 DEF Shutdown, CloseAlerts, CloseStore, Exit
  <2>5. CASE Worker \/ UNCHANGED consoleVars
    BY <2>5 DEF Worker, consoleVars
  <2> QED
    BY <2>1, <2>2, <2>3, <2>4, <2>5 DEF ConsoleNext
<1>3. ConsoleInv /\ OperatorsInv /\ Phases => ConsoleTypeOK
  BY DEF ConsoleInv, OperatorsInv, OperatorsTyped, StoreTyped, AlertsInv, RequestsTyped, ConsoleTypeOK
<1> QED
  BY <1>1, <1>2, <1>3, ConsoleInvHolds, OperatorsGuarded, PTL DEF ConsoleSpec

(* The audit trail answers for the datastore: what it says succeeded is    *)
(* so, nothing was closed, revoked or switched that no attempt before it   *)
(* names, and each attempt is by someone whose role allows it.             *)
THEOREM AuditAnswersForDatastore == ConsoleSpec => []AuditTells
<1>1. ConsoleInv => AuditTells
  BY DEF ConsoleInv
<1> QED
  BY <1>1, ConsoleInvHolds, PTL

(* A mutation whose handler came to its end has a record of its result or  *)
(* raised an alert, and each alert is in one place, whatever else shutdown *)
(* has closed by then.                                                     *)
THEOREM EveryResultIsToldOf == ConsoleSpec => []ResultsOrAlerts
<1>1. ConsoleInv => ResultsOrAlerts
  BY PlacesApart, NotifiedIsKnown DEF ConsoleInv, RequestInv, ResultsOrAlerts
<1> QED
  BY <1>1, ConsoleInvHolds, PTL
=============================================================================
