------------------------------- MODULE Alerts -------------------------------
(***************************************************************************)
(* The alert webhook of one process: internal/observability.  Requests put *)
(* events into a bounded queue and never wait; one worker delivers them in *)
(* order, each in up to Attempts attempts; Close lets the worker drain the *)
(* queue for as long as its context lasts.                                 *)
(*                                                                         *)
(* Every event is distinct (it has a random identifier), so the counters   *)
(* of spendlease_alert_delivery_total are the sizes of the sets below.     *)
(***************************************************************************)
EXTENDS Integers, Sequences, FiniteSets

CONSTANTS Event,
          QueueSize,  \* alertQueueSize
          Attempts    \* of deliver

ASSUME AlertLimits == QueueSize \in Nat \ {0} /\ Attempts \in Nat \ {0}

VARIABLES
  queue,       \* Service.queue
  sending,     \* what the worker is delivering, << >> or one [event, attempt]
  closed,      \* Service.closed
  exited,      \* Service.done is closed
  sent, failed, dropped,   \* alerts["sent"], alerts["failed"], alerts["dropped"]
  ignored      \* history: events that came after Close, which leave no trace

alertVars == <<queue, sending, closed, exited, sent, failed, dropped, ignored>>

AlertsTypeOK ==
  /\ queue \in Seq(Event) /\ Len(queue) <= QueueSize
  /\ sending \in {<< >>} \cup {<<d>> : d \in [event : Event, attempt : 1 .. Attempts]}
  /\ closed \in BOOLEAN /\ exited \in BOOLEAN
  /\ \A S \in {sent, failed, dropped, ignored} : S \subseteq Event

AlertsInit ==
  /\ queue = << >> /\ sending = << >>
  /\ closed = FALSE /\ exited = FALSE
  /\ sent = {} /\ failed = {} /\ dropped = {} /\ ignored = {}

(* Mutant: an event that finds the queue full is not counted.              *)
MutNotify(e) ==
  /\ queue' = IF closed \/ Len(queue) = QueueSize THEN queue ELSE Append(queue, e)
  /\ ignored' = IF closed THEN ignored \cup {e} ELSE ignored
  /\ UNCHANGED <<sending, closed, exited, sent, failed, dropped>>

(* Under the read lock, so that Close cannot close the channel meanwhile.  *)
Notify(e) ==
  /\ \/ /\ closed
        /\ ignored' = ignored \cup {e} /\ UNCHANGED <<queue, dropped>>
     \/ /\ ~closed /\ Len(queue) < QueueSize
        /\ queue' = Append(queue, e) /\ UNCHANGED <<ignored, dropped>>
     \/ /\ ~closed /\ Len(queue) = QueueSize
        /\ dropped' = dropped \cup {e} /\ UNCHANGED <<queue, ignored>>
  /\ UNCHANGED <<sending, closed, exited, sent, failed>>

(* runAlerts receives the next event, or finds the channel closed and      *)
(* empty.                                                                  *)
Receive ==
  /\ ~exited /\ sending = << >>
  /\ \/ /\ queue # << >>
        /\ sending' = <<[event |-> Head(queue), attempt |-> 1]>>
        /\ queue' = Tail(queue) /\ UNCHANGED exited
     \/ /\ queue = << >> /\ closed
        /\ exited' = TRUE /\ UNCHANGED <<queue, sending>>
  /\ UNCHANGED <<closed, sent, failed, dropped, ignored>>

(* One attempt of deliver.  The receiver accepts the event, refuses it for *)
(* good (4xx, not 408 or 429), or does not manage this time.               *)
Deliver ==
  /\ ~exited /\ sending # << >>
  /\ LET d == sending[1] IN
     \/ /\ sent' = sent \cup {d.event} /\ sending' = << >> /\ UNCHANGED failed
     \/ /\ failed' = failed \cup {d.event} /\ sending' = << >> /\ UNCHANGED sent
     \/ /\ d.attempt < Attempts
        /\ sending' = <<[d EXCEPT !.attempt = @ + 1]>> /\ UNCHANGED <<sent, failed>>
  /\ UNCHANGED <<queue, closed, exited, dropped, ignored>>

(* Mutant: Close discards what is queued.                                  *)
MutClose ==
  /\ closed' = TRUE /\ queue' = << >>
  /\ UNCHANGED <<sending, exited, sent, failed, dropped, ignored>>

Close ==
  /\ closed' = TRUE
  /\ UNCHANGED <<queue, sending, exited, sent, failed, dropped, ignored>>

-----------------------------------------------------------------------------

InQueue == {queue[i] : i \in DOMAIN queue}
InHand  == {sending[i].event : i \in DOMAIN sending}

(* Where an event can be: waiting, with the worker, or in one total.       *)
Places == <<InQueue, InHand, sent, failed, dropped, ignored>>

Notified == UNION {Places[i] : i \in DOMAIN Places}

(* No event is in two places, and none twice in the queue.                 *)
EachInOnePlace ==
  /\ \A i, j \in DOMAIN Places : i # j => Places[i] \cap Places[j] = {}
  /\ Len(queue) = Cardinality(InQueue)
=============================================================================
