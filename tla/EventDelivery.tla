----------------------------- MODULE EventDelivery -----------------------------
(***************************************************************************)
(* The road of a domain event from its outbox row to its handlers: the     *)
(* relay of the main worker, the RabbitMQ queue with its retry and dead    *)
(* letter queues, the consumers, the handler registry and the              *)
(* (event, handler) marks of processed_events.  Events of one type, with   *)
(* the handlers 1 .. NumHandlers registered for it in that order.          *)
(***************************************************************************)
EXTENDS Integers, FiniteSets

CONSTANTS Event,         \* event ids (one aggregate's, or several's)
          NumHandlers,   \* handlers registered for the event type
          Worker,        \* consumer goroutines, each with a delivery of its own
          BatchSize,     \* rows the relay fetches at once
          MaxRetries,    \* RABBITMQ_MAX_RETRIES
          MaxPublishes,  \* bound: times the relay publishes one event
          Faults,        \* faults of the environment that may happen
          NoCopy         \* "no delivery in hand"

FaultKind ==
  {"relay_crash",   \* the relay dies, or MarkPublished fails, after publishing
   "publish_lost",  \* no publisher confirms: the broker loses a publication
   "crash",         \* a consumer process dies, or is stopped by SIGTERM
   "disconnect",    \* its channel closes while a handler runs
   "plain",         \* a handler returns an error it did not classify
   "mark_reply",    \* the insert of a mark commits, its answer is lost
   "unmark",        \* the delete of a mark fails
   "dlq_publish",   \* the publication to the dead letter queue fails
   "replay"}        \* an operator puts a dead letter back on the queue

Handler == 1 .. NumHandlers
Copy == Event \X (1 .. MaxPublishes)   \* the n-th publication of an event
Key == Event \X Handler

ASSUME EventDeliveryAssumption ==
  /\ NumHandlers \in Nat \ {0}
  /\ BatchSize \in Nat \ {0}
  /\ MaxRetries \in Nat
  /\ MaxPublishes \in Nat \ {0}
  /\ Faults \subseteq FaultKind
  /\ NoCopy \notin Copy

VARIABLES
  outbox,     \* row of each event: absent, unpublished, published
  sends,      \* number of times the relay published it
  batch,      \* rows fetched by the relay's current tick, not yet published
  sent,       \* rows it published, not yet marked
  where,      \* place of each message copy
  attempts,   \* x-death count of the copy: completed trips to the retry queue
  dlq,        \* the copy's dead letter: none, in the queue, its publication failed
  pc,         \* what each consumer goroutine does
  msg,        \* the copy it was given
  hnd,        \* the handler it is at
  owns,       \* whether its acknowledgement still counts for the broker
  outcome,    \* the class of the error of the handler that failed
  processed,  \* rows of processed_events
  succeeded   \* (event, handler) pairs of which a call returned nil

relayVars  == <<outbox, sends, batch, sent>>
brokerVars == <<where, attempts, dlq>>
workerVars == <<pc, msg, hnd, owns, outcome>>
markVars   == <<processed, succeeded>>
vars == <<relayVars, brokerVars, workerVars, markVars>>

Failure == {"retryable", "nonretryable", "plain"}

TypeOK ==
  /\ outbox \in [Event -> {"absent", "unpublished", "published"}]
  /\ sends \in [Event -> 0 .. MaxPublishes]
  /\ batch \subseteq Event
  /\ sent \subseteq Event
  /\ where \in [Copy -> {"unsent", "ready", "held", "retry", "gone"}]
  /\ attempts \in [Copy -> 0 .. MaxRetries]
  /\ dlq \in [Copy -> {"none", "queued", "failed"}]
  /\ pc \in [Worker -> {"idle", "mark", "run", "unmark", "failed", "ack"}]
  /\ msg \in [Worker -> Copy \cup {NoCopy}]
  /\ hnd \in [Worker -> Handler]
  /\ owns \in [Worker -> BOOLEAN]
  /\ outcome \in [Worker -> Failure]
  /\ processed \subseteq Key
  /\ succeeded \subseteq Key
  /\ \A w \in Worker : pc[w] # "idle" => msg[w] \in Copy

EventOf(c) == c[1]
KeyOf(w) == <<EventOf(msg[w]), hnd[w]>>

Init ==
  /\ outbox = [e \in Event |-> "absent"]
  /\ sends = [e \in Event |-> 0]
  /\ batch = {}
  /\ sent = {}
  /\ where = [c \in Copy |-> "unsent"]
  /\ attempts = [c \in Copy |-> 0]
  /\ dlq = [c \in Copy |-> "none"]
  /\ pc = [w \in Worker |-> "idle"]
  /\ msg = [w \in Worker |-> NoCopy]
  /\ hnd = [w \in Worker |-> 1]
  /\ owns = [w \in Worker |-> FALSE]
  /\ outcome = [w \in Worker |-> "retryable"]
  /\ processed = {}
  /\ succeeded = {}

--------------------------------------------------------------------------------
(* The outbox and its relay *)

\* A command commits the row of an event together with its aggregate.
StoreEvent(e) ==
  /\ outbox[e] = "absent"
  /\ outbox' = [outbox EXCEPT ![e] = "unpublished"]
  /\ UNCHANGED <<sends, batch, sent, brokerVars, workerVars, markVars>>

Unpublished == {e \in Event : outbox[e] = "unpublished"}

\* A tick reads the oldest rows; created_at is set before the row commits, so
\* which rows these are is any choice.
FetchUnpublished ==
  /\ batch = {} /\ sent = {}
  /\ \E rows \in SUBSET Unpublished :
       /\ rows # {}
       /\ Cardinality(rows) <= BatchSize
       /\ rows = Unpublished \/ Cardinality(rows) = BatchSize
       /\ batch' = rows
  /\ UNCHANGED <<outbox, sends, sent, brokerVars, workerVars, markVars>>

Publish(e) ==
  /\ e \in batch
  /\ sends[e] < MaxPublishes
  /\ sends' = [sends EXCEPT ![e] = @ + 1]
  /\ batch' = batch \ {e}
  /\ sent' = sent \cup {e}
  /\ \/ where' = [where EXCEPT ![<<e, sends[e] + 1>>] = "ready"]
     \/ "publish_lost" \in Faults /\ UNCHANGED where
  /\ UNCHANGED <<outbox, attempts, dlq, workerVars, markVars>>

\* A publication fails: the loop breaks, the rest waits for a later tick.
PublishFails ==
  /\ batch # {}
  /\ batch' = {}
  /\ UNCHANGED <<outbox, sends, sent, brokerVars, workerVars, markVars>>

MarkPublished ==
  /\ batch = {} /\ sent # {}
  /\ outbox' = [e \in Event |-> IF e \in sent THEN "published" ELSE outbox[e]]
  /\ sent' = {}
  /\ UNCHANGED <<sends, batch, brokerVars, workerVars, markVars>>

\* The relay stops, or MarkPublished fails: what it sent stays unpublished and
\* goes out again.  The guard keeps a publication in reserve for that.
RelayStops ==
  /\ "relay_crash" \in Faults
  /\ batch \cup sent # {}
  /\ \A e \in batch \cup sent : sends[e] < MaxPublishes
  /\ batch' = {} /\ sent' = {}
  /\ UNCHANGED <<outbox, sends, brokerVars, workerVars, markVars>>

Relay ==
  \/ FetchUnpublished
  \/ \E e \in Event : Publish(e)
  \/ PublishFails
  \/ MarkPublished
  \/ RelayStops

--------------------------------------------------------------------------------
(* The broker *)

\* The TTL of the retry queue expires: back to the main queue.
RetryExpires(c) ==
  /\ where[c] = "retry"
  /\ where' = [where EXCEPT ![c] = "ready"]
  /\ attempts' = [attempts EXCEPT ![c] = @ + 1]
  /\ UNCHANGED <<relayVars, dlq, workerVars, markVars>>

Replay(c) ==
  /\ "replay" \in Faults
  /\ dlq[c] = "queued" /\ where[c] = "gone"
  /\ dlq' = [dlq EXCEPT ![c] = "none"]
  /\ where' = [where EXCEPT ![c] = "ready"]
  /\ UNCHANGED <<relayVars, attempts, workerVars, markVars>>

--------------------------------------------------------------------------------
(* A consumer goroutine: handleDelivery, Dispatch and dedup.With *)

Deliver(w, c) ==
  /\ pc[w] = "idle"
  /\ where[c] = "ready"
  /\ where' = [where EXCEPT ![c] = "held"]
  /\ msg' = [msg EXCEPT ![w] = c]
  /\ hnd' = [hnd EXCEPT ![w] = 1]
  /\ owns' = [owns EXCEPT ![w] = TRUE]
  /\ pc' = [pc EXCEPT ![w] = "mark"]
  /\ UNCHANGED <<relayVars, attempts, dlq, outcome, markVars>>

\* The handler at hand is finished, or was skipped: the registry calls the next
\* one, or Dispatch returns nil.
NextHandler(w) ==
  IF hnd[w] < NumHandlers
  THEN pc' = [pc EXCEPT ![w] = "mark"] /\ hnd' = [hnd EXCEPT ![w] = @ + 1]
  ELSE pc' = [pc EXCEPT ![w] = "ack"] /\ UNCHANGED hnd

Fail(w, kind) ==
  /\ outcome' = [outcome EXCEPT ![w] = kind]
  /\ UNCHANGED hnd

\* Mutant: the mark is looked up, and left for the handler's end to insert.
MarkOnlyLookedUp(w) ==
  /\ pc[w] = "mark"
  /\ KeyOf(w) \notin processed
  /\ pc' = [pc EXCEPT ![w] = "run"]
  /\ UNCHANGED <<relayVars, brokerVars, msg, hnd, owns, outcome, markVars>>

\* Mutant: the insert overwrites a mark instead of refusing a second one.
MarkOverwritten(w) ==
  /\ pc[w] = "mark"
  /\ processed' = processed \cup {KeyOf(w)}
  /\ pc' = [pc EXCEPT ![w] = "run"]
  /\ UNCHANGED <<relayVars, brokerVars, msg, hnd, owns, outcome, succeeded>>

MarkProcessed(w) ==
  /\ pc[w] = "mark"
  /\ KeyOf(w) \notin processed
  /\ processed' = processed \cup {KeyOf(w)}
  /\ pc' = [pc EXCEPT ![w] = "run"]
  /\ UNCHANGED <<relayVars, brokerVars, msg, hnd, owns, outcome, succeeded>>

AlreadyProcessed(w) ==
  /\ pc[w] = "mark"
  /\ KeyOf(w) \in processed
  /\ NextHandler(w)
  /\ UNCHANGED <<relayVars, brokerVars, msg, owns, outcome, markVars>>

\* The insert fails, or its answer is lost after it committed: retryable, and
\* nothing releases the mark.
MarkFails(w) ==
  /\ pc[w] = "mark"
  /\ \/ UNCHANGED processed
     \/ "mark_reply" \in Faults /\ processed' = processed \cup {KeyOf(w)}
  /\ pc' = [pc EXCEPT ![w] = "failed"]
  /\ Fail(w, "retryable")
  /\ UNCHANGED <<relayVars, brokerVars, msg, owns, succeeded>>

\* Mutant: the mark is released whatever the handler returned.
HandlerReturnsUnmarked(w) ==
  /\ pc[w] = "run"
  /\ succeeded' = succeeded \cup {KeyOf(w)}
  /\ processed' = processed \ {KeyOf(w)}
  /\ NextHandler(w)
  /\ UNCHANGED <<relayVars, brokerVars, msg, owns, outcome>>

HandlerReturns(w) ==
  /\ pc[w] = "run"
  /\ succeeded' = succeeded \cup {KeyOf(w)}
  /\ NextHandler(w)
  /\ UNCHANGED <<relayVars, brokerVars, msg, owns, outcome, processed>>

HandlerFails(w) ==
  /\ pc[w] = "run"
  /\ \E kind \in Failure :
       /\ kind = "plain" => "plain" \in Faults
       /\ Fail(w, kind)
       /\ pc' = [pc EXCEPT ![w] = IF kind = "retryable" THEN "unmark" ELSE "failed"]
  /\ UNCHANGED <<relayVars, brokerVars, msg, owns, markVars>>

\* UnmarkProcessed, whose own error is ignored.
UnmarkProcessed(w) ==
  /\ pc[w] = "unmark"
  /\ \/ processed' = processed \ {KeyOf(w)}
     \/ "unmark" \in Faults /\ UNCHANGED processed
  /\ pc' = [pc EXCEPT ![w] = "failed"]
  /\ UNCHANGED <<relayVars, brokerVars, msg, hnd, owns, outcome, succeeded>>

GivesUp(w) ==
  \/ outcome[w] = "nonretryable"
  \/ attempts[msg[w]] >= MaxRetries

Release(w) ==
  /\ pc' = [pc EXCEPT ![w] = "idle"]
  /\ msg' = [msg EXCEPT ![w] = NoCopy]
  /\ hnd' = [hnd EXCEPT ![w] = 1]
  /\ owns' = [owns EXCEPT ![w] = FALSE]
  /\ outcome' = [outcome EXCEPT ![w] = "retryable"]

\* What an acknowledgement does to the copy; nothing once the channel is closed.
Settle(w, place) ==
  where' = IF owns[w] THEN [where EXCEPT ![msg[w]] = place] ELSE where

\* Mutant: a delivery that is out of attempts is acknowledged and nothing else.
DropsOutOfAttempts(w) ==
  /\ pc[w] = "failed"
  /\ GivesUp(w)
  /\ pc' = [pc EXCEPT ![w] = "ack"]
  /\ UNCHANGED <<relayVars, brokerVars, msg, hnd, owns, outcome, markVars>>

\* A failed publication is logged, and the delivery acknowledged all the same.
SendToDLQ(w) ==
  /\ pc[w] = "failed"
  /\ GivesUp(w)
  /\ \/ owns[w] /\ dlq' = [dlq EXCEPT ![msg[w]] = "queued"]
     \/ /\ owns[w] /\ "dlq_publish" \in Faults
        /\ dlq' = [dlq EXCEPT ![msg[w]] = IF @ = "queued" THEN @ ELSE "failed"]
     \/ ~owns[w] /\ UNCHANGED dlq
  /\ pc' = [pc EXCEPT ![w] = "ack"]
  /\ UNCHANGED <<relayVars, where, attempts, msg, hnd, owns, outcome, markVars>>

\* Mutant: the main queue has no retry exchange, a rejected message is dropped.
NackDrops(w) ==
  /\ pc[w] = "failed"
  /\ ~GivesUp(w)
  /\ Settle(w, "gone")
  /\ Release(w)
  /\ UNCHANGED <<relayVars, attempts, dlq, markVars>>

Nack(w) ==
  /\ pc[w] = "failed"
  /\ ~GivesUp(w)
  /\ Settle(w, "retry")
  /\ Release(w)
  /\ UNCHANGED <<relayVars, attempts, dlq, markVars>>

Ack(w) ==
  /\ pc[w] = "ack"
  /\ Settle(w, "gone")
  /\ Release(w)
  /\ UNCHANGED <<relayVars, attempts, dlq, markVars>>

\* The process dies; Start does not wait for its goroutines, so SIGTERM does the
\* same.  The broker redelivers, with the x-death count unchanged.
Crash(w) ==
  /\ "crash" \in Faults
  /\ pc[w] # "idle"
  /\ Settle(w, "ready")
  /\ Release(w)
  /\ UNCHANGED <<relayVars, attempts, dlq, markVars>>

\* The channel closes while the handler goes on.
Disconnect(w) ==
  /\ "disconnect" \in Faults
  /\ owns[w]
  /\ Settle(w, "ready")
  /\ owns' = [owns EXCEPT ![w] = FALSE]
  /\ UNCHANGED <<relayVars, attempts, dlq, pc, msg, hnd, outcome, markVars>>

Process(w) ==
  \/ MarkProcessed(w)
  \/ AlreadyProcessed(w)
  \/ MarkFails(w)
  \/ HandlerReturns(w)
  \/ HandlerFails(w)
  \/ UnmarkProcessed(w)
  \/ SendToDLQ(w)
  \/ Nack(w)
  \/ Ack(w)

Next ==
  \/ \E e \in Event : StoreEvent(e)
  \/ Relay
  \/ \E c \in Copy : RetryExpires(c) \/ Replay(c)
  \/ \E w \in Worker, c \in Copy : Deliver(w, c)
  \/ \E w \in Worker : Process(w) \/ Crash(w) \/ Disconnect(w)

Spec == Init /\ [][Next]_vars

\* The relay ticks, the broker delivers, goroutines go on; no outage of the
\* database or of the broker makes every tick of the relay fail.
Fairness ==
  /\ WF_vars(FetchUnpublished)
  /\ \A e \in Event : SF_vars(Publish(e))
  /\ SF_vars(MarkPublished)
  /\ \A c \in Copy : WF_vars(RetryExpires(c))
  /\ \A c \in Copy : SF_vars(\E w \in Worker : Deliver(w, c))
  /\ \A w \in Worker : WF_vars(Process(w))

FairSpec == Spec /\ Fairness

--------------------------------------------------------------------------------
(* Properties *)

Calling(w) == pc[w] \in {"run", "unmark"}

\* No two goroutines are inside the same handler for the same event, whatever
\* was published twice or redelivered (dedup.With marks before it calls).
OneCallAtATime ==
  \A v, w \in Worker : Calling(v) /\ Calling(w) /\ KeyOf(v) = KeyOf(w) => v = w

\* A handler whose call returned nil for an event is never called again for it:
\* "each (eventId, handlerName) is processed at most once".
NeverCalledAgain ==
  \A w \in Worker : Calling(w) => KeyOf(w) \notin succeeded

\* The abstract promise, and what stands for its variables here.
InCall == {KeyOf(w) : w \in {v \in Worker : Calling(v)}}
GivenUp == processed \ (succeeded \cup InCall)

Abstract == INSTANCE HandlerOnce
              WITH running <- InCall, done <- succeeded, dropped <- GivenUp

\* Deliveries implement that promise, through every fault.
ImplementsHandlerOnce == Abstract!Spec

\* The traces an event leaves that is not handled: its dead letter, the log line of
\* a dead letter that could not be published, the mark of an abandoned call.
InTransit(e) == \E c \in Copy : EventOf(c) = e /\ where[c] \in {"ready", "held", "retry"}
DeadLettered(e) == \E c \in Copy : EventOf(c) = e /\ dlq[c] # "none"
Handled(e) == \A h \in Handler : <<e, h>> \in succeeded
Abandoned(e) == \E h \in Handler : <<e, h>> \in GivenUp
Settled(e) == Handled(e) \/ DeadLettered(e) \/ Abandoned(e)

\* An event the relay takes for published is never lost without a trace: it is
\* handled by every handler, on its way in a queue or a goroutine, or leaves one of
\* the traces above.  Neither a republication, an error of any class, a lost answer
\* nor a failed dead letter breaks it (consumer.go acknowledges in every case).
NoSilentLoss ==
  \A e \in Event : outbox[e] = "published" => Settled(e) \/ InTransit(e)

\* Every stored event ends handled by all its handlers, or leaves a trace.
EventuallySettled ==
  \A e \in Event : (outbox[e] = "unpublished") ~> Settled(e)
================================================================================
