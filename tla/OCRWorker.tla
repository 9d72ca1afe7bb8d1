------------------------------- MODULE OCRWorker -------------------------------
(***************************************************************************)
(* The replicas of the python worker that reads the text of frames.  Each  *)
(* takes requests from the queue ocr, one at a time on its one thread,     *)
(* publishes a result and acknowledges the request over one connection,    *)
(* which may be lost with whatever is still under way on it.               *)
(***************************************************************************)
EXTENDS Naturals, Sequences, SequencesExt, FiniteSets

CONSTANTS Worker,      \* replicas
          Request,     \* copies of requests with a frame id and a storage key
          Incomplete,  \* of requests without one of them, or of another type
          Poison,      \* of messages that cannot be parsed
          Unreadable,  \* requests whose object is missing or is no image
          Blank,       \* requests whose frame shows no text
          Prefetch,    \* OCR_CONCURRENCY
          MaxDrops,    \* connections lost and processes that die
          MaxOutages   \* downloads that fail though the object is there

Copy == Request \cup Incomplete \cup Poison

ASSUME OCRWorkerAssumption ==
  /\ Request \cap Incomplete = {} /\ Request \cap Poison = {} /\ Incomplete \cap Poison = {}
  /\ Unreadable \subseteq Request /\ Blank \subseteq Request
  /\ Prefetch \in Nat \ {0} /\ MaxDrops \in Nat /\ MaxOutages \in Nat

VARIABLES
  unsent,   \* copies that are still to be published
  main,     \* the queue
  retry,    \* the retry queue
  unacked,  \* what the broker has delivered on each connection
  done,     \* acknowledged copies
  inbox,    \* of a worker: delivered, and waiting for its thread
  task,     \* the request it works on, or Idle
  wire,     \* what it has sent and the broker has not yet handled
  link,     \* "up", "lost" when only the broker knows, or "down"
  results,  \* results published, by request
  drops, outages

broker == <<unsent, main, retry, unacked, done, results>>
worker == <<inbox, task, wire, link>>
vars == <<broker, worker, drops, outages>>

Idle == "idle"
Status == {"success", "empty", "failed"}
Sent == [is : {"ack", "nack"}, copy : Copy] \cup [is : {"result"}, copy : Request, status : Status]

TypeOK ==
  /\ unsent \subseteq Copy /\ retry \subseteq Copy /\ done \subseteq Copy
  /\ main \in Seq(Copy)
  /\ \A w \in Worker : unacked[w] \subseteq Copy /\ Cardinality(unacked[w]) <= Prefetch
  /\ \A w \in Worker : inbox[w] \in Seq(Copy) /\ wire[w] \in Seq(Sent)
  /\ task \in [Worker -> Request \cup {Idle}]
  /\ link \in [Worker -> {"up", "lost", "down"}]
  /\ \A m \in Request : results[m] \in Seq(Status)
  /\ drops \in 0 .. MaxDrops /\ outages \in 0 .. MaxOutages

Init ==
  /\ unsent = Copy /\ main = <<>> /\ retry = {} /\ done = {}
  /\ unacked = [w \in Worker |-> {}]
  /\ inbox = [w \in Worker |-> <<>>]
  /\ task = [w \in Worker |-> Idle]
  /\ wire = [w \in Worker |-> <<>>]
  /\ link = [w \in Worker |-> "down"]
  /\ results = [m \in Request |-> <<>>]
  /\ drops = 0 /\ outages = 0

--------------------------------------------------------------------------------
(* The broker *)

Publish(m) ==
  /\ m \in unsent
  /\ unsent' = unsent \ {m}
  /\ main' = Append(main, m)
  /\ UNCHANGED <<retry, unacked, done, results, worker, drops, outages>>

Deliver(w) ==
  /\ link[w] = "up" /\ main # <<>>
  /\ Cardinality(unacked[w]) < Prefetch
  /\ unacked' = [unacked EXCEPT ![w] = @ \cup {Head(main)}]
  /\ inbox' = [inbox EXCEPT ![w] = Append(@, Head(main))]
  /\ main' = Tail(main)
  /\ UNCHANGED <<unsent, retry, done, results, task, wire, link, drops, outages>>

\* A nack without requeue dead-letters to the retry queue, whose TTL puts the message
\* back; nothing counts the rounds, and the queue ocr.dlq is never written.
Handle(w) ==
  /\ wire[w] # <<>>
  /\ wire' = [wire EXCEPT ![w] = Tail(@)]
  /\ LET sent == Head(wire[w])
     IN \/ /\ sent.is = "result"
           /\ results' = [results EXCEPT ![sent.copy] = Append(@, sent.status)]
           /\ UNCHANGED <<unacked, done, retry>>
        \/ /\ sent.is # "result"
           /\ unacked' = [unacked EXCEPT ![w] = @ \ {sent.copy}]
           /\ done' = IF sent.is = "ack" THEN done \cup {sent.copy} ELSE done
           /\ retry' = IF sent.is = "nack" THEN retry \cup {sent.copy} ELSE retry
           /\ UNCHANGED results
  /\ UNCHANGED <<unsent, main, inbox, task, link, drops, outages>>

RetryExpires(m) ==
  /\ m \in retry
  /\ retry' = retry \ {m}
  /\ main' = Append(main, m)
  /\ UNCHANGED <<unsent, unacked, done, results, worker, drops, outages>>

\* What was not acknowledged goes back to the head of the queue.
Requeue(w) ==
  /\ \E back \in SetToAllKPermutations(unacked[w]) :
       /\ Len(back) = Cardinality(unacked[w])
       /\ main' = back \o main
  /\ unacked' = [unacked EXCEPT ![w] = {}]
  /\ wire' = [wire EXCEPT ![w] = <<>>]

\* The worker learns of it at its next call on the connection.
Drop(w) ==
  /\ drops < MaxDrops /\ drops' = drops + 1
  /\ link[w] = "up" /\ link' = [link EXCEPT ![w] = "lost"]
  /\ Requeue(w)
  /\ UNCHANGED <<unsent, retry, done, results, inbox, task, outages>>

--------------------------------------------------------------------------------
(* The worker *)

Send(w, messages) == wire' = [wire EXCEPT ![w] = @ \o messages]

Ack(m) == [is |-> "ack", copy |-> m]
Nack(m) == [is |-> "nack", copy |-> m]
Result(m, status) == [is |-> "result", copy |-> m, status |-> status]

Declare(w) ==
  /\ link[w] = "down"
  /\ link' = [link EXCEPT ![w] = "up"]
  /\ UNCHANGED <<broker, inbox, task, wire, drops, outages>>

\* What cannot be parsed is retried; a request that lacks a field, or an event of
\* another type, is skipped for good; any other is worked on.
OnMessage(w) ==
  /\ link[w] = "up" /\ task[w] = Idle /\ inbox[w] # <<>>
  /\ inbox' = [inbox EXCEPT ![w] = Tail(@)]
  /\ LET m == Head(inbox[w])
     IN \/ m \in Poison /\ Send(w, <<Nack(m)>>) /\ UNCHANGED task
        \/ m \in Incomplete /\ Send(w, <<Ack(m)>>) /\ UNCHANGED task
        \/ m \in Request /\ task' = [task EXCEPT ![w] = m] /\ UNCHANGED wire
  /\ UNCHANGED <<broker, link, drops, outages>>

\* What the engine finds in an image: without a line of text, "empty".
Reading(m) == IF m \in Blank THEN "empty" ELSE "success"

\* Any exception of the download, of the decoder or of the engine is a result.
OCRFrame(m) ==
  IF m \in Unreadable THEN {"failed"}
  ELSE {Reading(m)} \cup (IF outages < MaxOutages THEN {"failed"} ELSE {})

\* The request in work is read with this status.
Read(w, status) ==
  /\ link[w] = "up" /\ task[w] # Idle
  /\ status \in OCRFrame(task[w])
  /\ outages' = IF status = "failed" /\ task[w] \notin Unreadable THEN outages + 1 ELSE outages
  /\ task' = [task EXCEPT ![w] = Idle]
  /\ UNCHANGED <<broker, inbox, link, drops>>

\* Mutant: the request is acknowledged before the frame is read.
ProcessFrameAckFirst(w) ==
  \E status \in Status :
    Read(w, status) /\ Send(w, <<Ack(task[w]), Result(task[w], status)>>)

\* Mutant: a failure is answered and also raised.
ProcessFrameRaises(w) ==
  \E status \in Status :
    /\ Read(w, status)
    /\ Send(w, <<Result(task[w], status),
                 IF status = "failed" THEN Nack(task[w]) ELSE Ack(task[w])>>)

\* Mutant: a failure is only raised.
ProcessFrameRetries(w) ==
  \E status \in Status :
    /\ Read(w, status)
    /\ Send(w, IF status = "failed" THEN <<Nack(task[w])>>
               ELSE <<Result(task[w], status), Ack(task[w])>>)

ProcessFrame(w) ==
  \E status \in Status :
    Read(w, status) /\ Send(w, <<Result(task[w], status), Ack(task[w])>>)

\* The call fails, and so does the nack: consume ends, and begins again.
Notice(w) ==
  /\ link[w] = "lost"
  /\ link' = [link EXCEPT ![w] = "down"]
  /\ task' = [task EXCEPT ![w] = Idle]
  /\ inbox' = [inbox EXCEPT ![w] = <<>>]
  /\ UNCHANGED <<broker, wire, drops, outages>>

\* The process dies and is started again.
Crash(w) ==
  /\ drops < MaxDrops /\ drops' = drops + 1
  /\ link[w] = "up" /\ link' = [link EXCEPT ![w] = "down"]
  /\ Requeue(w)
  /\ task' = [task EXCEPT ![w] = Idle]
  /\ inbox' = [inbox EXCEPT ![w] = <<>>]
  /\ UNCHANGED <<unsent, retry, done, results, outages>>

--------------------------------------------------------------------------------
Consume(w) == Declare(w) \/ OnMessage(w) \/ ProcessFrame(w) \/ Notice(w)

Next ==
  \/ \E m \in Copy : Publish(m) \/ RetryExpires(m)
  \/ \E w \in Worker : Deliver(w) \/ Handle(w) \/ Consume(w) \/ Drop(w) \/ Crash(w)

\* The broker and the workers keep going, the TTL passes, and compose starts a dead
\* worker again.  Nothing is fair about faults.
Fairness ==
  /\ \A m \in Copy : WF_vars(Publish(m)) /\ WF_vars(RetryExpires(m))
  /\ \A w \in Worker : WF_vars(Deliver(w)) /\ WF_vars(Handle(w)) /\ WF_vars(Consume(w))

Spec == Init /\ [][Next]_vars /\ Fairness

--------------------------------------------------------------------------------
(* Properties *)

\* A request leaves the queue only with a result at the broker: the two are sent in
\* this order on one channel, and whatever is lost is lost from the end.
NoRequestLost == \A m \in Request \cap done : results[m] # <<>>

\* Only a connection that was lost, or a worker that died, makes a request be
\* answered again: never a failure to read it.
AnsweredAgainOnlyAfterDrop == \A m \in Request : Len(results[m]) <= 1 + drops

\* Every request is answered, an unreadable one as well, while messages that cannot
\* be parsed go round the retry queue.
EveryRequestAnswered == \A m \in Request : <>(results[m] # <<>>)
================================================================================
