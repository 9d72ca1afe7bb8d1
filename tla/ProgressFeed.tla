----------------------------- MODULE ProgressFeed -----------------------------
(***************************************************************************)
(* How far the ocr of a video is, as its owner sees it: PersistFrame       *)
(* counts the results in the job row and records events, the worker pushes *)
(* them to Centrifugo in any order, and the client of docs/realtime.md     *)
(* ignores one that is older than what it shows.  The handlers of the      *)
(* results interleave; each writes the job back from the copy it loaded.   *)
(* No attempt is the last, so the video stays in processing; what happens  *)
(* when a stage fails is in FrameRecognition.                              *)
(***************************************************************************)
EXTENDS Integers, FiniteSets

CONSTANTS Frame,       \* the frames of the video, each with one result
          Blurrable,   \* the ones that may come back as failed
          MaxLost,     \* transactions whose answer is lost, fewer than the retries
          MaxRetries,  \* RABBITMQ_MAX_RETRIES
          MaxOutages   \* events that Centrifugo refuses

ASSUME ProgressFeedAssumption ==
  /\ Frame # {} /\ IsFiniteSet(Frame)
  /\ Blurrable \subseteq Frame
  /\ MaxLost \in Nat /\ MaxRetries \in Nat /\ MaxOutages \in Nat

VARIABLES
  blurred,   \* frames whose result is a failed one
  stored,    \* frames that have a row
  extracted, \* whether the frame job is in success
  rows,      \* frames whose result has a row
  job,       \* the ocr job: its status and completed count
  clock,     \* stamps taken so far, in the order of time
  events,    \* the job as it was at each stamp whose event was committed
  pc, seen,  \* where the handler of each result is, and the copies it holds
  lost,      \* answers lost so far
  refused,   \* how often Centrifugo has refused the event of each stamp
  shown      \* the event the client shows

writing == <<blurred, stored, extracted, rows, job, clock, events, pc, seen, lost>>
pushing == <<refused, shown>>
vars == <<writing, pushing>>

Count == 0 .. Cardinality(Frame) + MaxLost
Job == [status : {"pending", "processing", "success"}, completed : Count]

\* An attempt takes at most three stamps, and there are as many attempts as results
\* and lost answers.
Stamp == 1 .. 3 * (Cardinality(Frame) + MaxLost)

Event == Job \X Stamp
JobOf(e) == e[1]
StampOf(e) == e[2]

\* Before its first event the client shows what it got from the API.
NoEvent == <<[status |-> "pending", completed |-> 0], 0>>
Unread == [extracted |-> FALSE, job |-> NoEvent[1], frames |-> {}, rows |-> {}, stamp |-> 0]

TypeOK ==
  /\ blurred \subseteq Blurrable
  /\ stored \subseteq Frame /\ rows \subseteq stored
  /\ extracted \in BOOLEAN
  /\ job \in Job
  /\ clock \in Stamp \cup {0}
  /\ events \subseteq Event
  /\ pc \in [Frame -> {"load", "job", "list", "mark", "marking", "persist", "persisting",
                       "check", "conclude", "concluding", "done"}]
  /\ seen \in [Frame -> [extracted : BOOLEAN, job : Job, frames : SUBSET Frame,
                         rows : SUBSET Frame, stamp : Stamp \cup {0}]]
  /\ lost \in 0 .. MaxLost
  /\ refused \in [Stamp -> 0 .. MaxRetries + 1]
  /\ shown \in Event \cup {NoEvent}

Init ==
  /\ blurred \in SUBSET Blurrable
  /\ stored = {} /\ extracted = FALSE
  /\ rows = {}
  /\ job = NoEvent[1]
  /\ clock = 0
  /\ events = {}
  /\ pc = [f \in Frame |-> "load"]
  /\ seen = [f \in Frame |-> Unread]
  /\ lost = 0
  /\ refused = [s \in Stamp |-> 0]
  /\ shown = NoEvent

--------------------------------------------------------------------------------
(* The extraction *)

StoreFrame(f) ==
  /\ ~extracted
  /\ stored' = stored \cup {f}
  /\ UNCHANGED <<blurred, extracted, rows, job, clock, events, pc, seen, lost, pushing>>

ExtractionEnds ==
  /\ stored = Frame
  /\ extracted' = TRUE
  /\ UNCHANGED <<blurred, stored, rows, job, clock, events, pc, seen, lost, pushing>>

--------------------------------------------------------------------------------
(* PersistFrame, for the result of frame f *)

Proceed(f, place, copy) ==
  /\ pc' = [pc EXCEPT ![f] = place]
  /\ seen' = [seen EXCEPT ![f] = IF place \in {"load", "done"} THEN Unread ELSE copy]

\* The event is recorded, with its time, before the transaction that stores it begins.
RecordEvent(f, place, copy) ==
  /\ clock' = clock + 1
  /\ Proceed(f, place, [copy EXCEPT !.stamp = clock + 1])

\* The job as the attempt holds it and the event, if one was recorded, are committed; the
\* handler goes on, or does not learn of it and is called again.
Commit(f, place) ==
  /\ job' = seen[f].job
  /\ events' = events \cup (IF seen[f].stamp = 0 THEN {} ELSE {<<seen[f].job, seen[f].stamp>>})
  /\ \/ Proceed(f, place, [seen[f] EXCEPT !.stamp = 0]) /\ UNCHANGED lost
     \/ lost < MaxLost /\ lost' = lost + 1 /\ Proceed(f, "load", Unread)

LoadFrameJob(f) ==
  /\ pc[f] = "load" /\ f \in stored
  /\ Proceed(f, "job", [seen[f] EXCEPT !.extracted = extracted])
  /\ UNCHANGED <<blurred, stored, extracted, rows, job, clock, events, lost, pushing>>

LoadOCRJob(f) ==
  /\ pc[f] = "job"
  /\ Proceed(f, IF job.status = "success" THEN "done" ELSE "list", [seen[f] EXCEPT !.job = job])
  /\ UNCHANGED <<blurred, stored, extracted, rows, job, clock, events, lost, pushing>>

ListRows(f) ==
  /\ pc[f] = "list"
  /\ Proceed(f, IF seen[f].job.status = "pending" THEN "mark" ELSE "persist",
             [seen[f] EXCEPT !.frames = stored, !.rows = rows])
  /\ UNCHANGED <<blurred, stored, extracted, rows, job, clock, events, lost, pushing>>

\* countFinal: a failed row is not final.
CountFinal(results) == Cardinality(results \ blurred)

\* The count starts with the rows the attempt has listed.
MarkProcessing(f) ==
  /\ pc[f] = "mark"
  /\ RecordEvent(f, "marking",
       [seen[f] EXCEPT !.job = [status |-> "processing", completed |-> CountFinal(seen[f].rows)]])
  /\ UNCHANGED <<blurred, stored, extracted, rows, job, events, lost, pushing>>

CommitProcessing(f) ==
  /\ pc[f] = "marking"
  /\ Commit(f, "persist")
  /\ UNCHANGED <<blurred, stored, extracted, rows, clock, pushing>>

\* Mutant: every result is counted, known or not.
AddedAlways(f) == 1

\* A frame is counted unless its row was there and final.
Added(f) == IF f \in seen[f].rows \ blurred THEN 0 ELSE 1

PersistResult(f) ==
  /\ pc[f] = "persist"
  /\ IF Added(f) = 0
     THEN Proceed(f, "persisting", seen[f]) /\ UNCHANGED clock
     ELSE RecordEvent(f, "persisting", [seen[f] EXCEPT !.job.completed = @ + Added(f)])
  /\ UNCHANGED <<blurred, stored, extracted, rows, job, events, lost, pushing>>

CommitResult(f) ==
  /\ pc[f] = "persisting"
  /\ rows' = rows \cup {f}
  /\ Commit(f, IF seen[f].extracted THEN "check" ELSE "done")
  /\ UNCHANGED <<blurred, stored, extracted, clock, pushing>>

CheckComplete(f) ==
  /\ pc[f] = "check"
  /\ Proceed(f, IF seen[f].frames \subseteq rows THEN "conclude" ELSE "done", seen[f])
  /\ UNCHANGED <<blurred, stored, extracted, rows, job, clock, events, lost, pushing>>

MarkReady(f) ==
  /\ pc[f] = "conclude"
  /\ RecordEvent(f, "concluding", [seen[f] EXCEPT !.job.status = "success"])
  /\ UNCHANGED <<blurred, stored, extracted, rows, job, events, lost, pushing>>

CommitReady(f) ==
  /\ pc[f] = "concluding"
  /\ Commit(f, "done")
  /\ UNCHANGED <<blurred, stored, extracted, rows, clock, pushing>>

PersistFrame(f) ==
  \/ LoadFrameJob(f) \/ LoadOCRJob(f) \/ ListRows(f)
  \/ MarkProcessing(f) \/ CommitProcessing(f) \/ PersistResult(f) \/ CommitResult(f)
  \/ CheckComplete(f) \/ MarkReady(f) \/ CommitReady(f)

--------------------------------------------------------------------------------
(* The realtime handlers and the client *)

DeadLettered(e) == refused[StampOf(e)] > MaxRetries

\* Mutant: occurredAt is the time of the push.
PushStampedLate(e) ==
  /\ ~DeadLettered(e)
  /\ shown' = e
  /\ UNCHANGED <<writing, refused>>

\* Centrifugo accepts the event, once or again, and the client takes it unless it shows a
\* later one.
Push(e) ==
  /\ ~DeadLettered(e)
  /\ StampOf(e) > StampOf(shown)
  /\ shown' = e
  /\ UNCHANGED <<writing, refused>>

\* Mutant: an error of Centrifugo is not retried.
PushFailsForGood(e) ==
  /\ ~DeadLettered(e)
  /\ events' = events \ {e}
  /\ UNCHANGED <<blurred, stored, extracted, rows, job, clock, pc, seen, lost, pushing>>

\* A retryable error: the event is delivered again, and dead-lettered after its retries.
PushFails(e) ==
  /\ ~DeadLettered(e)
  /\ StampOf(e) > StampOf(shown)
  /\ Cardinality({s \in Stamp : refused[s] > 0} \ {StampOf(e)}) < MaxOutages
  /\ refused' = [refused EXCEPT ![StampOf(e)] = @ + 1]
  /\ UNCHANGED <<writing, shown>>

Next ==
  \/ ExtractionEnds \/ \E f \in Frame : StoreFrame(f) \/ PersistFrame(f)
  \/ \E e \in events : Push(e) \/ PushFails(e)

Spec == Init /\ [][Next]_vars

\* The worker goes on with its handlers and with what is queued for it.
Fairness ==
  /\ \A f \in Frame : WF_vars(PersistFrame(f))
  /\ WF_vars(\E e \in events : Push(e))

FairSpec == Spec /\ Fairness

--------------------------------------------------------------------------------
(* Properties *)

\* No count is announced or shown that the rows do not bear out: whatever the copies the
\* handlers write back, a result is never counted twice, but for a failed one that is
\* persisted again because the answer to its transaction was lost.
CountIsBacked ==
  \A e \in events \cup {shown} :
    JobOf(e).completed <= Cardinality(rows) + (IF blurred = {} THEN 0 ELSE lost)

\* Once a client sees the success of the job it sees it for good, whatever order the
\* events are pushed in: none of a result is stamped after it.  The one exception: a
\* failed result, persisted again after the answer to its transaction was lost, may be
\* stamped after the success, and brings the progress back.
SuccessStaysShown ==
  [][JobOf(shown).status = "success" /\ JobOf(shown').status # "success" =>
       lost > 0 /\ blurred # {}]_vars

\* The success of the job, or what was recorded after it, reaches the client past refused
\* pushes and events that overtake each other, unless its event is dead-lettered.
SuccessReachesClient ==
  (\E e \in events : JobOf(e).status = "success")
    ~> (\E e \in events : /\ JobOf(e).status = "success"
                         /\ (StampOf(shown) >= StampOf(e) \/ DeadLettered(e)))
================================================================================
