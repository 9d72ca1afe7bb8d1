--------------------------- MODULE FrameRecognition ---------------------------
(***************************************************************************)
(* What is done with the frames of one video while its extraction runs and *)
(* after it: the results of the ocr worker are persisted one by one        *)
(* (PersistFrame), each asks for a classification (HandleFrame), and       *)
(* whoever finds everything there concludes the stage; the end of the ocr  *)
(* stage is handed on by an event of its own (Finalize).  No lock spans    *)
(* the reads and the writes of a handler: it decides on copies.  The       *)
(* extraction is the one of ExtractionPhase; events are delivered as in    *)
(* HandlerOnce, with at most MaxRetries retries.                           *)
(***************************************************************************)
EXTENDS Integers, FiniteSets, VideoDomain, Classifier

CONSTANTS Frame,       \* frames the extractor keeps
          Message,     \* results the ocr worker publishes, each an event
          FrameOf,     \* the frame a result is about
          Results,     \* what the ocr worker may read in a frame
          Engine,      \* CLASSIFY_ENGINE: jev or local
          MaxRetries,  \* RABBITMQ_MAX_RETRIES
          Faults       \* what may go wrong

FaultKind ==
  {"extract",     \* the extraction fails
   "load",        \* reading the video or a job fails
   "work",        \* another read or write fails
   "ready_tx",    \* the transaction that concludes a stage fails
   "fail_tx",     \* so does the one that fails the stage
   "lost_reply",  \* a transaction commits, its answer is lost
   "crash"}       \* the process dies; the mark makes the redelivery a no-op

ASSUME FrameRecognitionAssumption ==
  /\ Frame # {} /\ IsFiniteSet(Frame)
  /\ FrameOf \in [Message -> Frame]
  /\ \A f \in Frame : \E m \in Message : FrameOf[m] = f
  /\ Results \subseteq {"secret", "plain", "faint", "empty", "failed"} /\ Results # {}
  /\ Engine \in {"jev", "local"}
  /\ MaxRetries \in Nat
  /\ Faults \subseteq FaultKind

\* The handler calls: one per result, and one for each event a result gives rise to.
Kind == {"ocr", "classify", "finalize"}
Task == Kind \X Message
KindOf(t) == t[1]
FrameOfTask(t) == FrameOf[t[2]]
StageOf(t) == IF KindOf(t) = "ocr" THEN "ocr" ELSE "classify"

VARIABLES
  answer,      \* what each result says: a text with a secret or without one, one below
               \* OCR_MIN_CONFIDENCE, no text, or a failure of the engine
  stored,      \* frames that have a row
  phase,       \* the extraction: running, done or failed
  video,       \* status of the video row
  job,         \* status of the ocr and of the classify job, or absent
  ocr,         \* ocr row of each frame
  cls,         \* classification row of each frame
  events,      \* the calls whose event exists
  pc,          \* where each call is
  tries,       \* its completed retries
  seen         \* what its attempt has read: the status of the video and of its
               \* stage's job, the extraction, the frames, the ocr row of its frame

extraction == <<stored, phase>>
rows == <<video, job, ocr, cls, events>>
vars == <<answer, extraction, rows, pc, tries, seen>>

JobStatus == Status \cup {"absent"}
OCRRow == {"none", "secret", "plain", "empty", "failed"}
Classification == {"none", "skipped", "leak", "clear", "unanswered", "failed"}
Phase == {"running", "done", "failed"}
Copy == [video : Status, phase : Phase, job : JobStatus, frames : SUBSET Frame, ocr : OCRRow]
Unread == [video |-> "processing", phase |-> "running", job |-> "pending", frames |-> {}, ocr |-> "none"]

TypeOK ==
  /\ answer \in [Message -> Results]
  /\ stored \subseteq Frame
  /\ phase \in Phase
  /\ video \in Status
  /\ job \in [{"ocr", "classify"} -> JobStatus]
  /\ ocr \in [Frame -> OCRRow]
  /\ cls \in [Frame -> Classification]
  /\ events \subseteq Task
  /\ pc \in [Task -> {"queued", "phase", "job", "list", "existing", "mark", "lookup", "insert",
                      "work", "check", "count", "ready", "fail", "done", "dead"}]
  /\ tries \in [Task -> 0 .. MaxRetries]
  /\ seen \in [Task -> Copy]

Extraction == INSTANCE ExtractionPhase

\* The first requests find the video in processing and its ocr job pending.
Init ==
  /\ answer \in [Message -> Results]
  /\ Extraction!Init
  /\ video = "processing"
  /\ job = [stage \in {"ocr", "classify"} |-> IF stage = "ocr" THEN "pending" ELSE "absent"]
  /\ ocr = [f \in Frame |-> "none"]
  /\ cls = [f \in Frame |-> "none"]
  /\ events = {"ocr"} \X Message
  /\ pc = [t \in Task |-> "queued"]
  /\ tries = [t \in Task |-> 0]
  /\ seen = [t \in Task |-> Unread]

--------------------------------------------------------------------------------
(* The extraction; a segment that ends writes back the video it had loaded *)

StoreFrame(f) ==
  /\ Extraction!StoreFrame(f)
  /\ UNCHANGED <<answer, rows, pc, tries, seen>>

SegmentEnds ==
  /\ phase # "done"
  /\ Extraction!Announce \/ UNCHANGED extraction
  /\ video' = "processing"
  /\ UNCHANGED <<answer, job, ocr, cls, events, pc, tries, seen>>

ExtractionFails ==
  /\ "extract" \in Faults
  /\ Extraction!Fail
  /\ video' = "failed"
  /\ UNCHANGED <<answer, job, ocr, cls, events, pc, tries, seen>>

--------------------------------------------------------------------------------
(* What the handlers share *)

\* The call goes on with the copy it has; a call that returns has none any more.
Proceed(t, place, copy) ==
  /\ pc' = [pc EXCEPT ![t] = place]
  /\ seen' = [seen EXCEPT ![t] = IF place \in {"queued", "done", "dead"} THEN Unread ELSE copy]

Goto(t, place) == Proceed(t, place, seen[t])

\* A retryable error, dead-lettered after the last attempt.
Retry(t) ==
  IF tries[t] < MaxRetries
  THEN Goto(t, "queued") /\ tries' = [tries EXCEPT ![t] = @ + 1]
  ELSE Goto(t, "dead") /\ UNCHANGED tries

\* failOrRetry: the last attempt fails the stage instead.
FailOrRetry(t) ==
  IF tries[t] < MaxRetries
  THEN Retry(t)
  ELSE Goto(t, "fail") /\ UNCHANGED tries

\* A transaction commits, and the handler goes on, or does not learn of it: then it
\* retries, or fails the stage if this was its last attempt.
Committed(t, place, copy) == Proceed(t, place, copy) /\ UNCHANGED tries

CommittedOrRetry(t, place, copy) ==
  \/ Committed(t, place, copy)
  \/ "lost_reply" \in Faults /\ Retry(t)

CommittedOrFailOrRetry(t, place, copy) ==
  \/ Committed(t, place, copy)
  \/ "lost_reply" \in Faults /\ FailOrRetry(t)

\* load: three reads outside any transaction.  A result arrives only when its
\* frame is stored, for the request to the ocr worker follows the upsert.
LoadVideo(t) ==
  /\ pc[t] = "queued" /\ t \in events
  /\ FrameOfTask(t) \in stored
  /\ Proceed(t, "phase", [seen[t] EXCEPT !.video = video])
  /\ UNCHANGED <<answer, extraction, rows, tries>>

LoadFrameJob(t) ==
  /\ pc[t] = "phase"
  /\ Proceed(t, "job", [seen[t] EXCEPT !.phase = phase])
  /\ UNCHANGED <<answer, extraction, rows, tries>>

LoadJob(t) ==
  LET mine == job[StageOf(t)]
      place == IF mine = "success" \/ seen[t].video = "success" THEN "done"
               ELSE IF KindOf(t) = "finalize" THEN "check"
               ELSE "list"
  IN /\ pc[t] = "job"
     /\ Proceed(t, place, [seen[t] EXCEPT !.job = mine])
     /\ UNCHANGED <<answer, extraction, rows, tries>>

\* The stage is begun with the rows as the attempt loaded them.
MarkProcessing(t) ==
  LET begun == IF KindOf(t) = "ocr" THEN MarkOCRProcessing(seen[t].video)
                                    ELSE MarkClassifying(seen[t].video)
      copy == [seen[t] EXCEPT !.video = begun.status, !.job = "processing"]
  IN /\ pc[t] = "mark"
     /\ video' = begun.status
     /\ job' = [job EXCEPT ![StageOf(t)] = "processing"]
     /\ CommittedOrRetry(t, IF KindOf(t) = "ocr" THEN "lookup" ELSE "work", copy)
     /\ UNCHANGED <<answer, extraction, ocr, cls, events>>

Conclusion(t) == IF KindOf(t) = "ocr" THEN MarkOCRReady(seen[t].video)
                                      ELSE MarkClassified(seen[t].video)

\* markReady: refused with a retryable error when the attempt saw a failed video.
MarkReady(t) ==
  /\ pc[t] = "ready"
  /\ Conclusion(t).ok
  /\ video' = Conclusion(t).status
  /\ job' = [job EXCEPT ![StageOf(t)] = "success"]
  /\ events' = events \cup (IF KindOf(t) = "ocr" THEN {<<"finalize", t[2]>>} ELSE {})
  /\ CommittedOrRetry(t, "done", Unread)
  /\ UNCHANGED <<answer, extraction, ocr, cls>>

ReadyFails(t) ==
  /\ pc[t] = "ready"
  /\ ~Conclusion(t).ok \/ "ready_tx" \in Faults
  /\ Retry(t)
  /\ UNCHANGED <<answer, extraction, rows>>

MarkFailed(t) ==
  LET failure == IF KindOf(t) = "ocr" THEN MarkOCRFailed(seen[t].video)
                                      ELSE MarkClassifyFailed(seen[t].video) IN
    /\ pc[t] = "fail"
    /\ \/ video' = failure.status /\ job' = [job EXCEPT ![StageOf(t)] = "failed"]
       \/ "fail_tx" \in Faults /\ UNCHANGED <<video, job>>
    /\ Goto(t, "dead")
    /\ UNCHANGED <<answer, extraction, ocr, cls, events, tries>>

--------------------------------------------------------------------------------
(* PersistFrame *)

\* normalizeResult: a text below the minimum is dropped, and the row is a failed one.
NormalizeResult(result) == IF result = "faint" THEN "failed" ELSE result

OCRFinal(row) == row \in {"secret", "plain", "empty"}

ListOCR(t) ==
  /\ KindOf(t) = "ocr" /\ pc[t] = "list"
  /\ Proceed(t, IF seen[t].job = "pending" THEN "mark" ELSE "lookup",
             [seen[t] EXCEPT !.frames = stored, !.ocr = ocr[FrameOfTask(t)]])
  /\ UNCHANGED <<answer, extraction, rows, tries>>

\* The classify job is looked up, then inserted if it was missing.
LookUpClassifyJob(t) ==
  /\ pc[t] = "lookup"
  /\ Goto(t, IF job["classify"] = "absent" THEN "insert" ELSE "work")
  /\ UNCHANGED <<answer, extraction, rows, tries>>

InsertClassifyJob(t) ==
  /\ pc[t] = "insert"
  /\ IF job["classify"] = "absent"
     THEN job' = [job EXCEPT !["classify"] = "pending"] /\ CommittedOrFailOrRetry(t, "work", seen[t])
     ELSE FailOrRetry(t) /\ UNCHANGED job
  /\ UNCHANGED <<answer, extraction, video, ocr, cls, events>>

\* Mutant: the request to classify is stored after the row, by itself.
PersistResultThenRequest(t) ==
  LET request == IF OCRFinal(seen[t].ocr) THEN {} ELSE {<<"classify", t[2]>>} IN
    /\ KindOf(t) = "ocr" /\ pc[t] = "work"
    /\ ocr' = [ocr EXCEPT ![FrameOfTask(t)] = NormalizeResult(answer[t[2]])]
    /\ job' = [job EXCEPT !["ocr"] = seen[t].job]
    /\ \/ /\ events' = events \cup request
          /\ Goto(t, IF seen[t].phase = "done" THEN "check" ELSE "done")
          /\ UNCHANGED tries
       \/ "lost_reply" \in Faults /\ FailOrRetry(t) /\ UNCHANGED events
    /\ UNCHANGED <<answer, extraction, video, cls>>

\* Mutant: the request is stored before the row, by itself.
PersistRequestThenResult(t) ==
  LET request == IF OCRFinal(seen[t].ocr) THEN {} ELSE {<<"classify", t[2]>>} IN
    /\ KindOf(t) = "ocr" /\ pc[t] = "work"
    /\ job' = [job EXCEPT !["ocr"] = seen[t].job]
    /\ events' = events \cup request
    /\ \/ /\ ocr' = [ocr EXCEPT ![FrameOfTask(t)] = NormalizeResult(answer[t[2]])]
          /\ Goto(t, IF seen[t].phase = "done" THEN "check" ELSE "done")
          /\ UNCHANGED tries
       \/ "lost_reply" \in Faults /\ FailOrRetry(t) /\ UNCHANGED ocr
    /\ UNCHANGED <<answer, extraction, video, cls>>

\* The row, the job as the attempt knows it and, unless the row it read was final,
\* the request to classify are written in one transaction.
PersistResult(t) ==
  LET request == IF OCRFinal(seen[t].ocr) THEN {} ELSE {<<"classify", t[2]>>} IN
    /\ KindOf(t) = "ocr" /\ pc[t] = "work"
    /\ ocr' = [ocr EXCEPT ![FrameOfTask(t)] = NormalizeResult(answer[t[2]])]
    /\ job' = [job EXCEPT !["ocr"] = seen[t].job]
    /\ events' = events \cup request
    /\ CommittedOrFailOrRetry(t, IF seen[t].phase = "done" THEN "check" ELSE "done", seen[t])
    /\ UNCHANGED <<answer, extraction, video, cls>>

OCRComplete(frames) == frames # {} /\ \A f \in frames : ocr[f] # "none"

\* Mutant: the stage is over when every listed row is, one frame apart.
CheckOCRButOne(t) ==
  /\ KindOf(t) = "ocr" /\ pc[t] = "check"
  /\ Goto(t, IF Cardinality({f \in seen[t].frames : ocr[f] # "none"}) >= Cardinality(Frame) - 1
             THEN "ready" ELSE "done")
  /\ UNCHANGED <<answer, extraction, rows, tries>>

CheckOCR(t) ==
  /\ KindOf(t) = "ocr" /\ pc[t] = "check"
  /\ Goto(t, IF OCRComplete(seen[t].frames) THEN "ready" ELSE "done")
  /\ UNCHANGED <<answer, extraction, rows, tries>>

--------------------------------------------------------------------------------
(* HandleFrame and Finalize *)

ClassificationFinal(row) == row \in {"skipped", "leak", "clear", "unanswered"}

\* The text of the frame is read before its classification.
ListOCRText(t) ==
  /\ KindOf(t) = "classify" /\ pc[t] = "list"
  /\ Proceed(t, "existing", [seen[t] EXCEPT !.ocr = ocr[FrameOfTask(t)]])
  /\ UNCHANGED <<answer, extraction, rows, tries>>

ListClassification(t) ==
  /\ KindOf(t) = "classify" /\ pc[t] = "existing"
  /\ Goto(t, IF ClassificationFinal(cls[FrameOfTask(t)]) THEN "check"
             ELSE IF seen[t].job = "processing" THEN "work"
             ELSE "mark")
  /\ UNCHANGED <<answer, extraction, rows, tries>>

\* What may become of each ocr row: the engine is called for a text, a frame without one
\* is skipped.
Outcomes ==
  UNION {{row} \X (IF row \in {"secret", "plain"} THEN Classify(Engine, row) ELSE {"skipped"}) :
           row \in OCRRow}

ClassifyFrame(t) ==
  /\ KindOf(t) = "classify" /\ pc[t] = "work"
  /\ \E item \in Classification :
       /\ <<seen[t].ocr, item>> \in Outcomes
       /\ cls' = [cls EXCEPT ![FrameOfTask(t)] = item]
  /\ CommittedOrFailOrRetry(t, "check", seen[t])
  /\ UNCHANGED <<answer, extraction, video, job, ocr, events>>

ClassifierUnavailable(t) ==
  /\ KindOf(t) = "classify" /\ pc[t] = "work"
  /\ <<seen[t].ocr, "unavailable">> \in Outcomes
  /\ FailOrRetry(t)
  /\ UNCHANGED <<answer, extraction, rows>>

\* Mutant: the frames stored so far are taken for all.
CheckFinalizeEarly(t) ==
  /\ KindOf(t) # "ocr" /\ pc[t] = "check"
  /\ Proceed(t, IF OCRComplete(stored) THEN "count" ELSE "done",
             [seen[t] EXCEPT !.frames = stored])
  /\ UNCHANGED <<answer, extraction, rows, tries>>

\* Mutant: only the end of the ocr stage concludes.
CheckFinalizeOnlyFinalize(t) ==
  /\ KindOf(t) # "ocr" /\ pc[t] = "check"
  /\ Proceed(t, IF KindOf(t) = "finalize" /\ seen[t].phase = "done" /\ OCRComplete(stored)
                THEN "count" ELSE "done",
             [seen[t] EXCEPT !.frames = stored])
  /\ UNCHANGED <<answer, extraction, rows, tries>>

\* tryFinalize: the ocr rows are counted, then the classifications.
CheckFinalize(t) ==
  /\ KindOf(t) # "ocr" /\ pc[t] = "check"
  /\ Proceed(t, IF seen[t].phase = "done" /\ OCRComplete(stored) THEN "count" ELSE "done",
             [seen[t] EXCEPT !.frames = stored])
  /\ UNCHANGED <<answer, extraction, rows, tries>>

CountClassifications(t) ==
  /\ pc[t] = "count"
  /\ Goto(t, IF \A f \in seen[t].frames : cls[f] # "none" THEN "ready" ELSE "done")
  /\ UNCHANGED <<answer, extraction, rows, tries>>

--------------------------------------------------------------------------------
(* Errors *)

LoadFails(t) ==
  /\ "load" \in Faults
  /\ pc[t] \in {"phase", "job", "mark"}
  /\ Retry(t)
  /\ UNCHANGED <<answer, extraction, rows>>

WorkFails(t) ==
  /\ "work" \in Faults
  /\ pc[t] \in {"list", "existing", "lookup", "insert", "work", "check", "count"}
  /\ FailOrRetry(t)
  /\ UNCHANGED <<answer, extraction, rows>>

Crash(t) ==
  /\ "crash" \in Faults
  /\ pc[t] \notin {"queued", "done", "dead"}
  /\ Goto(t, "dead")
  /\ UNCHANGED <<answer, extraction, rows, tries>>

Handle(t) ==
  \/ LoadVideo(t) \/ LoadFrameJob(t) \/ LoadJob(t) \/ MarkProcessing(t)
  \/ MarkReady(t) \/ ReadyFails(t) \/ MarkFailed(t)
  \/ ListOCR(t) \/ LookUpClassifyJob(t) \/ InsertClassifyJob(t)
  \/ PersistResult(t) \/ CheckOCR(t)
  \/ ListOCRText(t) \/ ListClassification(t) \/ ClassifyFrame(t) \/ ClassifierUnavailable(t)
  \/ CheckFinalize(t) \/ CountClassifications(t)
  \/ LoadFails(t) \/ WorkFails(t)

Extract == SegmentEnds \/ ExtractionFails \/ \E f \in Frame : StoreFrame(f)

Next == Extract \/ \E t \in Task : Handle(t) \/ Crash(t)

Spec == Init /\ [][Next]_vars

\* Consumers go on with what they were given, and the extraction comes to an end.
Fairness ==
  /\ \A t \in Task : WF_vars(Handle(t))
  /\ \A f \in Frame : WF_vars(StoreFrame(f) /\ stored' # stored)
  /\ WF_vars(SegmentEnds /\ phase' = "done")

FairSpec == Spec /\ Fairness

--------------------------------------------------------------------------------
(* Properties *)

\* A video is in success only when each of its frames has been stored, read and
\* answered for: no handler concludes on a part of the frames, whichever of the
\* three kinds of handler it is and however old the rows it decides on are.
SuccessIsComplete ==
  video = "success" => /\ phase = "done" /\ stored = Frame
                       /\ \A f \in Frame : ocr[f] # "none" /\ cls[f] # "none"

\* The jobs neither: success of the ocr job means a row for every frame, success of
\* the classify job a classification for every frame.
JobSuccessIsComplete ==
  /\ job["ocr"] = "success" => \A f \in Frame : ocr[f] # "none"
  /\ job["classify"] = "success" => \A f \in Frame : cls[f] # "none"

\* A frame that has an ocr row has been handed to the classify stage, whatever
\* became of the attempt that wrote the row.
ChainUnbroken ==
  \A f \in Frame : ocr[f] # "none" => \E m \in Message : FrameOf[m] = f /\ <<"classify", m>> \in events

\* A frame whose every reading shows a secret is not dismissed: it is never taken for
\* one without text or without a leak, however its handlers interleave and fail.  The
\* gateway may leave the secret unanswered, or fail on it.
NoLeakDismissed ==
  \A f \in Frame :
    (\A m \in Message : FrameOf[m] = f => answer[m] = "secret") => cls[f] \notin {"skipped", "clear"}

\* Nor is a frame flagged when no reading of it shows a secret: coordinates are no phone
\* numbers, and a number with one digit misread or two exchanged is no card, of an even
\* or an odd length (hasLuhnNumber, hasPhoneNumber).
FlaggedShowsSecret ==
  \A f \in Frame : cls[f] = "leak" => \E m \in Message : FrameOf[m] = f /\ answer[m] = "secret"

\* When the handlers of a video see no result before the extraction is announced,
\* the last one of them concludes it: somebody always finds everything there.
LateResultsConclude ==
  []((\E t \in Task : pc[t] # "queued") => phase = "done") => <>(video = "success")

\* docs/ocr.md: when the extraction is done and all ocr rows are there,
\* frames_ocr_completed is announced.
EndOfOCRAnnounced ==
  (phase = "done" /\ \A f \in Frame : ocr[f] # "none")
    ~> (\E m \in Message : <<"finalize", m>> \in events)
================================================================================
