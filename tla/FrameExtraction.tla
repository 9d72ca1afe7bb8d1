---------------------------- MODULE FrameExtraction ----------------------------
(***************************************************************************)
(* The fan-out over the segments of one video and the fan-in behind it:    *)
(* one handler of video.segment_ready.v1 per segment, all over the same    *)
(* video row, frame job and ocr job, each working on copies of the rows it *)
(* loaded when its attempt began.  A step is one autocommitted statement   *)
(* or one transaction.  The delivery of each event is the one of           *)
(* HandlerOnce: one attempt at a time, at most MaxRetries retries.         *)
(***************************************************************************)
EXTENDS Integers, FiniteSets, VideoDomain

CONSTANTS Segment,      \* segments committed by the segment stage
          Frame,        \* frames the extractor keeps of them
          SegmentOf,    \* the segment each frame is of
          MaxRetries,   \* RABBITMQ_MAX_RETRIES
          Faults        \* what may go wrong

FaultKind ==
  {"unreadable",   \* ffmpeg keeps no frame, or a frame does not decode
   "retryable",    \* storage, database or timeout error of an attempt
   "lost_reply",   \* a transaction commits, its answer is lost
   "fail_tx",      \* the transaction of failSegment fails; its error is ignored
   "truncated",    \* ffmpeg dies after its first kept frame
   "crash",        \* the process dies; the mark makes the redelivery a no-op
   "downstream"}   \* the ocr and classify stages fail or revive the video

FramesOf(s) == {f \in Frame : SegmentOf[f] = s}

ASSUME FrameExtractionAssumption ==
  /\ IsFiniteSet(Segment) /\ Segment # {}
  /\ SegmentOf \in [Frame -> Segment]
  /\ \A s \in Segment : FramesOf(s) # {}
  /\ MaxRetries \in Nat
  /\ Faults \subseteq FaultKind

VARIABLES
  video,       \* status of the video row
  job,         \* the frame job: status and completed_segment_count
  segment,     \* status of each segment row
  frames,      \* frames that have a row
  ocrJob,      \* whether the video has its ocr job
  requested,   \* frames for which a VideoOCRFrameRequested was stored
  extracted,   \* VideoFramesExtracted events stored
  failures,    \* VideoFrameExtractionFailed events stored
  objects,     \* segments whose slice is in the object storage
  pc,          \* where the handler of each segment is
  tries,       \* its completed retries
  seenVideo,   \* status of the video its attempt loaded
  seenJob,     \* frame job its attempt loaded
  seenOCRJob,  \* what its attempt knows of the ocr job
  progress     \* what the attempt did with each frame

rows == <<video, job, segment, frames, ocrJob, requested, extracted, failures>>
copies == <<seenVideo, seenJob, seenOCRJob>>
vars == <<rows, objects, pc, tries, copies, progress>>

Expected == Cardinality(Segment)
JobRow == [status : Status, completed : Nat]

TypeOK ==
  /\ video \in Status
  /\ job \in JobRow
  /\ segment \in [Segment -> Status]
  /\ frames \subseteq Frame
  /\ ocrJob \in BOOLEAN
  /\ requested \subseteq Frame
  /\ extracted \in Nat
  /\ failures \in Nat
  /\ objects \subseteq Segment
  /\ pc \in [Segment -> {"queued", "video", "job", "start", "extract", "complete",
                         "fail", "finalize", "cleanup", "cleanup_all",
                         "done", "dead"}]
  /\ tries \in [Segment -> 0 .. MaxRetries]
  /\ seenVideo \in [Segment -> Status]
  /\ seenJob \in [Segment -> JobRow]
  /\ seenOCRJob \in [Segment -> {"unknown", "missing", "known"}]
  /\ progress \in [Frame -> {"todo", "stored", "requested"}]

\* commitSegments has run: the video is in processing, the frame job counts.
Init ==
  /\ video = "processing"
  /\ job = [status |-> "pending", completed |-> 0]
  /\ segment = [s \in Segment |-> "pending"]
  /\ frames = {}
  /\ ocrJob = FALSE
  /\ requested = {}
  /\ extracted = 0
  /\ failures = 0
  /\ objects = Segment
  /\ pc = [s \in Segment |-> "queued"]
  /\ tries = [s \in Segment |-> 0]
  /\ seenVideo = [s \in Segment |-> "processing"]
  /\ seenJob = [s \in Segment |-> [status |-> "pending", completed |-> 0]]
  /\ seenOCRJob = [s \in Segment |-> "unknown"]
  /\ progress = [f \in Frame |-> "todo"]

Goto(s, place) == pc' = [pc EXCEPT ![s] = place]

\* A retryable error: the mark is released and the message goes round the retry
\* queue, or, after the last attempt, to the dead letter queue.
Retry(s) ==
  IF tries[s] < MaxRetries
  THEN Goto(s, "queued") /\ tries' = [tries EXCEPT ![s] = @ + 1]
  ELSE Goto(s, "dead") /\ UNCHANGED tries

--------------------------------------------------------------------------------
(* load: three reads outside any transaction *)

LoadVideo(s) ==
  /\ pc[s] = "queued"
  /\ seenVideo' = [seenVideo EXCEPT ![s] = video]
  /\ Goto(s, "video")
  /\ UNCHANGED <<rows, objects, tries, seenJob, seenOCRJob, progress>>

LoadJob(s) ==
  /\ pc[s] = "video"
  /\ seenJob' = [seenJob EXCEPT ![s] = job]
  /\ Goto(s, "job")
  /\ UNCHANGED <<rows, objects, tries, seenVideo, seenOCRJob, progress>>

Dropped(s) == seenJob[s].status = "success" \/ seenVideo[s] = "failed"

\* Mutant: a finished segment is extracted again.
LoadSegmentAgain(s) ==
  /\ pc[s] = "job"
  /\ Goto(s, IF Dropped(s) THEN "done" ELSE "start")
  /\ UNCHANGED <<rows, objects, tries, copies, progress>>

LoadSegment(s) ==
  /\ pc[s] = "job"
  /\ \/ /\ Dropped(s)
        /\ Goto(s, "done")
     \/ /\ ~Dropped(s)
        /\ Goto(s, IF segment[s] = "success" THEN "finalize" ELSE "start")
  /\ UNCHANGED <<rows, objects, tries, copies, progress>>

StartSegment(s) ==
  /\ pc[s] = "start"
  /\ segment' = [segment EXCEPT ![s] = "processing"]
  /\ seenOCRJob' = [seenOCRJob EXCEPT ![s] = "unknown"]
  /\ progress' = [f \in Frame |-> IF f \in FramesOf(s) THEN "todo" ELSE progress[f]]
  /\ Goto(s, "extract")
  /\ UNCHANGED <<video, job, frames, ocrJob, requested, extracted, failures,
                 objects, tries, seenVideo, seenJob>>

--------------------------------------------------------------------------------
(* extractAndStore: the frames go through a pool of goroutines *)

\* The JPEG is put and the row upserted, which keeps the id of an earlier attempt.
StoreFrame(s, f) ==
  /\ pc[s] = "extract"
  /\ f \in FramesOf(s) /\ progress[f] = "todo"
  /\ frames' = frames \cup {f}
  /\ progress' = [progress EXCEPT ![f] = "stored"]
  /\ UNCHANGED <<video, job, segment, ocrJob, requested, extracted, failures,
                 objects, pc, tries, copies>>

\* ensureOCRJob, once per attempt: a read, then an insert that is refused when
\* another segment's insert came in between.
LookUpOCRJob(s) ==
  /\ pc[s] = "extract" /\ seenOCRJob[s] = "unknown"
  /\ \E f \in FramesOf(s) : progress[f] = "stored"
  /\ seenOCRJob' = [seenOCRJob EXCEPT ![s] = IF ocrJob THEN "known" ELSE "missing"]
  /\ UNCHANGED <<rows, objects, pc, tries, seenVideo, seenJob, progress>>

CreateOCRJob(s) ==
  /\ pc[s] = "extract" /\ seenOCRJob[s] = "missing"
  /\ ~ocrJob
  /\ ocrJob' = TRUE
  /\ seenOCRJob' = [seenOCRJob EXCEPT ![s] = "known"]
  /\ UNCHANGED <<video, job, segment, frames, requested, extracted, failures,
                 objects, pc, tries, seenVideo, seenJob, progress>>

OCRJobConflict(s) ==
  /\ pc[s] = "extract" /\ seenOCRJob[s] = "missing"
  /\ ocrJob
  /\ Retry(s)
  /\ UNCHANGED <<rows, objects, copies, progress>>

\* publishOCRRequest, in a transaction of its own.
RequestOCR(s, f) ==
  /\ pc[s] = "extract" /\ seenOCRJob[s] = "known"
  /\ f \in FramesOf(s) /\ progress[f] = "stored"
  /\ requested' = requested \cup {f}
  /\ progress' = [progress EXCEPT ![f] = "requested"]
  /\ UNCHANGED <<video, job, segment, frames, ocrJob, extracted, failures,
                 objects, pc, tries, copies>>

\* Mutant: the pool is not waited for.
ExtractEndsUnwaited(s) ==
  /\ pc[s] = "extract"
  /\ \E f \in FramesOf(s) : progress[f] = "requested"
  /\ Goto(s, "complete")
  /\ UNCHANGED <<rows, objects, tries, copies, progress>>

\* Mutant: the pool is waited for, its first error is dropped.
ExtractEndsErrorDropped(s) ==
  /\ pc[s] = "extract"
  /\ \/ \A f \in FramesOf(s) : progress[f] = "requested"
     \/ "retryable" \in Faults
  /\ Goto(s, "complete")
  /\ UNCHANGED <<rows, objects, tries, copies, progress>>

\* Every kept frame went through, or ffmpeg died after some of them and its exit
\* code is ignored.
ExtractEnds(s) ==
  /\ pc[s] = "extract"
  /\ \/ \A f \in FramesOf(s) : progress[f] = "requested"
     \/ /\ "truncated" \in Faults
        /\ \E f \in FramesOf(s) : progress[f] = "requested"
        /\ \A f \in FramesOf(s) : progress[f] # "stored"
  /\ Goto(s, "complete")
  /\ UNCHANGED <<rows, objects, tries, copies, progress>>

ExtractUnreadable(s) ==
  /\ "unreadable" \in Faults
  /\ pc[s] = "extract"
  /\ Goto(s, "fail")
  /\ UNCHANGED <<rows, objects, tries, copies, progress>>

\* An error the handler returns as retryable, before its last transaction.
AttemptFails(s) ==
  /\ "retryable" \in Faults
  /\ pc[s] \in {"queued", "video", "job", "start", "extract", "complete"}
  /\ Retry(s)
  /\ UNCHANGED <<rows, objects, copies, progress>>

--------------------------------------------------------------------------------
(* completeSegment, maybeFinalize, failSegment: one transaction each *)

\* Mutant: complete one segment early.
SegmentsCompleteEarly(row) == row.completed >= Expected - 1

\* Mutant: complete one segment late.
SegmentsCompleteLate(row) == row.completed > Expected

SegmentsComplete(row) == row.completed >= Expected

\* The frame job is finished and the video announced, from the copy of the attempt.
Finalize(s, row) ==
  LET ready == MarkFramesReady(seenVideo[s]) IN
    /\ ready.ok
    /\ job' = [status |-> "success", completed |-> row.completed]
    /\ video' = ready.status
    /\ extracted' = IF ready.emits THEN extracted + 1 ELSE extracted

\* Mutant: the count is read, incremented and written back by the handler.
CompleteRowsReadModifyWrite(s) ==
  LET current == [seenJob[s] EXCEPT !.completed = @ + 1]
  IN /\ segment' = [segment EXCEPT ![s] = "success"]
     /\ IF SegmentsComplete(current) /\ current.status # "success"
        THEN Finalize(s, current)
        ELSE job' = current /\ video' = seenVideo[s] /\ UNCHANGED extracted
     /\ UNCHANGED <<frames, ocrJob, requested, failures>>

\* Mutant: the segment is counted, the last one does not conclude.
CompleteRowsUnconcluded(s) ==
  /\ segment' = [segment EXCEPT ![s] = "success"]
  /\ job' = [job EXCEPT !.completed = IF segment[s] = "success" THEN @ ELSE @ + 1]
  /\ UNCHANGED <<video, frames, ocrJob, requested, extracted, failures>>

\* Mutant: the whole job row is written back after the increment.
CompleteRowsWholeJob(s) ==
  LET current == [status |-> seenJob[s].status, completed |-> job.completed + 1]
  IN /\ segment' = [segment EXCEPT ![s] = "success"]
     /\ IF SegmentsComplete(current) /\ current.status # "success"
        THEN Finalize(s, current)
        ELSE job' = current /\ video' = seenVideo[s] /\ UNCHANGED extracted
     /\ UNCHANGED <<frames, ocrJob, requested, failures>>

\* The segment row is read without a lock; the increment locks the job row until
\* the end.  The video row is written back as the attempt loaded it.
CompleteRows(s) ==
  LET already == segment[s] = "success"
      current == IF already THEN job
                 ELSE [status |-> seenJob[s].status, completed |-> job.completed + 1]
  IN /\ segment' = [segment EXCEPT ![s] = "success"]
     /\ ocrJob' = TRUE
     /\ IF SegmentsComplete(current) /\ current.status # "success"
        THEN Finalize(s, current)
        ELSE /\ job' = [job EXCEPT !.completed = current.completed]
             /\ video' = seenVideo[s]
             /\ UNCHANGED extracted
     /\ UNCHANGED <<frames, requested, failures>>

CompleteSegment(s) ==
  /\ pc[s] = "complete"
  /\ CompleteRows(s)
  /\ \/ /\ Goto(s, IF job'.completed >= Expected THEN "cleanup_all" ELSE "cleanup")
        /\ UNCHANGED tries
     \/ "lost_reply" \in Faults /\ Retry(s)
  /\ UNCHANGED <<objects, copies, progress>>

\* Mutant: every segment that ends deletes all the slices.
CleanUpAlwaysAll(s) ==
  /\ pc[s] \in {"cleanup", "cleanup_all"}
  /\ objects' = {}
  /\ Goto(s, "done")
  /\ UNCHANGED <<rows, tries, copies, progress>>

\* Slices of finished segments are deleted, all of them by the last one; an error
\* of a deletion is ignored.
CleanUp(s) ==
  /\ pc[s] \in {"cleanup", "cleanup_all"}
  /\ \E gone \in SUBSET (IF pc[s] = "cleanup" THEN {s} ELSE Segment) :
       objects' = objects \ gone
  /\ Goto(s, "done")
  /\ UNCHANGED <<rows, tries, copies, progress>>

MaybeFinalize(s) ==
  /\ pc[s] = "finalize"
  /\ IF SegmentsComplete(seenJob[s]) /\ seenJob[s].status # "success"
     THEN /\ Finalize(s, seenJob[s])
          /\ ocrJob' = TRUE
          /\ \E gone \in SUBSET Segment : objects' = objects \ gone
          /\ UNCHANGED <<segment, frames, requested, failures>>
     ELSE UNCHANGED <<rows, objects>>
  /\ Goto(s, "done")
  /\ UNCHANGED <<tries, copies, progress>>

\* The job row is written back with the count the attempt loaded.
FailSegment(s) ==
  LET failure == MarkExtractionFailed(seenVideo[s]) IN
    /\ pc[s] = "fail"
    /\ IF failure.ok
       THEN /\ segment' = [segment EXCEPT ![s] = "failed"]
            /\ job' = [seenJob[s] EXCEPT !.status = "failed"]
            /\ video' = failure.status
            /\ failures' = IF failure.emits THEN failures + 1 ELSE failures
       ELSE UNCHANGED <<segment, job, video, failures>>
    /\ Goto(s, "dead")
    /\ UNCHANGED <<frames, ocrJob, requested, extracted, objects, tries, copies, progress>>

FailSegmentAborts(s) ==
  /\ "fail_tx" \in Faults
  /\ pc[s] = "fail"
  /\ Goto(s, "dead")
  /\ UNCHANGED <<rows, objects, tries, copies, progress>>

Crash(s) ==
  /\ "crash" \in Faults
  /\ pc[s] \notin {"queued", "done", "dead"}
  /\ Goto(s, "done")
  /\ UNCHANGED <<rows, objects, tries, copies, progress>>

--------------------------------------------------------------------------------
\* The stages behind the first frames fail the video, or take it up again.
Downstream ==
  /\ "downstream" \in Faults
  /\ requested # {}
  /\ \/ video' = MarkOCRFailed(video).status
     \/ video' = MarkOCRProcessing(video).status
  /\ UNCHANGED <<job, segment, frames, ocrJob, requested, extracted, failures,
                 objects, pc, tries, copies, progress>>

Handle(s) ==
  \/ LoadVideo(s) \/ LoadJob(s) \/ LoadSegment(s) \/ StartSegment(s)
  \/ \E f \in Frame : StoreFrame(s, f) \/ RequestOCR(s, f)
  \/ LookUpOCRJob(s) \/ CreateOCRJob(s) \/ OCRJobConflict(s)
  \/ ExtractEnds(s) \/ ExtractUnreadable(s) \/ AttemptFails(s)
  \/ CompleteSegment(s) \/ CleanUp(s) \/ MaybeFinalize(s)
  \/ FailSegment(s) \/ FailSegmentAborts(s)

Next == (\E s \in Segment : Handle(s) \/ Crash(s)) \/ Downstream

Spec == Init /\ [][Next]_vars

\* Consumers go on with what they were given.
FairSpec == Spec /\ \A s \in Segment : WF_vars(Handle(s))

--------------------------------------------------------------------------------
(* Properties *)

Finished == {s \in Segment : segment[s] = "success"}

\* While the job is not failed its counter is the number of finished segments:
\* no increment is lost between concurrent handlers and none is made twice by a
\* handler that is retried after it committed.
CounterIsExact == job.status # "failed" => job.completed = Cardinality(Finished)

\* The announcement is made exactly when the frame job succeeds, once.
AnnouncedOnce == extracted = IF job.status = "success" THEN 1 ELSE 0

\* When the frame job succeeds every segment did, every frame they keep has a row
\* and was given to the ocr stage.
SuccessIsComplete ==
  job.status = "success" =>
    /\ Finished = Segment
    /\ frames = Frame /\ requested = Frame
    /\ ocrJob

\* A counter that says complete never waits for somebody to draw the conclusion:
\* maybeFinalize has nothing left to do.
CompleteIsConcluded ==
  job.status # "failed" /\ SegmentsComplete(job) => job.status = "success"

\* No attempt looks for a slice that was already deleted.
SliceStillThere == \A s \in Segment : pc[s] \in {"start", "extract"} => s \in objects

\* What a frame job decided it never takes back, whatever stale copy is written.
JobDecidedOnce ==
  [][job.status \in {"success", "failed"} => job'.status = job.status]_vars

\* The later stages see frames appear, then a final set.
Phase == CASE job.status = "success" -> "done"
           [] job.status = "failed" -> "failed"
           [] job.status \notin {"success", "failed"} -> "running"

Abstract == INSTANCE ExtractionPhase WITH stored <- frames, phase <- Phase

ImplementsExtractionPhase == Abstract!Spec

\* The handler of the segment has given up on it: its retries ran out, the process died,
\* its failure was not committed, or it found the video failed by a later stage.
GivenUp(s) == pc[s] \in {"done", "dead"} /\ segment[s] \notin {"success", "failed"}

\* Every extraction is decided, one way or the other, unless a handler gives up on its
\* segment: nothing else, no order of the segments, leaves the job in processing.
ExtractionDecided ==
  <>(job.status \in {"success", "failed"} \/ \E s \in Segment : GivenUp(s))
================================================================================
