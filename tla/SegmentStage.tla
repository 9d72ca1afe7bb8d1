------------------------------ MODULE SegmentStage ------------------------------
(***************************************************************************)
(* The handler of video.uploaded.v1 for one video: it downloads the file,  *)
(* plans and cuts it, stores the slices, and commits the segment rows, the *)
(* frame job and one video.segment_ready.v1 per slice in one transaction.  *)
(* A failed attempt fails the video, a retry revives it.  The event is     *)
(* delivered as in HandlerOnce; an error that commitSegments returns is    *)
(* not classified, so its mark is kept and the retry is skipped.           *)
(***************************************************************************)
EXTENDS SegmentPlan, VideoDomain

CONSTANTS Durations,   \* what ffprobe may measure, in milliseconds
          PlanConfig,  \* the parameters in the segment job
          MaxRetries,  \* RABBITMQ_MAX_RETRIES
          Faults       \* what may go wrong

FaultKind ==
  {"load",        \* the reads at the start, or the transaction of markExtracting, fail
   "storage",     \* the storage or the disk fails: retryable
   "unreadable",  \* ffprobe or ffmpeg fails, a timeout included: not retryable
   "fail_tx",     \* the transaction of markFailed fails; its error is ignored
   "commit_tx",   \* the transaction of commitSegments fails, or runs out of time
   "lost_reply",  \* a transaction commits, its answer is lost
   "crash",       \* the process dies; the mark makes the redelivery a no-op
   "expiry"}      \* the upload was confirmed after the expiry ticker had listed it

ASSUME SegmentStageAssumption ==
  /\ Durations \subseteq Nat /\ Durations # {}
  /\ PlanConfig \in [segmentDuration : Nat, minSplit : Nat, maxSegments : Nat]
  /\ MaxRetries \in Nat
  /\ Faults \subseteq FaultKind

VARIABLES
  duration,    \* of the uploaded file
  cuts,        \* number of files ffmpeg makes of it
  video,       \* status of the video row
  job,         \* the segment job: status and expected_segment_count
  segments,    \* number of segment rows, of the indices 0 .. segments - 1
  frameJob,    \* the frame job: status, expected and completed, or NoJob
  ready,       \* VideoSegmentReady events stored
  extracting,  \* VideoExtracting events stored
  failures,    \* VideoFrameExtractionFailed events stored
  objects,     \* slices in the object storage, of the indices 0 .. objects - 1
  expiring,    \* whether the ticker still has to write its listed row
  pc,          \* where the handler is
  tries,       \* its completed retries
  seenVideo,   \* status of the video its attempt loaded
  seenJob,     \* segment job its attempt loaded
  put          \* slices its attempt stored

file == <<duration, cuts>>
rows == <<video, job, segments, frameJob>>
events == <<ready, extracting, failures>>
copies == <<seenVideo, seenJob>>
vars == <<file, rows, events, objects, expiring, pc, tries, copies, put>>

JobRow == [status : Status, expected : Nat]
FrameJobRow == [status : Status, expected : Nat, completed : Nat]
NoJob == [status |-> "absent"]

Plan == PlanSegments(duration, PlanConfig)

TypeOK ==
  /\ duration \in Durations /\ cuts \in Nat
  /\ video \in Status
  /\ job \in JobRow
  /\ segments \in Nat
  /\ frameJob \in FrameJobRow \cup {NoJob}
  /\ ready \in Nat /\ extracting \in Nat /\ failures \in Nat
  /\ objects \in Nat
  /\ expiring \in BOOLEAN
  /\ pc \in {"queued", "job", "list", "republish", "mark", "split", "commit",
             "fail_retryable", "fail", "done", "dead", "skipped"}
  /\ tries \in 0 .. MaxRetries
  /\ seenVideo \in Status
  /\ seenJob \in JobRow
  /\ put \in Nat

\* ConfirmUpload has run; a listing of the ticker may be older than it.
Init ==
  /\ duration \in Durations
  /\ cuts \in CutsOf(duration, Plan)
  /\ video = "processing"
  /\ job = [status |-> "pending", expected |-> 0]
  /\ segments = 0
  /\ frameJob = NoJob
  /\ ready = 0 /\ extracting = 0 /\ failures = 0
  /\ objects = 0
  /\ expiring \in BOOLEAN /\ (expiring => "expiry" \in Faults)
  /\ pc = "queued"
  /\ tries = 0
  /\ seenVideo = "processing"
  /\ seenJob = [status |-> "pending", expected |-> 0]
  /\ put = 0

Goto(place) == pc' = place

\* A retryable error, dead-lettered after the last attempt.
Retry ==
  IF tries < MaxRetries
  THEN Goto("queued") /\ tries' = tries + 1
  ELSE Goto("dead") /\ UNCHANGED tries

--------------------------------------------------------------------------------
(* load, and the choice of a road *)

LoadVideo ==
  /\ pc = "queued"
  /\ seenVideo' = video
  /\ Goto("job")
  /\ UNCHANGED <<file, rows, events, objects, expiring, tries, seenJob, put>>

LoadJob ==
  /\ pc = "job"
  /\ seenJob' = job
  /\ Goto(IF seenVideo = "success" THEN "done" ELSE "list")
  /\ UNCHANGED <<file, rows, events, objects, expiring, tries, seenVideo, put>>

\* A committed segmentation would only be announced again.
ListSegments ==
  /\ pc = "list"
  /\ put' = 0
  /\ \/ /\ seenJob.status = "success" \/ (segments > 0 /\ seenJob.expected > 0)
        /\ Goto("republish")
     \/ /\ seenJob.status # "success" /\ (segments = 0 \/ seenJob.expected = 0)
        /\ Goto(IF seenJob.status = "processing" THEN "split" ELSE "mark")
  /\ UNCHANGED <<file, rows, events, objects, expiring, tries, copies>>

LoadFails ==
  /\ "load" \in Faults
  /\ pc \in {"queued", "job", "list", "mark"}
  /\ Retry
  /\ UNCHANGED <<file, rows, events, objects, expiring, copies, put>>

\* markExtracting, which is refused in no status: both rows are written as the attempt
\* loaded them.
StartExtracting ==
  LET begun == MarkExtracting(seenVideo) IN
    /\ pc = "mark"
    /\ video' = begun.status
    /\ job' = [seenJob EXCEPT !.status = "processing"]
    /\ extracting' = IF begun.emits THEN extracting + 1 ELSE extracting
    /\ seenVideo' = begun.status
    /\ seenJob' = job'
    /\ \/ Goto("split") /\ UNCHANGED tries
       \/ "lost_reply" \in Faults /\ Retry
    /\ UNCHANGED <<file, segments, frameJob, ready, failures, objects, expiring, put>>

--------------------------------------------------------------------------------
(* splitAndStore *)

Larger(a, b) == IF a >= b THEN a ELSE b

\* Slices are stored in the order of their indices, a retry over those of an
\* earlier attempt.  A video that is not split has none: its segment is the file.
PutSlice ==
  /\ pc = "split" /\ ~Plan.skipSplit
  /\ put < cuts
  /\ put' = put + 1
  /\ objects' = Larger(objects, put + 1)
  /\ UNCHANGED <<file, rows, events, expiring, pc, tries, copies>>

\* Mutant: the last slice is not waited for.
SplitEndsEarly ==
  /\ pc = "split"
  /\ Plan.skipSplit \/ put >= cuts - 1
  /\ Goto("commit")
  /\ UNCHANGED <<file, rows, events, objects, expiring, tries, copies, put>>

SplitEnds ==
  /\ pc = "split"
  /\ Plan.skipSplit \/ put = cuts
  /\ Goto("commit")
  /\ UNCHANGED <<file, rows, events, objects, expiring, tries, copies, put>>

SplitFails ==
  /\ pc = "split"
  /\ \/ "storage" \in Faults /\ Goto("fail_retryable")
     \/ "unreadable" \in Faults /\ Goto("fail")
  /\ UNCHANGED <<file, rows, events, objects, expiring, tries, copies, put>>

--------------------------------------------------------------------------------
(* markFailed, and what the handler then returns *)

Failing == pc \in {"fail_retryable", "fail"}

Return ==
  IF pc = "fail_retryable" THEN Retry ELSE Goto("dead") /\ UNCHANGED tries

\* Mutant: the event is stored before the transaction, whatever becomes of it.
FailExtractionEventFirst ==
  LET failure == MarkExtractionFailed(seenVideo) IN
    /\ Failing
    /\ failures' = IF failure.emits THEN failures + 1 ELSE failures
    /\ \/ /\ video' = failure.status
          /\ job' = [seenJob EXCEPT !.status = "failed"]
       \/ "fail_tx" \in Faults /\ UNCHANGED <<video, job>>
    /\ Return
    /\ UNCHANGED <<file, segments, frameJob, ready, extracting, objects, expiring, copies, put>>

FailExtraction ==
  LET failure == MarkExtractionFailed(seenVideo) IN
    /\ Failing
    /\ failure.ok
    /\ video' = failure.status
    /\ job' = [seenJob EXCEPT !.status = "failed"]
    /\ failures' = IF failure.emits THEN failures + 1 ELSE failures
    /\ Return
    /\ UNCHANGED <<file, segments, frameJob, ready, extracting, objects, expiring, copies, put>>

FailExtractionAborts ==
  /\ "fail_tx" \in Faults
  /\ Failing
  /\ Return
  /\ UNCHANGED <<file, rows, events, objects, expiring, copies, put>>

--------------------------------------------------------------------------------
(* commitSegments *)

CommitRows ==
  /\ segments' = Larger(segments, cuts)
  /\ job' = [status |-> "success", expected |-> cuts]
  /\ frameJob' =
       IF frameJob = NoJob
       THEN [status |-> "pending", expected |-> cuts, completed |-> 0]
       ELSE [frameJob EXCEPT !.expected = cuts,
                             !.status = IF @ = "pending" THEN "processing" ELSE @]
  /\ video' = seenVideo
  /\ ready' = ready + cuts
  /\ UNCHANGED <<extracting, failures>>

\* Mutant: the events are stored by a transaction of their own, before the rows.
CommitSegmentsEventsFirst ==
  /\ pc = "commit"
  /\ \/ CommitRows /\ Goto("done")
     \/ /\ "commit_tx" \in Faults
        /\ ready' = ready + cuts
        /\ Goto("skipped")
        /\ UNCHANGED <<rows, extracting, failures>>
  /\ UNCHANGED <<file, objects, expiring, tries, copies, put>>

\* The error is returned as it is: the message goes round the retry queue and is
\* then skipped, for its mark is still there.
CommitSegments ==
  /\ pc = "commit"
  /\ \/ CommitRows /\ Goto("done")
     \/ "lost_reply" \in Faults /\ CommitRows /\ Goto("skipped")
     \/ "commit_tx" \in Faults /\ UNCHANGED <<rows, events>> /\ Goto("skipped")
  /\ UNCHANGED <<file, objects, expiring, tries, copies, put>>

--------------------------------------------------------------------------------
Crash ==
  /\ "crash" \in Faults
  /\ pc \notin {"queued", "done", "dead", "skipped"}
  /\ Goto("skipped")
  /\ UNCHANGED <<file, rows, events, objects, expiring, tries, copies, put>>

\* The ticker writes the row it listed as pending over the one that was confirmed.
ExpireUpload ==
  /\ expiring
  /\ expiring' = FALSE
  /\ video' = MarkUploadExpired("pending").status
  /\ UNCHANGED <<file, job, segments, frameJob, events, objects, pc, tries, copies, put>>

Handle ==
  \/ LoadVideo \/ LoadJob \/ ListSegments \/ LoadFails \/ StartExtracting
  \/ PutSlice \/ SplitEnds \/ SplitFails
  \/ FailExtraction \/ FailExtractionAborts
  \/ CommitSegments

Next == Handle \/ Crash \/ ExpireUpload

Spec == Init /\ [][Next]_vars

--------------------------------------------------------------------------------
(* Properties *)

Committed == job.status = "success"

\* The fan-out is all or nothing, through any number of retries: either nothing of
\* it is visible, or each slice that was cut has a row and was announced once, and
\* the frame job will count exactly as many.
FanOutIsWhole ==
  IF Committed
  THEN /\ segments = cuts /\ ready = cuts /\ job.expected = cuts
       /\ frameJob = [status |-> "pending", expected |-> cuts, completed |-> 0]
  ELSE segments = 0 /\ ready = 0 /\ frameJob = NoJob

\* Whoever receives a segment finds its slice, or the file itself, in the storage.
AnnouncedIsStored == ready > 0 => Plan.skipSplit \/ objects >= ready

\* An event that is delivered as in HandlerOnce never meets its own segmentation:
\* the road that announces it again is never taken.
NeverRepublishes == pc # "republish"

\* What clients are told of the attempts: a failure is only announced for an attempt
\* that was, once, and never for the one that is under way or that succeeded.
AttemptsAnnounced ==
  /\ failures <= extracting
  /\ job.status \in {"processing", "success"} => failures < extracting

\* A video the plan splits becomes at least one and at most max_segments slices,
\* which between them are long enough for all of it.
PlanCovers ==
  ~Plan.skipSplit =>
    /\ Plan.count \in 1 .. NormalizePlanConfig(PlanConfig).maxSegments
    /\ cuts <= Plan.count
    /\ 1000 * Plan.effective * Plan.count >= duration
================================================================================
