------------------------- MODULE FrameExtractionProofs -------------------------
(***************************************************************************)
(* What FrameExtraction guarantees for any number of segments, frames and  *)
(* retries.  The invariant has two parts: CountInv, about the frame job    *)
(* and its counter, holds under every fault; DataInv, about the frames     *)
(* behind a finished segment, needs that ffmpeg's death does not go        *)
(* unnoticed.  SliceInv says who may still need a slice.  The handlers are *)
(* called as HandlerOnce promises.  The last section is about the frames   *)
(* the extractor keeps: by induction over the candidates of a slice, they  *)
(* cover it; and DataInv says that all of them are stored.                 *)
(***************************************************************************)
EXTENDS SegmentCoverage, FiniteSetTheorems, SequenceTheorems, WellFoundedInduction, TLAPS

\* The statuses the extraction ever gives the video and its frame job.
StatusInv ==
  /\ video \in {"processing", "failed"}
  /\ job.status \in {"pending", "success", "failed"}
  /\ \A s \in Segment : /\ seenVideo[s] \in {"processing", "failed"}
                        /\ seenJob[s].status \in {"pending", "success", "failed"}

\* A handler past its checks saw nothing decided and is the only one to finish its
\* segment.
Past(s) == pc[s] \in {"start", "extract", "complete", "fail"}

WorkingInv ==
  \A s \in Segment :
    /\ Past(s) => segment[s] # "success"
    /\ Past(s) \/ pc[s] = "finalize" =>
         seenJob[s].status # "success" /\ seenVideo[s] # "failed"

\* The counter, and the copies of it, never run ahead of the finished segments; a
\* failed job has a segment that will never finish; success is all of them finished.
CounterInv ==
  /\ CounterIsExact
  /\ job.completed =< Cardinality(Finished)
  /\ \A s \in Segment : seenJob[s].completed =< Cardinality(Finished)
  /\ \A s \in Segment : SegmentsComplete(seenJob[s]) => seenJob[s].status = "success"
  /\ job.status = "failed" => \E t \in Segment : segment[t] = "failed" /\ pc[t] = "dead"
  /\ job.status = "success" <=> Finished = Segment
  /\ AnnouncedOnce

CountInv == TypeOK /\ StatusInv /\ WorkingInv /\ CounterInv

DataInv ==
  /\ \A f \in Frame : /\ progress[f] # "todo" => f \in frames
                      /\ progress[f] = "requested" => f \in requested
  /\ \A s \in Segment : seenOCRJob[s] = "known" => ocrJob
  /\ \A s \in Segment : pc[s] = "complete" =>
       \A f \in FramesOf(s) : progress[f] = "requested"
  /\ \A s \in Finished : FramesOf(s) \subseteq frames \cap requested
  /\ Finished # {} => ocrJob

--------------------------------------------------------------------------------
(* Type correctness *)

\* A transition between statuses gives a status.
LEMMA TransitionStatus ==
  ASSUME NEW status \in Status, NEW from, NEW to \in Status, NEW keep
  PROVE  Transition(status, from, to, keep).status \in Status
BY DEF Transition

LEMMA MarkStatus ==
  ASSUME NEW status \in Status
  PROVE  /\ MarkFramesReady(status).status \in Status
         /\ MarkExtractionFailed(status).status \in Status
         /\ MarkOCRFailed(status).status \in Status
         /\ MarkOCRProcessing(status).status \in Status
BY TransitionStatus
   DEF Status, MarkFramesReady, MarkExtractionFailed, MarkOCRFailed, MarkOCRProcessing

\* A retryable error leaves a segment's handler queued or dead.
LEMMA RetryType ==
  ASSUME TypeOK, NEW s \in Segment, Retry(s)
  PROVE  /\ pc' = [pc EXCEPT ![s] = "queued"] \/ pc' = [pc EXCEPT ![s] = "dead"]
         /\ tries' \in [Segment -> 0 .. MaxRetries]
<1>1. CASE tries[s] < MaxRetries
  BY <1>1, FrameExtractionAssumption DEF Retry, Goto, TypeOK
<1>2. CASE ~(tries[s] < MaxRetries)
  BY <1>2 DEF Retry, Goto, TypeOK
<1>3. QED
  BY <1>1, <1>2

LEMMA FinalizeType ==
  ASSUME TypeOK, NEW s \in Segment, NEW row \in JobRow, Finalize(s, row)
  PROVE  video' \in Status /\ job' \in JobRow /\ extracted' \in Nat
BY MarkStatus DEF Finalize, TypeOK, JobRow, Status

LEMMA CompleteRowsType ==
  ASSUME TypeOK, NEW s \in Segment, CompleteRows(s)
  PROVE  /\ video' \in Status /\ job' \in JobRow /\ extracted' \in Nat
         /\ segment' \in [Segment -> Status] /\ ocrJob' \in BOOLEAN
<1> DEFINE current == IF segment[s] = "success" THEN job
                      ELSE [status |-> seenJob[s].status, completed |-> job.completed + 1]
<1>1. current \in JobRow
  BY DEF TypeOK, JobRow
<1>2. segment' = [segment EXCEPT ![s] = "success"] /\ ocrJob' = TRUE
  BY DEF CompleteRows
<1>3. CASE SegmentsComplete(current) /\ current.status # "success"
  <2>1. Finalize(s, current)
    BY <1>3 DEF CompleteRows
  <2>2. QED
    BY <1>1, <1>2, <2>1, FinalizeType DEF TypeOK, Status
<1>4. CASE ~(SegmentsComplete(current) /\ current.status # "success")
  <2>1. /\ job' = [job EXCEPT !.completed = current.completed]
        /\ video' = seenVideo[s] /\ extracted' = extracted
    BY <1>4 DEF CompleteRows
  <2>2. QED
    BY <1>1, <1>2, <2>1 DEF TypeOK, JobRow, Status
<1>5. QED
  BY <1>3, <1>4

LEMMA TypeStep == TypeOK /\ [Next]_vars => TypeOK'
<1> SUFFICES ASSUME TypeOK, [Next]_vars PROVE TypeOK'
  OBVIOUS
<1> USE FrameExtractionAssumption
<1>1. ASSUME NEW s \in Segment, LoadVideo(s) PROVE TypeOK'
  BY <1>1 DEF TypeOK, LoadVideo, Goto, rows
<1>2. ASSUME NEW s \in Segment, LoadJob(s) PROVE TypeOK'
  BY <1>2 DEF TypeOK, LoadJob, Goto, rows
<1>3. ASSUME NEW s \in Segment, LoadSegment(s) PROVE TypeOK'
  BY <1>3 DEF TypeOK, LoadSegment, Goto, rows, copies
<1>4. ASSUME NEW s \in Segment, StartSegment(s) PROVE TypeOK'
  BY <1>4 DEF TypeOK, StartSegment, Goto, Status
<1>5. ASSUME NEW s \in Segment, NEW f \in Frame, StoreFrame(s, f) PROVE TypeOK'
  BY <1>5 DEF TypeOK, StoreFrame, copies
<1>6. ASSUME NEW s \in Segment, LookUpOCRJob(s) PROVE TypeOK'
  BY <1>6 DEF TypeOK, LookUpOCRJob, rows
<1>7. ASSUME NEW s \in Segment, CreateOCRJob(s) PROVE TypeOK'
  BY <1>7 DEF TypeOK, CreateOCRJob
<1>8. ASSUME NEW s \in Segment, OCRJobConflict(s) PROVE TypeOK'
  BY <1>8, RetryType DEF TypeOK, OCRJobConflict, rows, copies
<1>9. ASSUME NEW s \in Segment, NEW f \in Frame, RequestOCR(s, f) PROVE TypeOK'
  BY <1>9 DEF TypeOK, RequestOCR, copies
<1>10. ASSUME NEW s \in Segment, ExtractEnds(s) \/ ExtractUnreadable(s) PROVE TypeOK'
  BY <1>10 DEF TypeOK, ExtractEnds, ExtractUnreadable, Goto, rows, copies
<1>11. ASSUME NEW s \in Segment, AttemptFails(s) PROVE TypeOK'
  BY <1>11, RetryType DEF TypeOK, AttemptFails, rows, copies
<1>12. ASSUME NEW s \in Segment, CompleteSegment(s) PROVE TypeOK'
  <2>1. /\ video' \in Status /\ job' \in JobRow /\ extracted' \in Nat
        /\ segment' \in [Segment -> Status] /\ ocrJob' \in BOOLEAN
    BY <1>12, CompleteRowsType DEF CompleteSegment
  <2>2. UNCHANGED <<frames, requested, failures, objects, copies, progress>>
    BY <1>12 DEF CompleteSegment, CompleteRows
  <2>3. /\ \E place \in {"cleanup", "cleanup_all", "queued", "dead"} :
             pc' = [pc EXCEPT ![s] = place]
        /\ tries' \in [Segment -> 0 .. MaxRetries]
    BY <1>12, RetryType DEF CompleteSegment, Goto, TypeOK
  <2>4. QED
    BY <2>1, <2>2, <2>3 DEF TypeOK, copies
<1>13. ASSUME NEW s \in Segment, CleanUp(s) PROVE TypeOK'
  BY <1>13 DEF TypeOK, CleanUp, Goto, rows, copies
<1>14. ASSUME NEW s \in Segment, MaybeFinalize(s) PROVE TypeOK'
  <2>1. seenJob[s] \in JobRow
    BY DEF TypeOK
  <2>2. /\ video' \in Status /\ job' \in JobRow /\ extracted' \in Nat
        /\ ocrJob' \in BOOLEAN /\ objects' \subseteq Segment
        /\ UNCHANGED <<segment, frames, requested, failures>>
    BY <1>14, <2>1, FinalizeType DEF MaybeFinalize, TypeOK, rows
  <2>3. QED
    BY <1>14, <2>2 DEF TypeOK, MaybeFinalize, Goto, copies
<1>15. ASSUME NEW s \in Segment, FailSegment(s) PROVE TypeOK'
  <2>1. /\ video' \in Status /\ job' \in JobRow /\ failures' \in Nat
        /\ segment' \in [Segment -> Status]
    <3>1. MarkExtractionFailed(seenVideo[s]).status \in Status
      BY MarkStatus DEF TypeOK
    <3>2. "failed" \in Status /\ seenJob[s] \in JobRow
      BY DEF Status, TypeOK
    <3>3. QED
      BY <1>15, <3>1, <3>2 DEF FailSegment, TypeOK, JobRow
  <2>2. QED
    BY <1>15, <2>1 DEF TypeOK, FailSegment, Goto, copies
<1>16. ASSUME NEW s \in Segment, FailSegmentAborts(s) \/ Crash(s) PROVE TypeOK'
  BY <1>16 DEF TypeOK, FailSegmentAborts, Crash, Goto, rows, copies
<1>17. CASE Downstream
  BY <1>17, MarkStatus DEF TypeOK, Downstream, copies
<1>18. CASE UNCHANGED vars
  BY <1>18 DEF TypeOK, vars, rows, copies
<1>19. QED
  BY <1>1, <1>2, <1>3, <1>4, <1>5, <1>6, <1>7, <1>8, <1>9, <1>10, <1>11, <1>12, <1>13,
     <1>14, <1>15, <1>16, <1>17, <1>18 DEF Next, Handle

LEMMA TypeInit == Init => TypeOK
<1> SUFFICES ASSUME Init PROVE TypeOK
  OBVIOUS
<1> USE DEF Init
<1>1. job \in JobRow /\ seenJob \in [Segment -> JobRow]
  BY DEF JobRow, Status
<1>2. tries \in [Segment -> 0 .. MaxRetries]
  BY FrameExtractionAssumption
<1>3. QED
  BY <1>1, <1>2 DEF TypeOK, Status

\* Every row, copy and place of a handler stays in its type.
THEOREM ExtractionTypeCorrect == Spec => []TypeOK
BY TypeInit, TypeStep, PTL DEF Spec

--------------------------------------------------------------------------------
(* The frame job and its counter *)

LEMMA FinishedFacts ==
  ASSUME TypeOK
  PROVE  /\ IsFiniteSet(Finished)
         /\ Cardinality(Finished) \in Nat /\ Expected \in Nat
         /\ Cardinality(Finished) =< Expected
         /\ Cardinality(Finished) >= Expected <=> Finished = Segment
<1>1. Finished \subseteq Segment /\ IsFiniteSet(Segment)
  BY FrameExtractionAssumption DEF Finished
<1>2. /\ IsFiniteSet(Finished)
      /\ Cardinality(Finished) =< Expected
      /\ Cardinality(Finished) = Expected => Finished = Segment
  BY <1>1, FS_Subset DEF Expected
<1>3. Cardinality(Finished) \in Nat /\ Expected \in Nat
  BY <1>1, <1>2, FS_CardinalityType DEF Expected
<1>4. QED
  BY <1>2, <1>3 DEF Expected

\* A segment that becomes finished counts for one.
LEMMA FinishOne ==
  ASSUME TypeOK, NEW s \in Segment, segment[s] # "success",
         segment' = [segment EXCEPT ![s] = "success"]
  PROVE  Finished' = Finished \cup {s} /\ Cardinality(Finished') = Cardinality(Finished) + 1
<1>1. Finished' = Finished \cup {s} /\ s \notin Finished
  BY DEF Finished, TypeOK
<1>2. QED
  BY <1>1, FinishedFacts, FS_AddElement

LEMMA ProcessingOutcomes ==
  /\ MarkFramesReady("processing").ok
  /\ MarkFramesReady("processing").status = "processing"
  /\ MarkFramesReady("processing").emits = TRUE
  /\ MarkExtractionFailed("processing").ok
  /\ MarkExtractionFailed("processing").status = "failed"
BY DEF MarkFramesReady, MarkExtractionFailed, Transition

\* A step that moves a handler on, off or round again, and leaves the rows and the
\* copies that decide about the job.
LEMMA QuietStep ==
  ASSUME CountInv, TypeOK', NEW s \in Segment, NEW place,
         UNCHANGED <<video, job, segment, extracted, seenVideo, seenJob>>,
         \/ pc' = pc
         \/ /\ pc' = [pc EXCEPT ![s] = place]
            /\ pc[s] # "dead"
            /\ place \in {"start", "extract", "complete", "fail"} => Past(s)
            /\ place # "finalize"
  PROVE  CountInv'
<1>1. StatusInv'
  BY DEF CountInv, StatusInv
<1>2. WorkingInv'
  BY DEF CountInv, WorkingInv, Past, TypeOK
<1>3. CounterInv'
  <2>1. Finished' = Finished
    BY DEF Finished
  <2>2. \A t \in Segment : segment[t] = "failed" /\ pc[t] = "dead" =>
                           segment'[t] = "failed" /\ pc'[t] = "dead"
    BY DEF CountInv, TypeOK
  <2>3. QED
    BY <2>1, <2>2 DEF CountInv, CounterInv, CounterIsExact, AnnouncedOnce, SegmentsComplete,
                      Expected
<1>4. QED
  BY <1>1, <1>2, <1>3 DEF CountInv

\* A segment in the hands of a handler past its checks is not finished, and so
\* neither is the job.
LEMMA PastUndecided ==
  ASSUME CountInv, NEW s \in Segment, Past(s)
  PROVE  s \notin Finished /\ job.status # "success" /\ extracted = 0
BY DEF CountInv, WorkingInv, CounterInv, Finished, AnnouncedOnce

\* The transaction of completeSegment: it counts a segment that was not counted,
\* and the last one finishes the job.
LEMMA CompleteCases ==
  ASSUME CountInv, NEW s \in Segment, pc[s] = "complete", CompleteRows(s)
  PROVE  /\ Finished' = Finished \cup {s}
         /\ Cardinality(Finished') = Cardinality(Finished) + 1
         /\ segment' = [segment EXCEPT ![s] = "success"]
         /\ job'.completed = job.completed + 1
         /\ video' = "processing"
         /\ \/ /\ job.status = "pending" /\ Finished' = Segment
               /\ job'.status = "success" /\ extracted' = 1
            \/ /\ Finished' # Segment
               /\ job'.status = job.status /\ extracted' = extracted
<1> DEFINE current == [status |-> seenJob[s].status, completed |-> job.completed + 1]
<1>1. /\ segment[s] # "success" /\ seenJob[s].status # "success"
      /\ seenVideo[s] = "processing"
  BY DEF CountInv, WorkingInv, StatusInv, Past
<1>2. job.status \in {"pending", "failed"} /\ extracted = 0 /\ job.completed \in Nat
  BY PastUndecided DEF Past, CountInv, StatusInv, TypeOK, JobRow
<1>3. segment' = [segment EXCEPT ![s] = "success"]
  BY DEF CompleteRows
<1>4. Finished' = Finished \cup {s} /\ Cardinality(Finished') = Cardinality(Finished) + 1
  BY <1>1, <1>3, FinishOne DEF CountInv
<1>5. /\ Finished' \subseteq Segment
      /\ Cardinality(Finished') =< Expected
      /\ Cardinality(Finished') >= Expected <=> Finished' = Segment
      /\ Cardinality(Finished) \in Nat /\ Expected \in Nat
  <2>1. Finished' \subseteq Segment /\ IsFiniteSet(Segment)
    BY FrameExtractionAssumption DEF Finished
  <2>2. QED
    BY <1>4, <2>1, FS_Subset, FinishedFacts DEF Expected, CountInv
<1>6. IF SegmentsComplete(current)
      THEN Finalize(s, current)
      ELSE /\ job' = [job EXCEPT !.completed = current.completed]
           /\ video' = seenVideo[s]
           /\ UNCHANGED extracted
  BY <1>1 DEF CompleteRows
<1>7. CASE job.status = "pending"
  <2>1. job.completed = Cardinality(Finished)
    BY <1>7 DEF CountInv, CounterInv, CounterIsExact
  <2>2. SegmentsComplete(current) <=> Finished' = Segment
    BY <1>4, <1>5, <2>1 DEF SegmentsComplete
  <2>3. CASE Finished' = Segment
    <3>1. Finalize(s, current)
      BY <1>6, <2>2, <2>3
    <3>2. /\ job' = [status |-> "success", completed |-> job.completed + 1]
          /\ video' = "processing" /\ extracted' = extracted + 1
      BY <1>1, <3>1, ProcessingOutcomes DEF Finalize
    <3>3. QED
      BY <1>2, <1>3, <1>4, <1>7, <2>3, <3>2
  <2>4. CASE Finished' # Segment
    BY <1>1, <1>2, <1>3, <1>4, <1>6, <2>2, <2>4 DEF CountInv, TypeOK, JobRow
  <2>5. QED
    BY <2>3, <2>4
<1>8. CASE job.status = "failed"
  <2>1. PICK t \in Segment : segment[t] = "failed" /\ pc[t] = "dead"
    BY <1>8 DEF CountInv, CounterInv
  <2>2. t \notin Finished'
    BY <1>4, <2>1 DEF Finished
  <2>3. Finished' # Segment
    BY <2>2
  <2>4. ~SegmentsComplete(current)
    <3>1. job.completed =< Cardinality(Finished)
      BY DEF CountInv, CounterInv
    <3>2. ~(Cardinality(Finished) + 1 >= Expected)
      BY <1>4, <1>5, <2>3
    <3>3. QED
      BY <1>2, <1>5, <3>1, <3>2 DEF SegmentsComplete
  <2>5. QED
    BY <1>1, <1>2, <1>3, <1>4, <1>6, <2>3, <2>4 DEF CountInv, TypeOK, JobRow
<1>9. QED
  BY <1>2, <1>7, <1>8

\* The transaction of failSegment ends an undecided job, with a count that is too low.
LEMMA FailCases ==
  ASSUME CountInv, NEW s \in Segment, FailSegment(s)
  PROVE  /\ pc[s] = "fail" /\ pc' = [pc EXCEPT ![s] = "dead"]
         /\ segment' = [segment EXCEPT ![s] = "failed"]
         /\ job' = [seenJob[s] EXCEPT !.status = "failed"]
         /\ video' = "failed"
         /\ Finished' = Finished
         /\ job.status # "success"
<1>1. pc[s] = "fail" /\ Past(s) /\ seenVideo[s] = "processing"
  BY DEF FailSegment, CountInv, WorkingInv, StatusInv, Past
<1>2. /\ segment' = [segment EXCEPT ![s] = "failed"]
      /\ job' = [seenJob[s] EXCEPT !.status = "failed"]
      /\ video' = "failed" /\ pc' = [pc EXCEPT ![s] = "dead"]
  BY <1>1, ProcessingOutcomes DEF FailSegment, Goto
<1>3. s \notin Finished /\ job.status # "success"
  BY <1>1, PastUndecided
<1>4. Finished' = Finished
  BY <1>2, <1>3 DEF Finished, CountInv, TypeOK
<1>5. QED
  BY <1>1, <1>2, <1>3, <1>4

\* maybeFinalize has nothing left to do.
LEMMA NothingToFinalize ==
  ASSUME CountInv, NEW s \in Segment, MaybeFinalize(s)
  PROVE  /\ UNCHANGED <<rows, objects, tries, copies, progress>>
         /\ pc[s] = "finalize" /\ pc' = [pc EXCEPT ![s] = "done"]
BY DEF MaybeFinalize, CountInv, CounterInv, Goto

LEMMA CountInit == Init => CountInv
<1> SUFFICES ASSUME Init PROVE CountInv
  OBVIOUS
<1>1. TypeOK
  BY TypeInit
<1>2. Finished = {} /\ Cardinality(Finished) = 0 /\ Expected \in Nat /\ Expected # 0
  <2>1. Finished = {}
    BY DEF Init, Finished
  <2>2. QED
    BY <1>1, <2>1, FS_EmptySet, FinishedFacts, FrameExtractionAssumption
<1>3. StatusInv /\ WorkingInv
  BY DEF Init, StatusInv, WorkingInv, Past
<1>4. CounterInv
  BY <1>2, FrameExtractionAssumption
     DEF Init, CounterInv, CounterIsExact, AnnouncedOnce, SegmentsComplete
<1>5. QED
  BY <1>1, <1>3, <1>4 DEF CountInv

LEMMA CountStep == CountInv /\ [Next]_vars => CountInv'
<1> SUFFICES ASSUME CountInv, [Next]_vars PROVE CountInv'
  OBVIOUS
<1>0. TypeOK /\ TypeOK'
  BY TypeStep DEF CountInv
<1>1. ASSUME NEW s \in Segment, LoadVideo(s) PROVE CountInv'
  <2>1. StatusInv' /\ WorkingInv'
    BY <1>0, <1>1 DEF CountInv, StatusInv, WorkingInv, Past, LoadVideo, Goto, TypeOK, rows
  <2>2. Finished' = Finished
    BY <1>1 DEF LoadVideo, Finished, rows
  <2>3. CounterInv'
    BY <1>0, <1>1, <2>2 DEF CountInv, CounterInv, CounterIsExact, AnnouncedOnce,
       SegmentsComplete, Expected, LoadVideo, Goto, TypeOK, rows
  <2>4. QED
    BY <1>0, <2>1, <2>3 DEF CountInv
<1>2. ASSUME NEW s \in Segment, LoadJob(s) PROVE CountInv'
  <2>1. StatusInv' /\ WorkingInv'
    BY <1>0, <1>2 DEF CountInv, StatusInv, WorkingInv, Past, LoadJob, Goto, TypeOK, rows
  <2>2. Finished' = Finished
    BY <1>2 DEF LoadJob, Finished, rows
  <2>3. SegmentsComplete(job) => job.status = "success"
    BY <1>0, FinishedFacts DEF CountInv, CounterInv, SegmentsComplete, TypeOK, JobRow
  <2>4. seenJob' = [seenJob EXCEPT ![s] = job]
    BY <1>2 DEF LoadJob
  <2>5. \A t \in Segment : /\ seenJob'[t].completed =< Cardinality(Finished)
                           /\ SegmentsComplete(seenJob'[t]) => seenJob'[t].status = "success"
    BY <1>0, <2>3, <2>4 DEF CountInv, CounterInv, TypeOK
  <2>6. CounterInv'
    BY <1>0, <1>2, <2>2, <2>5 DEF CountInv, CounterInv, CounterIsExact, AnnouncedOnce,
       SegmentsComplete, Expected, LoadJob, Goto, TypeOK, rows
  <2>7. QED
    BY <1>0, <2>1, <2>6 DEF CountInv
<1>3. ASSUME NEW s \in Segment, LoadSegment(s) PROVE CountInv'
  <2>1. StatusInv'
    BY <1>3 DEF CountInv, StatusInv, LoadSegment, rows, copies
  <2>2. WorkingInv'
    BY <1>0, <1>3 DEF CountInv, WorkingInv, Past, LoadSegment, Dropped, Goto, TypeOK, rows,
       copies
  <2>3. Finished' = Finished
    BY <1>3 DEF LoadSegment, Finished, rows
  <2>4. \A t \in Segment : pc[t] = "dead" => pc'[t] = "dead"
    BY <1>0, <1>3 DEF LoadSegment, Goto, TypeOK
  <2>5. CounterInv'
    BY <1>3, <2>3, <2>4 DEF CountInv, CounterInv, CounterIsExact, AnnouncedOnce,
       SegmentsComplete, Expected, LoadSegment, rows, copies
  <2>6. QED
    BY <1>0, <2>1, <2>2, <2>5 DEF CountInv
<1>4. ASSUME NEW s \in Segment, StartSegment(s) PROVE CountInv'
  <2>1. StatusInv' /\ WorkingInv'
    BY <1>0, <1>4 DEF CountInv, StatusInv, WorkingInv, Past, StartSegment, Goto, TypeOK
  <2>2. Finished' = Finished
    BY <1>0, <1>4 DEF CountInv, WorkingInv, Past, StartSegment, Finished, TypeOK
  <2>3. \A t \in Segment : segment[t] = "failed" /\ pc[t] = "dead" =>
                           segment'[t] = "failed" /\ pc'[t] = "dead"
    BY <1>0, <1>4 DEF StartSegment, Goto, TypeOK
  <2>4. CounterInv'
    BY <1>4, <2>2, <2>3 DEF CountInv, CounterInv, CounterIsExact, AnnouncedOnce,
       SegmentsComplete, Expected, StartSegment
  <2>5. QED
    BY <1>0, <2>1, <2>4 DEF CountInv
<1>5. ASSUME NEW s \in Segment,
             \/ \E f \in Frame : StoreFrame(s, f) \/ RequestOCR(s, f)
             \/ LookUpOCRJob(s) \/ CreateOCRJob(s)
      PROVE  CountInv'
  BY <1>0, <1>5, QuietStep
     DEF StoreFrame, RequestOCR, LookUpOCRJob, CreateOCRJob, rows, copies
<1>6. ASSUME NEW s \in Segment, OCRJobConflict(s) \/ AttemptFails(s) PROVE CountInv'
  <2>1. pc[s] # "dead" /\ (pc' = [pc EXCEPT ![s] = "queued"] \/ pc' = [pc EXCEPT ![s] = "dead"])
    BY <1>0, <1>6, RetryType DEF OCRJobConflict, AttemptFails
  <2>2. UNCHANGED <<video, job, segment, extracted, seenVideo, seenJob>>
    BY <1>6 DEF OCRJobConflict, AttemptFails, rows, copies
  <2>3. QED
    BY <1>0, <2>1, <2>2, QuietStep
<1>7. ASSUME NEW s \in Segment, ExtractEnds(s) \/ ExtractUnreadable(s) PROVE CountInv'
  <2>1. Past(s) /\ pc[s] # "dead"
    BY <1>7 DEF ExtractEnds, ExtractUnreadable, Past
  <2>2. pc' = [pc EXCEPT ![s] = "complete"] \/ pc' = [pc EXCEPT ![s] = "fail"]
    BY <1>7 DEF ExtractEnds, ExtractUnreadable, Goto
  <2>3. UNCHANGED <<video, job, segment, extracted, seenVideo, seenJob>>
    BY <1>7 DEF ExtractEnds, ExtractUnreadable, rows, copies
  <2>4. QED
    BY <1>0, <2>1, <2>2, <2>3, QuietStep
<1>8. ASSUME NEW s \in Segment, CompleteSegment(s) PROVE CountInv'
  <2>1. /\ pc[s] = "complete" /\ CompleteRows(s)
        /\ UNCHANGED <<seenVideo, seenJob>>
    BY <1>8 DEF CompleteSegment, copies
  <2>2. \E place \in {"cleanup", "cleanup_all", "queued", "dead"} : pc' = [pc EXCEPT ![s] = place]
    BY <1>0, <1>8, RetryType DEF CompleteSegment, Goto
  <2>3. StatusInv'
    BY <2>1, CompleteCases DEF CountInv, StatusInv
  <2>4. WorkingInv'
    BY <1>0, <2>1, <2>2, CompleteCases DEF CountInv, WorkingInv, Past, TypeOK
  <2>5. \A t \in Segment : segment[t] = "failed" /\ pc[t] = "dead" =>
                           segment'[t] = "failed" /\ pc'[t] = "dead"
    <3>1. segment' = [segment EXCEPT ![s] = "success"]
      BY <2>1, CompleteCases
    <3>2. QED
      BY <1>0, <2>1, <2>2, <3>1 DEF TypeOK
  <2>6. CounterIsExact' /\ AnnouncedOnce'
    BY <2>1, CompleteCases DEF CountInv, StatusInv, CounterInv, CounterIsExact, AnnouncedOnce
  <2>7. /\ job'.completed =< Cardinality(Finished')
        /\ \A t \in Segment : seenJob'[t].completed =< Cardinality(Finished')
    BY <1>0, <2>1, CompleteCases, FinishedFacts DEF CountInv, CounterInv, TypeOK, JobRow
  <2>8. /\ job'.status = "failed" => \E t \in Segment : segment'[t] = "failed" /\ pc'[t] = "dead"
        /\ job'.status = "success" <=> Finished' = Segment
    BY <2>1, <2>5, CompleteCases, PastUndecided DEF CountInv, CounterInv, Past
  <2>9. CounterInv'
    BY <2>1, <2>6, <2>7, <2>8 DEF CountInv, CounterInv, SegmentsComplete, Expected
  <2>10. QED
    BY <1>0, <2>3, <2>4, <2>9 DEF CountInv
<1>9. ASSUME NEW s \in Segment, CleanUp(s) \/ FailSegmentAborts(s) \/ Crash(s) PROVE CountInv'
  <2>1. pc[s] # "dead" /\ (pc' = [pc EXCEPT ![s] = "done"] \/ pc' = [pc EXCEPT ![s] = "dead"])
    BY <1>9 DEF CleanUp, FailSegmentAborts, Crash, Goto
  <2>2. UNCHANGED <<video, job, segment, extracted, seenVideo, seenJob>>
    BY <1>9 DEF CleanUp, FailSegmentAborts, Crash, rows, copies
  <2>3. QED
    BY <1>0, <2>1, <2>2, QuietStep
<1>10. ASSUME NEW s \in Segment, MaybeFinalize(s) PROVE CountInv'
  BY <1>0, <1>10, NothingToFinalize, QuietStep DEF rows, copies
<1>11. ASSUME NEW s \in Segment, FailSegment(s) PROVE CountInv'
  <2>1. UNCHANGED <<extracted, seenVideo, seenJob>>
    BY <1>11 DEF FailSegment, copies
  <2>2. job'.status = "failed" /\ job'.completed = seenJob[s].completed
    BY <1>0, <1>11, FailCases DEF TypeOK, JobRow
  <2>3. StatusInv'
    BY <1>11, <2>1, <2>2, FailCases DEF CountInv, StatusInv
  <2>4. WorkingInv'
    BY <1>0, <1>11, <2>1, FailCases DEF CountInv, WorkingInv, Past, TypeOK
  <2>5. \E t \in Segment : segment'[t] = "failed" /\ pc'[t] = "dead"
    BY <1>0, <1>11, FailCases DEF TypeOK
  <2>6. Finished # Segment
    BY <1>11, FailCases DEF CountInv, CounterInv
  <2>7. CounterInv'
    BY <1>11, <2>1, <2>2, <2>5, <2>6, FailCases
       DEF CountInv, CounterInv, CounterIsExact, AnnouncedOnce, SegmentsComplete, Expected
  <2>8. QED
    BY <1>0, <2>3, <2>4, <2>7 DEF CountInv
<1>12. CASE Downstream
  <2>1. video' \in {"processing", "failed"}
    BY <1>12 DEF Downstream, CountInv, StatusInv, MarkOCRFailed, MarkOCRProcessing, Transition
  <2>2. Finished' = Finished
    BY <1>12 DEF Downstream, Finished
  <2>3. QED
    BY <1>0, <1>12, <2>1, <2>2 DEF Downstream, CountInv, StatusInv, WorkingInv, Past,
       CounterInv, CounterIsExact, AnnouncedOnce, SegmentsComplete, Expected, copies
<1>13. CASE UNCHANGED vars
  BY <1>0, <1>13, QuietStep, FrameExtractionAssumption DEF vars, rows, copies
<1>14. QED
  BY <1>1, <1>2, <1>3, <1>4, <1>5, <1>6, <1>7, <1>8, <1>9, <1>10, <1>11, <1>12, <1>13
     DEF Next, Handle

LEMMA CountAlways == Spec => []CountInv
BY CountInit, CountStep, PTL DEF Spec

\* The counter of an undecided or successful job is the number of finished segments,
\* however the transactions of completeSegment interleave or repeat.
THEOREM CounterIsExactTheorem == Spec => []CounterIsExact
<1>1. CountInv => CounterIsExact
  BY DEF CountInv, CounterInv
<1>2. QED
  BY <1>1, CountAlways, PTL

\* VideoFramesExtracted is stored once, by whoever finishes the job.
THEOREM AnnouncedOnceTheorem == Spec => []AnnouncedOnce
<1>1. CountInv => AnnouncedOnce
  BY DEF CountInv, CounterInv
<1>2. QED
  BY <1>1, CountAlways, PTL

\* A complete count is never left without its conclusion.
THEOREM CompleteIsConcludedTheorem == Spec => []CompleteIsConcluded
<1>1. CountInv => CompleteIsConcluded
  <2>1. CountInv /\ SegmentsComplete(job) => job.status = "success"
    BY FinishedFacts DEF CountInv, CounterInv, SegmentsComplete, TypeOK, JobRow
  <2>2. QED
    BY <2>1 DEF CompleteIsConcluded
<1>2. QED
  BY <1>1, CountAlways, PTL

\* No stale copy of the job that a handler writes back undoes what was decided.
LEMMA DecidedStep ==
  CountInv /\ [Next]_vars =>
    (job.status \in {"success", "failed"} => job'.status = job.status)
<1> SUFFICES ASSUME CountInv, [Next]_vars, job.status \in {"success", "failed"}
             PROVE  job'.status = job.status
  OBVIOUS
<1>1. ASSUME NEW s \in Segment, CompleteSegment(s) PROVE job'.status = job.status
  BY <1>1, CompleteCases DEF CompleteSegment
<1>2. ASSUME NEW s \in Segment, FailSegment(s) PROVE job'.status = job.status
  <2>1. job.status = "failed" /\ job' = [seenJob[s] EXCEPT !.status = "failed"]
    BY <1>2, FailCases
  <2>2. seenJob[s] \in JobRow
    BY DEF CountInv, TypeOK
  <2>3. QED
    BY <2>1, <2>2 DEF JobRow
<1>3. ASSUME NEW s \in Segment, MaybeFinalize(s) PROVE job'.status = job.status
  BY <1>3, NothingToFinalize DEF rows
<1>4. ASSUME NEW s \in Segment, Handle(s) \/ Crash(s),
             ~CompleteSegment(s), ~FailSegment(s), ~MaybeFinalize(s)
      PROVE  job' = job
  BY <1>4 DEF Handle, Crash, LoadVideo, LoadJob, LoadSegment, StartSegment, StoreFrame,
     RequestOCR, LookUpOCRJob, CreateOCRJob, OCRJobConflict, ExtractEnds, ExtractUnreadable,
     AttemptFails, CleanUp, FailSegmentAborts, rows
<1>5. CASE Downstream \/ UNCHANGED vars
  BY <1>5 DEF Downstream, vars, rows
<1>6. QED
  BY <1>1, <1>2, <1>3, <1>4, <1>5 DEF Next

\* Success and failure of the frame job are final, though handlers write back whole rows
\* they read long before (completeSegment, failSegment).
THEOREM JobDecidedOnceTheorem == Spec => JobDecidedOnce
<1>1. CountInv /\ [Next]_vars =>
        [job.status \in {"success", "failed"} => job'.status = job.status]_vars
  BY DecidedStep
<1>2. QED
  BY <1>1, CountAlways, PTL DEF Spec, JobDecidedOnce

--------------------------------------------------------------------------------
(* The slices in the object storage *)

\* A finished segment stays finished, whatever handler runs over it again.
LEMMA FinishedStays == CountInv /\ [Next]_vars => Finished \subseteq Finished'
<1> SUFFICES ASSUME CountInv, [Next]_vars, NEW t \in Finished PROVE t \in Finished'
  OBVIOUS
<1>0. TypeOK
  BY DEF CountInv
<1>1. ASSUME NEW s \in Segment, CompleteSegment(s) PROVE t \in Finished'
  BY <1>1, CompleteCases DEF CompleteSegment
<1>2. ASSUME NEW s \in Segment, FailSegment(s) PROVE t \in Finished'
  BY <1>2, FailCases
<1>3. ASSUME NEW s \in Segment, StartSegment(s) PROVE t \in Finished'
  <2>1. t # s
    BY <1>3, PastUndecided DEF StartSegment, Past
  <2>2. QED
    BY <1>0, <1>3, <2>1 DEF StartSegment, Finished, TypeOK
<1>4. ASSUME NEW s \in Segment, MaybeFinalize(s) PROVE t \in Finished'
  BY <1>4, NothingToFinalize DEF Finished, rows
<1>5. ASSUME NEW s \in Segment, Handle(s) \/ Crash(s),
             ~CompleteSegment(s), ~FailSegment(s), ~StartSegment(s), ~MaybeFinalize(s)
      PROVE  segment' = segment
  BY <1>5 DEF Handle, Crash, LoadVideo, LoadJob, LoadSegment, StoreFrame,
     RequestOCR, LookUpOCRJob, CreateOCRJob, OCRJobConflict, ExtractEnds, ExtractUnreadable,
     AttemptFails, CleanUp, FailSegmentAborts, rows
<1>6. CASE Downstream \/ UNCHANGED vars
  BY <1>6 DEF Downstream, vars, rows, Finished
<1>7. QED
  BY <1>1, <1>2, <1>3, <1>4, <1>5, <1>6 DEF Next, Finished

\* A slice goes only after its segment: who deletes its own has finished it, who
\* deletes them all has seen them all finished.
SliceInv ==
  /\ \A s \in Segment : segment[s] # "success" => s \in objects
  /\ \A s \in Segment : pc[s] = "cleanup" => s \in Finished
  /\ \A s \in Segment : pc[s] = "cleanup_all" => Finished = Segment

LEMMA SliceInit == Init => SliceInv
BY DEF Init, SliceInv

LEMMA SliceStep == CountInv /\ SliceInv /\ [Next]_vars => SliceInv'
<1> SUFFICES ASSUME CountInv, SliceInv, [Next]_vars PROVE SliceInv'
  OBVIOUS
<1>0. TypeOK /\ TypeOK' /\ CountInv' /\ Finished \subseteq Finished' /\ Finished' \subseteq Segment
  BY TypeStep, CountStep, FinishedStays DEF CountInv, Finished
<1>1. ASSUME NEW s \in Segment, CompleteSegment(s) PROVE SliceInv'
  <2>1. pc[s] = "complete" /\ CompleteRows(s) /\ objects' = objects
    BY <1>1 DEF CompleteSegment
  <2>2. Finished' = Finished \cup {s}
    BY <2>1, CompleteCases
  <2>3. ASSUME job'.completed >= Expected PROVE Finished' = Segment
    <3>1. job'.completed =< Cardinality(Finished)'
      BY <1>0 DEF CountInv, CounterInv
    <3>2. Cardinality(Finished)' \in Nat /\ Expected \in Nat /\ Expected' = Expected
      BY <1>0, FinishedFacts, FS_CardinalityType, FS_Subset, FrameExtractionAssumption
         DEF Expected
    <3>3. Cardinality(Finished)' >= Expected => Finished' = Segment
      <4>1. Finished' # Segment => Cardinality(Finished') < Cardinality(Segment)
        BY <1>0, FS_Subset, FS_CardinalityType, FrameExtractionAssumption
      <4>2. QED
        BY <3>2, <4>1 DEF Expected
    <3>4. QED
      BY <1>0, <2>3, <3>1, <3>2, <3>3 DEF TypeOK, JobRow
  <2>4. \/ pc' = [pc EXCEPT ![s] = "cleanup_all"] /\ job'.completed >= Expected
        \/ \E place \in {"cleanup", "queued", "dead"} : pc' = [pc EXCEPT ![s] = place]
    BY <1>0, <1>1, RetryType DEF CompleteSegment, Goto
  <2>5. \A t \in Segment : segment'[t] # "success" => t \in objects'
    BY <1>0, <2>1, <2>2 DEF SliceInv, Finished
  <2>6. QED
    BY <1>0, <2>2, <2>3, <2>4, <2>5 DEF SliceInv, TypeOK
<1>2. ASSUME NEW s \in Segment, CleanUp(s) PROVE SliceInv'
  <2>1. Finished' = Finished /\ segment' = segment /\ pc' = [pc EXCEPT ![s] = "done"]
    BY <1>2 DEF CleanUp, Goto, rows, Finished
  <2>2. objects \ objects' \subseteq Finished
    <3>1. PICK gone \in SUBSET (IF pc[s] = "cleanup" THEN {s} ELSE Segment) :
            objects' = objects \ gone
      BY <1>2 DEF CleanUp
    <3>2. gone \subseteq Finished
      BY <1>2 DEF CleanUp, SliceInv
    <3>3. QED
      BY <3>1, <3>2
  <2>3. QED
    BY <1>0, <2>1, <2>2 DEF SliceInv, Finished, TypeOK
<1>3. ASSUME NEW s \in Segment, MaybeFinalize(s) PROVE SliceInv'
  BY <1>0, <1>3, NothingToFinalize DEF SliceInv, Finished, TypeOK, rows
<1>4. ASSUME NEW s \in Segment, StartSegment(s) \/ FailSegment(s) PROVE SliceInv'
  <2>1. Past(s)
    BY <1>4 DEF StartSegment, FailSegment, Past
  <2>2. segment[s] # "success" /\ objects' = objects
    BY <1>4, <2>1 DEF CountInv, WorkingInv, StartSegment, FailSegment
  <2>3. /\ pc' = [pc EXCEPT ![s] = "extract"] \/ pc' = [pc EXCEPT ![s] = "dead"]
        /\ \A t \in Segment \ {s} : segment'[t] = segment[t]
    BY <1>0, <1>4, FailCases DEF StartSegment, Goto, TypeOK
  <2>4. \A t \in Segment : segment'[t] # "success" => t \in objects'
    BY <2>2, <2>3 DEF SliceInv
  <2>5. Finished # Segment
    BY <2>2 DEF Finished
  <2>6. \A t \in Segment : pc'[t] \in {"cleanup", "cleanup_all"} => pc'[t] = pc[t]
    BY <1>0, <2>3 DEF TypeOK
  <2>7. QED
    BY <1>0, <2>4, <2>5, <2>6 DEF SliceInv
<1>5. ASSUME NEW s \in Segment, Handle(s) \/ Crash(s), ~CompleteSegment(s), ~CleanUp(s),
             ~MaybeFinalize(s), ~StartSegment(s), ~FailSegment(s)
      PROVE  SliceInv'
  <2>1. UNCHANGED <<segment, objects>>
    BY <1>5 DEF Handle, Crash, LoadVideo, LoadJob, LoadSegment, StoreFrame,
       RequestOCR, LookUpOCRJob, CreateOCRJob, OCRJobConflict, ExtractEnds, ExtractUnreadable,
       AttemptFails, FailSegmentAborts, rows
  <2>2. \A t \in Segment : pc'[t] \in {"cleanup", "cleanup_all"} => pc'[t] = pc[t]
    BY <1>0, <1>5, RetryType DEF Handle, Crash, LoadVideo, LoadJob, LoadSegment, StoreFrame,
       RequestOCR, LookUpOCRJob, CreateOCRJob, OCRJobConflict, ExtractEnds, ExtractUnreadable,
       AttemptFails, FailSegmentAborts, Goto, TypeOK
  <2>3. QED
    BY <2>1, <2>2 DEF SliceInv, Finished
<1>6. CASE Downstream \/ UNCHANGED vars
  BY <1>6 DEF Downstream, vars, rows, SliceInv, Finished
<1>7. QED
  BY <1>1, <1>2, <1>3, <1>4, <1>5, <1>6 DEF Next

\* No attempt looks for a slice that was already deleted: completeSegment deletes its
\* own, the last one deletes them all, and nobody is then at work on one.
THEOREM SliceStillThereTheorem == Spec => []SliceStillThere
<1>1. CountInv /\ SliceInv => SliceStillThere
  BY DEF CountInv, WorkingInv, Past, SliceInv, SliceStillThere
<1>2. CountInv /\ SliceInv /\ [Next]_vars => SliceInv'
  BY SliceStep
<1>3. QED
  BY <1>1, <1>2, SliceInit, CountAlways, PTL DEF Spec

--------------------------------------------------------------------------------
(* The frames behind a finished segment, when no truncated extraction is taken *)
(* for a complete one                                                          *)

LEMMA DataInit == Init => DataInv
BY DEF Init, DataInv, Finished, FramesOf

LEMMA DataStep ==
  ASSUME "truncated" \notin Faults
  PROVE  CountInv /\ DataInv /\ [Next]_vars => DataInv'
<1> SUFFICES ASSUME CountInv, DataInv, [Next]_vars PROVE DataInv'
  OBVIOUS
<1>0. TypeOK
  BY DEF CountInv
<1> USE DEF FramesOf
<1>1. ASSUME NEW s \in Segment,
             LoadVideo(s) \/ LoadJob(s) \/ LoadSegment(s) \/ CleanUp(s)
               \/ FailSegmentAborts(s) \/ Crash(s) \/ ExtractUnreadable(s)
      PROVE  DataInv'
  <2>1. \A t \in Segment : pc'[t] = "complete" => pc[t] = "complete"
    BY <1>0, <1>1 DEF LoadVideo, LoadJob, LoadSegment, CleanUp, FailSegmentAborts, Crash,
       ExtractUnreadable, Goto, TypeOK
  <2>2. UNCHANGED <<segment, frames, ocrJob, requested, seenOCRJob, progress>>
    BY <1>1 DEF LoadVideo, LoadJob, LoadSegment, CleanUp, FailSegmentAborts, Crash,
       ExtractUnreadable, rows, copies
  <2>3. QED
    BY <2>1, <2>2 DEF DataInv, Finished
<1>2. ASSUME NEW s \in Segment, StartSegment(s) PROVE DataInv'
  <2>1. Finished' = Finished
    BY <1>0, <1>2 DEF CountInv, WorkingInv, Past, StartSegment, Finished, TypeOK
  <2>2. \A t \in Segment : pc'[t] = "complete" => pc[t] = "complete" /\ t # s
    BY <1>0, <1>2 DEF StartSegment, Goto, TypeOK
  <2>3. QED
    BY <1>0, <1>2, <2>1, <2>2 DEF DataInv, StartSegment, TypeOK
<1>3. ASSUME NEW s \in Segment, NEW f \in Frame, StoreFrame(s, f) \/ RequestOCR(s, f)
      PROVE  DataInv'
  BY <1>0, <1>3 DEF DataInv, Finished, StoreFrame, RequestOCR, copies, TypeOK
<1>4. ASSUME NEW s \in Segment, LookUpOCRJob(s) \/ CreateOCRJob(s) PROVE DataInv'
  BY <1>0, <1>4 DEF DataInv, Finished, LookUpOCRJob, CreateOCRJob, rows, TypeOK
<1>5. ASSUME NEW s \in Segment, OCRJobConflict(s) \/ AttemptFails(s) PROVE DataInv'
  <2>1. \A t \in Segment : pc'[t] = "complete" => pc[t] = "complete"
    BY <1>0, <1>5, RetryType DEF OCRJobConflict, AttemptFails, TypeOK
  <2>2. QED
    BY <1>5, <2>1 DEF DataInv, Finished, OCRJobConflict, AttemptFails, rows, copies
<1>6. ASSUME NEW s \in Segment, ExtractEnds(s) PROVE DataInv'
  BY <1>0, <1>6 DEF DataInv, Finished, ExtractEnds, Goto, rows, copies, TypeOK
<1>7. ASSUME NEW s \in Segment, CompleteSegment(s) PROVE DataInv'
  <2>1. /\ pc[s] = "complete" /\ CompleteRows(s)
        /\ UNCHANGED <<frames, requested, seenOCRJob, progress>> /\ ocrJob' = TRUE
    BY <1>7 DEF CompleteSegment, CompleteRows, copies
  <2>2. Finished' = Finished \cup {s}
    BY <2>1, CompleteCases
  <2>3. \A t \in Segment : pc'[t] = "complete" => pc[t] = "complete"
    BY <1>0, <1>7, RetryType DEF CompleteSegment, Goto, TypeOK
  <2>4. QED
    BY <2>1, <2>2, <2>3 DEF DataInv
<1>8. ASSUME NEW s \in Segment, MaybeFinalize(s) PROVE DataInv'
  BY <1>0, <1>8, NothingToFinalize DEF DataInv, Finished, rows, copies, TypeOK
<1>9. ASSUME NEW s \in Segment, FailSegment(s) PROVE DataInv'
  BY <1>0, <1>9, FailCases DEF DataInv, FailSegment, copies, TypeOK
<1>10. CASE Downstream
  BY <1>10 DEF DataInv, Finished, Downstream, copies
<1>11. CASE UNCHANGED vars
  BY <1>11 DEF DataInv, Finished, vars, rows, copies
<1>12. QED
  BY <1>1, <1>2, <1>3, <1>4, <1>5, <1>6, <1>7, <1>8, <1>9, <1>10, <1>11 DEF Next, Handle

LEMMA DataAlways ==
  ASSUME "truncated" \notin Faults
  PROVE  Spec => [](CountInv /\ DataInv)
<1>1. CountInv /\ DataInv /\ [Next]_vars => (CountInv /\ DataInv)'
  BY DataStep, CountStep
<1>2. QED
  BY <1>1, CountInit, DataInit, PTL DEF Spec

\* A successful job has all its segments, and all their frames stored and requested.
LEMMA SuccessHasFrames == CountInv /\ DataInv => SuccessIsComplete
<1> SUFFICES ASSUME CountInv, DataInv, job.status = "success"
             PROVE  Finished = Segment /\ frames = Frame /\ requested = Frame /\ ocrJob
  BY DEF SuccessIsComplete
<1>1. Finished = Segment /\ Segment # {}
  BY FrameExtractionAssumption DEF CountInv, CounterInv
<1>2. \A f \in Frame : f \in FramesOf(SegmentOf[f]) /\ SegmentOf[f] \in Segment
  BY FrameExtractionAssumption DEF FramesOf
<1>3. \A f \in Frame : f \in frames /\ f \in requested
  BY <1>1, <1>2 DEF DataInv
<1>4. QED
  BY <1>1, <1>3 DEF CountInv, TypeOK, DataInv

\* What completeSegment counts are segments whose frames the pool stored and announced,
\* unless ffmpeg stopped early without an error.
THEOREM SuccessIsCompleteTheorem ==
  ASSUME "truncated" \notin Faults
  PROVE  Spec => []SuccessIsComplete
BY DataAlways, SuccessHasFrames, PTL

--------------------------------------------------------------------------------
(* Refinement of ExtractionPhase *)

LEMMA PhaseInit == Init => Abstract!Init
BY DEF Init, Abstract!Init, Phase

\* Announce is the last completeSegment, Fail the first failSegment; nothing else
\* moves the phase, and only a working handler stores a frame.
LEMMA PhaseStep ==
  CountInv /\ SuccessIsComplete' /\ [Next]_vars => [Abstract!Next]_(Abstract!vars)
<1> SUFFICES ASSUME CountInv, SuccessIsComplete', [Next]_vars
             PROVE  [Abstract!Next]_(Abstract!vars)
  OBVIOUS
<1> USE DEF Abstract!Next, Abstract!vars
<1>1. ASSUME NEW s \in Segment, NEW f \in Frame, StoreFrame(s, f)
      PROVE  Abstract!StoreFrame(f)
  <2>1. Phase # "done" /\ Phase' = Phase
    BY <1>1, PastUndecided DEF StoreFrame, Past, Phase, CountInv, StatusInv
  <2>2. QED
    BY <1>1, <2>1 DEF StoreFrame, Abstract!StoreFrame
<1>2. ASSUME NEW s \in Segment, CompleteSegment(s)
      PROVE  Abstract!Announce \/ UNCHANGED <<frames, Phase>>
  <2>1. pc[s] = "complete" /\ CompleteRows(s) /\ frames' = frames
    BY <1>2 DEF CompleteSegment, CompleteRows
  <2>2. CASE job'.status = job.status
    BY <2>1, <2>2 DEF Phase
  <2>3. CASE job'.status # job.status
    <3>1. job.status = "pending" /\ job'.status = "success"
      BY <2>1, <2>3, CompleteCases
    <3>2. frames = Frame
      BY <2>1, <3>1 DEF SuccessIsComplete
    <3>3. QED
      BY <2>1, <3>1, <3>2 DEF Phase, Abstract!Announce
  <2>4. QED
    BY <2>2, <2>3
<1>3. ASSUME NEW s \in Segment, FailSegment(s)
      PROVE  Abstract!Fail \/ UNCHANGED <<frames, Phase>>
  <2>1. job.status # "success" /\ frames' = frames
    BY <1>3, FailCases DEF FailSegment
  <2>2. job'.status = "failed"
    <3>1. job' = [seenJob[s] EXCEPT !.status = "failed"] /\ seenJob[s] \in JobRow
      BY <1>3, FailCases DEF CountInv, TypeOK
    <3>2. QED
      BY <3>1 DEF JobRow
  <2>3. QED
    BY <2>1, <2>2 DEF CountInv, StatusInv, Phase, Abstract!Fail
<1>4. ASSUME NEW s \in Segment, MaybeFinalize(s) PROVE UNCHANGED <<frames, Phase>>
  BY <1>4, NothingToFinalize DEF rows, Phase
<1>5. ASSUME NEW s \in Segment, Handle(s) \/ Crash(s),
             ~CompleteSegment(s), ~FailSegment(s), ~MaybeFinalize(s),
             \A f \in Frame : ~StoreFrame(s, f)
      PROVE  UNCHANGED <<frames, Phase>>
  <2>1. UNCHANGED <<frames, job>>
    BY <1>5 DEF Handle, Crash, LoadVideo, LoadJob, LoadSegment, StartSegment, RequestOCR,
       LookUpOCRJob, CreateOCRJob, OCRJobConflict, ExtractEnds, ExtractUnreadable,
       AttemptFails, CleanUp, FailSegmentAborts, rows
  <2>2. QED
    BY <2>1 DEF Phase
<1>6. CASE Downstream \/ UNCHANGED vars
  BY <1>6 DEF Downstream, vars, rows, Phase
<1>7. QED
  BY <1>1, <1>2, <1>3, <1>4, <1>5, <1>6 DEF Next

\* What the ocr and classify stages see of the extraction is ExtractionPhase.
THEOREM ExtractionImplementsPhase ==
  ASSUME "truncated" \notin Faults
  PROVE  Spec => ImplementsExtractionPhase
<1>1. CountInv /\ DataInv => SuccessIsComplete
  BY SuccessHasFrames
<1>2. QED
  BY <1>1, DataAlways, PhaseInit, PhaseStep, PTL
     DEF Spec, ImplementsExtractionPhase, Abstract!Spec

--------------------------------------------------------------------------------
(* The calls of the handler are such as HandlerOnce allows *)

\* The event of a segment, for the one handler that is called with it.
Call == Segment \X {"extract"}
CallsAt(places) == {k \in Call : pc[k[1]] \in places}
Idle == {"queued", "done", "dead"}
InCall == {k \in Call : pc[k[1]] \notin Idle}

Once == INSTANCE HandlerOnce WITH Event <- Segment, Handler <- {"extract"}, running <- InCall,
                                  done <- CallsAt({"done"}), dropped <- CallsAt({"dead"})

\* Nothing moves a call that returned or was given up, and one begins with its load, or
\* fails before it.
LEMMA CallMoves ==
  ASSUME TypeOK, NEW s \in Segment, Handle(s) \/ Crash(s)
  PROVE  /\ pc' = [pc EXCEPT ![s] = pc'[s]]
         /\ pc[s] \notin {"done", "dead"}
         /\ pc[s] = "queued" => pc'[s] \in {"queued", "video", "dead"}
<1>1. pc = [t \in Segment |-> pc[t]]
  BY DEF TypeOK
<1>2. CASE LoadVideo(s) \/ LoadJob(s) \/ LoadSegment(s) \/ StartSegment(s)
  BY <1>1, <1>2 DEF LoadVideo, LoadJob, LoadSegment, StartSegment, Goto
<1>3. CASE (\E f \in Frame : StoreFrame(s, f) \/ RequestOCR(s, f))
             \/ LookUpOCRJob(s) \/ CreateOCRJob(s)
  <2>1. pc' = pc /\ pc[s] = "extract"
    BY <1>3 DEF StoreFrame, RequestOCR, LookUpOCRJob, CreateOCRJob
  <2>2. QED
    BY <1>1, <2>1
<1>4. CASE OCRJobConflict(s) \/ ExtractEnds(s) \/ ExtractUnreadable(s) \/ AttemptFails(s)
  BY <1>1, <1>4 DEF OCRJobConflict, ExtractEnds, ExtractUnreadable, AttemptFails, Retry, Goto
<1>5. CASE CompleteSegment(s) \/ CleanUp(s) \/ MaybeFinalize(s)
  BY <1>1, <1>5 DEF CompleteSegment, CleanUp, MaybeFinalize, Retry, Goto
<1>6. CASE FailSegment(s) \/ FailSegmentAborts(s) \/ Crash(s)
  BY <1>1, <1>6 DEF FailSegment, FailSegmentAborts, Crash, Goto
<1>7. QED
  BY <1>2, <1>3, <1>4, <1>5, <1>6 DEF Handle

LEMMA CallKeepsPromise ==
  ASSUME TypeOK, NEW s \in Segment, Handle(s) \/ Crash(s)
  PROVE  [Once!Next]_(Once!vars)
<1> DEFINE k == <<s, "extract">>
<1>1. k \in Call /\ k[1] = s /\ \A l \in Call : l # k => l[1] \in Segment \ {s}
  BY DEF Call
<1>2. /\ pc[s] \notin {"done", "dead"}
      /\ pc[s] = "queued" => pc'[s] \in {"queued", "video", "dead"}
      /\ \A t \in Segment \ {s} : pc'[t] = pc[t]
  BY CallMoves DEF TypeOK
<1>3. \A l \in Call : l # k => pc'[l[1]] = pc[l[1]]
  BY <1>1, <1>2
<1>4. k \in Once!Key
  BY <1>1 DEF Once!Key, Call
<1> HIDE DEF k
<1> USE DEF InCall, CallsAt, Idle
<1>5. k \notin CallsAt({"done"}) \cup CallsAt({"dead"}) /\ (k \in InCall <=> pc[s] # "queued")
  BY <1>1, <1>2
<1>6. CASE pc'[s] = "queued"
  <2>1. InCall' = InCall \ {k} /\ UNCHANGED <<CallsAt({"done"}), CallsAt({"dead"})>>
    BY <1>1, <1>2, <1>3, <1>6
  <2>2. CASE k \in InCall
    BY <1>4, <2>1, <2>2 DEF Once!Release, Once!Next
  <2>3. CASE k \notin InCall
    BY <2>1, <2>3 DEF Once!vars
  <2>4. QED
    BY <2>2, <2>3
<1>7. CASE pc'[s] = "done"
  <2>1. /\ k \in InCall
        /\ InCall' = InCall \ {k} /\ CallsAt({"done"})' = CallsAt({"done"}) \cup {k}
        /\ UNCHANGED CallsAt({"dead"})
    BY <1>1, <1>2, <1>3, <1>7
  <2>2. QED
    BY <1>4, <2>1 DEF Once!Finish, Once!Next
<1>8. CASE pc'[s] = "dead"
  <2>1. /\ InCall' = InCall \ {k} /\ CallsAt({"dead"})' = CallsAt({"dead"}) \cup {k}
        /\ UNCHANGED CallsAt({"done"})
    BY <1>1, <1>2, <1>3, <1>8
  <2>2. QED
    BY <1>4, <1>5, <2>1 DEF Once!Drop, Once!Next
<1>9. CASE pc'[s] \notin Idle
  <2>1. InCall' = InCall \cup {k} /\ UNCHANGED <<CallsAt({"done"}), CallsAt({"dead"})>>
    BY <1>1, <1>2, <1>3, <1>9
  <2>2. CASE k \in InCall
    BY <2>1, <2>2 DEF Once!vars
  <2>3. CASE k \notin InCall
    BY <1>4, <1>5, <2>1, <2>3 DEF Once!Claim, Once!Next
  <2>4. QED
    BY <2>2, <2>3
<1>10. QED
  BY <1>6, <1>7, <1>8, <1>9

\* The handler of a segment is called as EventDelivery was shown to call one: attempts do
\* not overlap, and none follows one that returned nil, gave up or died (extract_frames.go).
THEOREM ExtractionImplementsHandlerOnce == Spec => Once!Spec
<1>1. Init => Once!Init
  BY DEF Init, Once!Init, InCall, CallsAt, Idle, Call
<1>2. CountInv /\ [Next]_vars => [Once!Next]_(Once!vars)
  <2> SUFFICES ASSUME CountInv, [Next]_vars PROVE [Once!Next]_(Once!vars)
    OBVIOUS
  <2>1. ASSUME NEW s \in Segment, Handle(s) \/ Crash(s) PROVE [Once!Next]_(Once!vars)
    BY <2>1, CallKeepsPromise DEF CountInv
  <2>2. CASE Downstream \/ UNCHANGED vars
    <3>1. UNCHANGED pc
      BY <2>2 DEF Downstream, vars
    <3>2. QED
      BY <3>1 DEF Once!vars, InCall, CallsAt
  <2>3. QED
    BY <2>1, <2>2 DEF Next
<1>3. QED
  BY CountAlways, <1>1, <1>2, PTL DEF Spec, Once!Spec

--------------------------------------------------------------------------------
(* What the extractor keeps of a slice *)

\* Induction over the candidates, by the least one a claim fails for.
LEMMA LeastNumber ==
  ASSUME NEW T \in SUBSET Nat, T # {}
  PROVE  \E m \in T : \A k \in T : m <= k
<1> DEFINE Below == {0 .. m : m \in T}
<1> DEFINE R == StrictSubsetOrdering(Nat)
<1>1. IsWellFoundedOn(R, FiniteSubsetsOf(Nat))
  BY FS_StrictSubsetOrderingWellFounded
<1>2. Below \subseteq FiniteSubsetsOf(Nat) /\ Below # {}
  <2>1. ASSUME NEW m \in T PROVE 0 .. m \in FiniteSubsetsOf(Nat)
    BY FS_Interval DEF FiniteSubsetsOf
  <2>2. QED
    BY <2>1
<1> HIDE DEF Below, R
<1>3. PICK x \in Below : \A y \in Below : <<y, x>> \notin R
  BY <1>1, <1>2, WFMin
<1> USE DEF Below
<1>4. PICK m \in T : x = 0 .. m
  BY <1>3
<1>5. ASSUME NEW k \in T, k < m PROVE FALSE
  <2>1. 0 .. k \subseteq 0 .. m /\ 0 .. k # 0 .. m /\ 0 .. k \in SUBSET Nat /\ 0 .. m \in SUBSET Nat
    BY <1>5
  <2>2. <<0 .. k, x>> \in R
    BY <1>4, <2>1 DEF StrictSubsetOrdering, R
  <2>3. QED
    BY <1>3, <2>2
<1>6. QED
  BY <1>5

\* The function that begins with base and goes on by step.
Recurses(g, n, S, base, step) ==
  g \in [0 .. n -> S] /\ g[0] = base /\ \A i \in 1 .. n : g[i] = step[i][g[i - 1]]

LEMMA RecursionExists ==
  ASSUME NEW S, NEW base \in S, NEW step \in [Nat -> [S -> S]], NEW n \in Nat
  PROVE  \E g : Recurses(g, n, S, base, step)
<1> USE DEF Recurses
<1> DEFINE Defined(m) == \E g : Recurses(g, m, S, base, step)
           T == {m \in Nat : ~Defined(m)}
<1> HIDE DEF Defined
<1>1. SUFFICES ASSUME T # {} PROVE FALSE
  BY DEF Defined
<1>2. PICK m \in T : \A k \in T : m <= k
  BY <1>1, LeastNumber
<1>3. Defined(0)
  <2> DEFINE g == [i \in 0 .. 0 |-> base]
  <2>1. g \in [0 .. 0 -> S] /\ g[0] = base /\ \A i \in 1 .. 0 : FALSE
    OBVIOUS
  <2> HIDE DEF g
  <2>2. QED
    BY <2>1 DEF Defined
<1>4. m \in Nat /\ m - 1 \in Nat /\ Defined(m - 1)
  <2>1. m # 0 /\ m \in Nat
    BY <1>3
  <2>2. m - 1 \in Nat /\ m - 1 \notin T
    BY <1>2, <2>1
  <2>3. QED
    BY <2>1, <2>2
<1>5. PICK h \in [0 .. m - 1 -> S] :
        h[0] = base /\ \A i \in 1 .. m - 1 : h[i] = step[i][h[i - 1]]
  BY <1>4 DEF Defined
<1> DEFINE g == [i \in 0 .. m |-> IF i = m THEN step[m][h[m - 1]] ELSE h[i]]
<1>6. step[m][h[m - 1]] \in S
  BY <1>4, <1>5
<1>7. g \in [0 .. m -> S]
  <2>1. ASSUME NEW i \in 0 .. m, i # m PROVE h[i] \in S
    BY <1>4, <1>5, <2>1
  <2>2. QED
    BY <1>6, <2>1
<1>8. g[m] = step[m][h[m - 1]] /\ \A i \in 0 .. m - 1 : g[i] = h[i]
  BY <1>4
<1> HIDE DEF g
<1>9. \A i \in 1 .. m : g[i] = step[i][g[i - 1]]
  <2>1. g[m] = step[m][g[m - 1]]
    BY <1>4, <1>8
  <2>2. ASSUME NEW i \in 1 .. m - 1 PROVE g[i] = step[i][g[i - 1]]
    BY <1>4, <1>5, <1>8
  <2>3. QED
    BY <1>4, <2>1, <2>2
<1>10. g[0] = base
  BY <1>4, <1>5, <1>8
<1>11. Defined(m)
  BY <1>7, <1>9, <1>10 DEF Defined
<1>12. QED
  BY <1>11

\* The definition of LastKept by recursion has a solution.
LEMMA LastKeptDef ==
  ASSUME NEW candidates, Len(candidates) \in Nat, NEW params
  PROVE  LastKept(candidates, params) = [n \in 0 .. Len(candidates) |->
           IF n = 0 THEN 0
           ELSE IF IsKept(candidates, n, LastKept(candidates, params)[n - 1], params) THEN n 
           ELSE LastKept(candidates, params)[n - 1]]
<1> DEFINE F(g) == [n \in 0 .. Len(candidates) |->
             IF n = 0 THEN 0
             ELSE IF IsKept(candidates, n, g[n - 1], params) THEN n ELSE g[n - 1]]
           step == [i \in Nat |-> [l \in Nat |-> IF IsKept(candidates, i, l, params) THEN i ELSE l]]
<1>1. step \in [Nat -> [Nat -> Nat]]
  OBVIOUS
<1>2. \A i, l \in Nat : step[i][l] = IF IsKept(candidates, i, l, params) THEN i ELSE l
  OBVIOUS
<1> HIDE DEF step
<1>3. PICK g : Recurses(g, Len(candidates), Nat, 0, step)
  BY <1>1, RecursionExists
<1>4. ASSUME NEW i \in 1 .. Len(candidates)
      PROVE  g[i] = IF IsKept(candidates, i, g[i - 1], params) THEN i ELSE g[i - 1]
  BY <1>2, <1>3 DEF Recurses
<1>5. g = F(g)
  BY <1>3, <1>4 DEF Recurses
<1>6. LastKept(candidates, params) = CHOOSE h : h = F(h)
  BY DEF LastKept
<1> HIDE DEF F
<1>7. LastKept(candidates, params) = F(LastKept(candidates, params))
  BY <1>5, <1>6
<1>8. QED
  BY <1>7 DEF F

\* A candidate is a finite set, and the parameters in force are numbers.
Picture == (SUBSET HashBits) \cup {Broken}
InForce == [fps : Nat \ {0}, threshold : Nat \ {0}, maxInterval : Nat \ {0}]

LEMMA DistanceType ==
  ASSUME NEW hash \in Picture, NEW other \in Picture
  PROVE  Distance(hash, other) \in Nat
<1>1. IsFiniteSet(HashBits) /\ IsFiniteSet(Broken)
  BY FrameSelectionAssumption, FS_Singleton DEF Broken
<1>2. \A picture \in Picture : IsFiniteSet(picture)
  <2>1. \A picture \in SUBSET HashBits : IsFiniteSet(picture)
    BY <1>1, FS_Subset
  <2>2. QED
    BY <1>1, <2>1 DEF Picture
<1>3. IsFiniteSet((hash \ other) \cup (other \ hash))
  BY <1>2, FS_Difference, FS_Union
<1>4. QED
  BY <1>3, FS_CardinalityType DEF Distance

LEMMA TimestampType ==
  ASSUME NEW params \in InForce, NEW n \in Nat
  PROVE  Timestamp(n, params) \in Int
BY DEF Timestamp, InForce

\* What is kept last: a candidate that is kept itself, and none after it is.
LEMMA LastKeptIsKept ==
  ASSUME NEW candidates \in Seq(Picture), NEW params \in InForce, NEW n \in 0 .. Len(candidates)
  PROVE  LET last == LastKept(candidates, params)
         IN /\ last[n] \in 0 .. n /\ last[last[n]] = last[n]
            /\ n > 0 => last[n] > 0
            /\ \A k \in 1 .. n : last[k] = k => k <= last[n]
<1> DEFINE last == LastKept(candidates, params)
           Right(m) == /\ last[m] \in 0 .. m /\ last[last[m]] = last[m]
                       /\ m > 0 => last[m] > 0
                       /\ \A k \in 1 .. m : last[k] = k => k <= last[m]
           T == {m \in 0 .. Len(candidates) : ~Right(m)}
<1>1. /\ last[0] = 0
      /\ \A m \in 1 .. Len(candidates) :
           last[m] = IF IsKept(candidates, m, last[m - 1], params) THEN m ELSE last[m - 1]
  BY LastKeptDef
<1>2. \A m \in 1 .. Len(candidates) : last[m - 1] = 0 => last[m] = m
  BY <1>1 DEF IsKept
<1> HIDE DEF last
<1>3. SUFFICES ASSUME T # {} PROVE FALSE
  BY DEF last
<1>4. PICK m \in T : \A k \in T : m <= k
  <2>1. T \in SUBSET Nat
    OBVIOUS
  <2> HIDE DEF T
  <2>2. QED
    BY <1>3, <2>1, LeastNumber
<1>5. m # 0
  BY <1>1
<1>6. m \in 1 .. Len(candidates) /\ m - 1 \in 0 .. Len(candidates) /\ Right(m - 1)
  BY <1>4, <1>5
<1>7. Right(m)
  <2>1. CASE last[m] = m
    BY <1>6, <2>1
  <2>2. CASE last[m] # m
    <3>1. last[m] = last[m - 1] /\ last[m - 1] # 0
      BY <1>1, <1>2, <1>6, <2>2
    <3>2. \A k \in 1 .. m : last[k] = k => k \in 1 .. m - 1
      BY <1>6, <2>2
    <3>3. QED
      BY <1>6, <3>1, <3>2
  <2>3. QED
    BY <2>1, <2>2
<1>8. QED
  BY <1>7

\* Whatever the candidates show, and whatever the parameters are, what is kept of a
\* slice that is read to its end covers it: the comparison is with the last kept frame.
THEOREM KeptCovers ==
  ASSUME NEW candidates \in Seq(Picture), Succeeds(candidates),
         NEW given \in [fps : Int, threshold : Int, maxInterval : Int]
  PROVE  Covers(candidates, given, Kept(candidates, given))
<1> DEFINE params == WithDefaults(given)
           last == LastKept(candidates, params)
           kept == Kept(candidates, given)
<1>1. params \in InForce
  BY DEF WithDefaults, InForce
<1>2. kept = {n \in 1 .. Len(candidates) : last[n] = n}
  BY DEF Succeeds, Kept
<1>3. \A n \in 1 .. Len(candidates) :
        last[n] = IF IsKept(candidates, n, last[n - 1], params) THEN n ELSE last[n - 1]
  BY LastKeptDef
<1>4. ASSUME NEW n \in 0 .. Len(candidates)
      PROVE  /\ last[n] \in 0 .. n /\ last[last[n]] = last[n]
             /\ \A k \in 1 .. n : last[k] = k => k <= last[n]
  BY <1>1, LastKeptIsKept
<1>5. DOMAIN candidates = 1 .. Len(candidates) /\ Len(candidates) \in Nat
  OBVIOUS
<1> DEFINE Near(n, k) ==
             /\ Distance(candidates[n], candidates[k]) < params.threshold
             /\ Timestamp(n, params) - Timestamp(k, params) < params.maxInterval * 1000
<1>6. ASSUME NEW n \in 1 .. Len(candidates), NEW k \in 1 .. Len(candidates)
      PROVE  Near(n, k) <=> ~IsKept(candidates, n, k, params)
  <2>1. Distance(candidates[n], candidates[k]) \in Nat
    BY DistanceType
  <2>2. Timestamp(n, params) \in Int /\ Timestamp(k, params) \in Int
    BY <1>1, TimestampType
  <2>3. params.threshold \in Nat /\ params.maxInterval * 1000 \in Nat
    BY <1>1 DEF InForce
  <2> HIDE DEF params
  <2>4. QED
    BY <2>1, <2>2, <2>3 DEF IsKept
<1> HIDE DEF params, last, kept, Near
<1>7. \A n \in 1 .. Len(candidates) : n \notin kept => \E k \in kept : k < n /\ Near(n, k)
  <2>1. SUFFICES ASSUME NEW n \in 1 .. Len(candidates), n \notin kept
                 PROVE  \E k \in kept : k < n /\ Near(n, k)
    OBVIOUS
  <2>2. ~IsKept(candidates, n, last[n - 1], params) /\ last[n - 1] = last[n]
    BY <1>2, <1>3, <2>1
  <2>3. last[n - 1] \in 0 .. n - 1 /\ last[n - 1] # 0 /\ last[last[n - 1]] = last[n - 1]
    BY <1>4, <2>2 DEF IsKept
  <2>4. last[n - 1] \in kept /\ last[n - 1] < n
    BY <1>2, <2>3
  <2>5. QED
    BY <1>2, <1>6, <2>2, <2>4
<1>8. \A n \in kept : \A k \in kept :
        k < n /\ (\A between \in kept : between <= k \/ between >= n) => ~Near(n, k)
  <2>1. SUFFICES ASSUME NEW n \in kept, NEW k \in kept, k < n,
                        \A between \in kept : between <= k \/ between >= n
                 PROVE  ~Near(n, k)
    OBVIOUS
  <2>2. n \in 1 .. Len(candidates) /\ k \in 1 .. n - 1 /\ last[n] = n /\ last[k] = k
    BY <1>2, <2>1
  <2>3. last[n - 1] \in 0 .. n - 1 /\ k <= last[n - 1] /\ last[last[n - 1]] = last[n - 1]
    BY <1>4, <2>2
  <2>4. last[n - 1] \in kept
    BY <1>2, <2>2, <2>3
  <2>5. last[n - 1] = k
    BY <2>1, <2>2, <2>3, <2>4
  <2>6. IsKept(candidates, n, k, params)
    BY <1>3, <2>2, <2>5
  <2>7. QED
    BY <1>6, <2>2, <2>6
<1>9. QED
  BY <1>5, <1>7, <1>8 DEF Covers, params, kept, Near

\* The indexes of all the frames of a segment are the ones of all the kept candidates.
LEMMA AllIndexesCover ==
  ASSUME NEW s \in Segment
  PROVE  <<Cardinality(FramesOf(s)), Indexes(s)>> \in Covering
<1> DEFINE count == Cardinality(FramesOf(s))
<1>1. ASSUME NEW slice \in Slices(count)
      PROVE  Covers(slice[1], slice[2], KeptAt(slice[1], slice[2], Indexes(s)))
  <2> DEFINE candidates == slice[1]
             given == slice[2]
             kept == Kept(candidates, given)
  <2>1. /\ candidates \in Sequences /\ given \in SelectionParams
        /\ Succeeds(candidates) /\ Cardinality(kept) = count
    BY <1>1 DEF Slices
  <2>2. PICK n \in Candidates : candidates \in [1 .. n -> Picture]
    BY <2>1 DEF Sequences, Picture
  <2>3. n \in Nat /\ candidates \in Seq(Picture) /\ Len(candidates) = n
    BY <2>2, FrameSelectionAssumption, SeqDef
  <2>4. kept \subseteq 1 .. n
    BY <2>1, <2>2 DEF Kept, Succeeds
  <2>5. IsFiniteSet(kept)
    <3>1. IsFiniteSet(1 .. n)
      BY <2>3, FS_Interval
    <3> HIDE DEF kept
    <3>2. QED
      BY <2>4, <3>1, FS_Subset
  <2> HIDE DEF kept
  <2>6. ASSUME NEW k \in kept PROVE Cardinality({m \in kept : m < k}) \in Indexes(s)
    <3> DEFINE before == {m \in kept : m < k}
    <3>1. k \notin before /\ before \subseteq kept /\ before # kept
      BY <2>3, <2>4, <2>6
    <3> HIDE DEF before
    <3>2. Cardinality(before) \in Nat /\ Cardinality(kept) \in Nat
          /\ Cardinality(before) < Cardinality(kept)
      BY <2>5, <3>1, FS_Subset, FS_CardinalityType
    <3>3. Cardinality(before) \in 0 .. count - 1
      BY <2>1, <3>2 DEF kept
    <3>4. QED
      BY <3>3 DEF before, Indexes
  <2>7. KeptAt(candidates, given, Indexes(s)) = kept
    BY <2>6 DEF KeptAt, kept
  <2>8. Covers(candidates, given, kept)
    BY <2>1, <2>3, KeptCovers, FrameSelectionAssumption DEF kept
  <2>9. QED
    BY <2>7, <2>8
<1>2. Indexes(s) \in {some \in SUBSET (0 .. count - 1) :
                       \A slice \in Slices(count) :
                         Covers(slice[1], slice[2], KeptAt(slice[1], slice[2], some))}
  BY <1>1 DEF Indexes
<1>3. QED
  BY <1>2 DEF Covering

LEMMA SuccessIsRead == DataInv => SelectionCovers
<1>1. ASSUME DataInv, NEW s \in Segment, segment[s] = "success"
      PROVE  Read(s) = Indexes(s)
  <2>1. FramesOf(s) \subseteq frames \cap requested
    BY <1>1 DEF DataInv, Finished
  <2>2. QED
    BY <2>1, SegmentCoverageAssumption DEF Read
<1>2. QED
  BY <1>1, AllIndexesCover DEF SelectionCovers

\* When ffmpeg does not truncate: whatever the slice of a segment in success showed, and
\* whatever attempts, errors and crashes preceded the success, the frames stored of it
\* and given to the ocr stage cover it.
THEOREM SelectionCoversTheorem ==
  ASSUME "truncated" \notin Faults
  PROVE  Spec => []SelectionCovers
BY DataAlways, SuccessIsRead, PTL
================================================================================
