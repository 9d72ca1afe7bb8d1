--------------------------- MODULE SegmentStageProofs ---------------------------
(***************************************************************************)
(* Theorems about SegmentStage, for any durations, configuration, number   *)
(* of retries and faults: the invariant of the handler, that its calls are *)
(* as HandlerOnce promises, and the arithmetic of the plan.                *)
(***************************************************************************)
EXTENDS SegmentStage, TLAPS

Attempting == pc \in {"split", "commit", "fail_retryable", "fail"}
Ended == pc \in {"done", "dead", "skipped"}

\* What an attempt relies on: nobody else writes the job, and a handler that is still
\* at work has not committed.
AttemptInv ==
  /\ video # "success" /\ seenVideo # "success"
  /\ Committed => Ended
  /\ ~Committed => job.expected = 0
  /\ pc \in {"list", "mark"} => seenJob = job
  /\ Attempting => seenJob = job /\ job.status = "processing"

\* Slices are stored from the first on, and committed after the last.
SliceInv ==
  /\ put <= objects
  /\ pc = "commit" /\ ~Plan.skipSplit => put = cuts
  /\ Committed /\ ~Plan.skipSplit => objects >= cuts

StageInv ==
  TypeOK /\ AttemptInv /\ SliceInv /\ FanOutIsWhole /\ NeverRepublishes /\ AttemptsAnnounced

LEMMA Outcomes ==
  /\ \A s \in {"pending", "processing", "failed"} :
       MarkExtracting(s).status = "processing" /\ MarkExtracting(s).emits = TRUE
  /\ \A s \in {"pending", "processing"} :
       /\ MarkExtractionFailed(s).status = "failed"
       /\ MarkExtractionFailed(s).emits = TRUE
  /\ MarkExtractionFailed("failed").status = "failed"
  /\ ~MarkExtractionFailed("failed").emits
  /\ MarkUploadExpired("pending").status = "failed"
<1>1. /\ \A s \in {"pending", "processing", "failed"} :
            MarkExtracting(s).status = "processing" /\ MarkExtracting(s).emits = TRUE
  BY DEF MarkExtracting, Transition
<1>2. /\ MarkExtractionFailed("pending").status = "failed"
      /\ MarkExtractionFailed("pending").emits = TRUE
      /\ MarkExtractionFailed("processing").status = "failed"
      /\ MarkExtractionFailed("processing").emits = TRUE
  BY DEF MarkExtractionFailed, Transition
<1>3. MarkExtractionFailed("failed").status = "failed"
  BY DEF MarkExtractionFailed, Transition
<1>4. ~MarkExtractionFailed("failed").emits
  BY DEF MarkExtractionFailed, Transition
<1>5. MarkUploadExpired("pending").status = "failed"
  BY DEF MarkUploadExpired, Transition
<1>6. QED
  BY <1>1, <1>2, <1>3, <1>4, <1>5

LEMMA CutsPositive ==
  ASSUME NEW d, NEW plan, NEW n \in CutsOf(d, plan)
  PROVE  n \in Nat /\ n > 0
BY DEF CutsOf

LEMMA StageInit == Init => StageInv
<1> SUFFICES ASSUME Init PROVE StageInv
  OBVIOUS
<1>1. cuts \in Nat
  BY CutsPositive DEF Init
<1>2. TypeOK
  <2>1. expiring \in BOOLEAN
    BY DEF Init
  <2>2. QED
    BY <1>1, <2>1, SegmentStageAssumption DEF Init, TypeOK, JobRow, FrameJobRow, Status, NoJob
<1>3. QED
  BY <1>1, <1>2 DEF Init, StageInv, AttemptInv, SliceInv, FanOutIsWhole, NeverRepublishes,
     AttemptsAnnounced, Attempting, Ended, Committed

\* A retry leads to the queue or to the dead letter queue, within the bound.
LEMMA RetryPlaces ==
  ASSUME TypeOK, Retry
  PROVE  pc' \in {"queued", "dead"} /\ tries' \in 0 .. MaxRetries
BY SegmentStageAssumption DEF TypeOK, Retry, Goto

LEMMA ReturnPlaces ==
  ASSUME TypeOK, Return
  PROVE  pc' \in {"queued", "dead"} /\ tries' \in 0 .. MaxRetries
BY RetryPlaces DEF TypeOK, Return, Goto

\* A step that leaves rows and events alone, and goes on or gives up.
LEMMA QuietStep ==
  ASSUME StageInv, UNCHANGED <<file, rows, events>>,
         seenJob' = seenJob, seenVideo' = seenVideo, expiring' = expiring,
         objects' \in Nat, put' \in Nat, put' <= objects', objects' >= objects,
         tries' \in 0 .. MaxRetries,
         \/ pc' = pc /\ pc # "commit"
         \/ pc' \in {"queued", "dead", "skipped", "done"} /\ ~Ended
         \/ pc' \in {"commit", "fail_retryable", "fail"} /\ Attempting,
         pc' = "commit" /\ ~Plan.skipSplit => put' = cuts
  PROVE  StageInv'
<1>1. TypeOK'
  BY DEF StageInv, TypeOK, file, rows, events, Attempting
<1>2. AttemptInv'
  BY DEF StageInv, AttemptInv, rows, Attempting, Ended, Committed
<1>3. SliceInv'
  BY DEF StageInv, TypeOK, SliceInv, file, rows, Committed, Plan
<1>4. FanOutIsWhole' /\ AttemptsAnnounced'
  BY DEF StageInv, FanOutIsWhole, AttemptsAnnounced, file, rows, events, Committed
<1>5. NeverRepublishes'
  BY DEF StageInv, NeverRepublishes
<1>6. QED
  BY <1>1, <1>2, <1>3, <1>4, <1>5 DEF StageInv

LEMMA StageStep == StageInv /\ [Next]_vars => StageInv'
<1> SUFFICES ASSUME StageInv, [Next]_vars PROVE StageInv'
  OBVIOUS
<1> USE DEF Goto
<1>1. CASE LoadVideo
  <2>1. TypeOK' /\ AttemptInv'
    BY <1>1 DEF LoadVideo, StageInv, TypeOK, AttemptInv, file, rows, events, Attempting, Ended, Committed
  <2>2. SliceInv' /\ FanOutIsWhole' /\ NeverRepublishes' /\ AttemptsAnnounced'
    BY <1>1 DEF LoadVideo, StageInv, SliceInv, FanOutIsWhole, NeverRepublishes, AttemptsAnnounced,
       file, rows, events, Committed, Plan
  <2>3. QED
    BY <2>1, <2>2 DEF StageInv
<1>2. CASE LoadJob
  <2>1. TypeOK' /\ AttemptInv'
    BY <1>2 DEF LoadJob, StageInv, TypeOK, AttemptInv, file, rows, events, Attempting, Ended, Committed
  <2>2. SliceInv' /\ FanOutIsWhole' /\ NeverRepublishes' /\ AttemptsAnnounced'
    BY <1>2 DEF LoadJob, StageInv, SliceInv, FanOutIsWhole, NeverRepublishes, AttemptsAnnounced,
       file, rows, events, Committed, Plan
  <2>3. QED
    BY <2>1, <2>2 DEF StageInv
<1>3. CASE ListSegments
  <2>1. seenJob.status # "success" /\ segments = 0
    BY <1>3 DEF ListSegments, StageInv, AttemptInv, FanOutIsWhole, Committed, Ended
  <2>2. pc' \in {"split", "mark"}
    BY <1>3, <2>1 DEF ListSegments, StageInv, TypeOK
  <2>3. pc' = "split" => seenJob.status = "processing"
    BY <1>3, <2>1 DEF ListSegments, StageInv, TypeOK
  <2>4. TypeOK' /\ AttemptInv'
    BY <1>3, <2>2, <2>3
       DEF ListSegments, StageInv, TypeOK, AttemptInv, file, rows, events, copies, Attempting, Ended, Committed
  <2>5. SliceInv' /\ FanOutIsWhole' /\ NeverRepublishes' /\ AttemptsAnnounced'
    BY <1>3, <2>2 DEF ListSegments, StageInv, TypeOK, SliceInv, FanOutIsWhole, NeverRepublishes,
       AttemptsAnnounced, file, rows, events, Committed, Plan
  <2>6. QED
    BY <2>4, <2>5 DEF StageInv
<1>4. CASE LoadFails
  BY <1>4, RetryPlaces, QuietStep
     DEF LoadFails, StageInv, TypeOK, SliceInv, copies, file, rows, events, Ended
<1>5. CASE StartExtracting
  <2>1. seenVideo \in {"pending", "processing", "failed"} /\ seenJob = job /\ ~Committed
    BY <1>5 DEF StartExtracting, StageInv, TypeOK, AttemptInv, Status, Ended
  <2>2. /\ video' = "processing" /\ seenVideo' = "processing"
        /\ job' = [job EXCEPT !.status = "processing"] /\ seenJob' = job'
        /\ extracting' = extracting + 1
    BY <1>5, <2>1, Outcomes DEF StartExtracting
  <2>3. job' = [status |-> "processing", expected |-> 0]
    BY <2>1, <2>2 DEF StageInv, TypeOK, AttemptInv, JobRow
  <2>4. pc' \in {"split", "queued", "dead"} /\ tries' \in 0 .. MaxRetries
    BY <1>5, RetryPlaces DEF StartExtracting, StageInv, TypeOK
  <2>5. TypeOK'
    BY <1>5, <2>2, <2>3, <2>4 DEF StartExtracting, StageInv, TypeOK, file, Status, JobRow
  <2>6. AttemptInv'
    BY <2>2, <2>3, <2>4 DEF AttemptInv, Attempting, Ended, Committed
  <2>7. SliceInv' /\ NeverRepublishes'
    BY <1>5, <2>3, <2>4 DEF StartExtracting, StageInv, SliceInv, NeverRepublishes, file, Committed, Plan
  <2>8. FanOutIsWhole' /\ AttemptsAnnounced'
    BY <1>5, <2>1, <2>2, <2>3
       DEF StartExtracting, StageInv, TypeOK, FanOutIsWhole, AttemptsAnnounced, Committed
  <2>9. QED
    BY <2>5, <2>6, <2>7, <2>8 DEF StageInv
<1>6. CASE PutSlice
  BY <1>6, QuietStep DEF PutSlice, StageInv, TypeOK, SliceInv, Larger, copies, Attempting
<1>7. CASE SplitEnds
  BY <1>7, QuietStep DEF SplitEnds, StageInv, TypeOK, SliceInv, copies, Attempting
<1>8. CASE SplitFails
  BY <1>8, QuietStep DEF SplitFails, StageInv, TypeOK, SliceInv, copies, Attempting
<1>9. CASE FailExtraction
  <2>1. seenVideo \in {"pending", "processing", "failed"} /\ seenJob = job
          /\ job.status = "processing" /\ ~Committed
    BY <1>9 DEF FailExtraction, Failing, StageInv, TypeOK, AttemptInv, Status, Attempting, Committed
  <2>2. video' = "failed" /\ failures' \in {failures, failures + 1}
    BY <1>9, <2>1, Outcomes DEF FailExtraction
  <2>3. job' = [status |-> "failed", expected |-> 0]
    BY <1>9, <2>1 DEF FailExtraction, StageInv, TypeOK, AttemptInv, JobRow
  <2>4. pc' \in {"queued", "dead"} /\ tries' \in 0 .. MaxRetries
    BY <1>9, ReturnPlaces DEF FailExtraction, StageInv
  <2>5. TypeOK'
    BY <1>9, <2>2, <2>3, <2>4 DEF FailExtraction, StageInv, TypeOK, file, copies, Status, JobRow
  <2>6. AttemptInv'
    BY <1>9, <2>2, <2>3, <2>4 DEF FailExtraction, StageInv, AttemptInv, copies, Attempting, Ended, Committed
  <2>7. SliceInv' /\ NeverRepublishes'
    BY <1>9, <2>3, <2>4 DEF FailExtraction, StageInv, SliceInv, NeverRepublishes, file, Committed, Plan
  <2>8. FanOutIsWhole' /\ AttemptsAnnounced'
    BY <1>9, <2>1, <2>2, <2>3
       DEF FailExtraction, StageInv, TypeOK, FanOutIsWhole, AttemptsAnnounced, Committed
  <2>9. QED
    BY <2>5, <2>6, <2>7, <2>8 DEF StageInv
<1>10. CASE FailExtractionAborts
  BY <1>10, ReturnPlaces, QuietStep
     DEF FailExtractionAborts, Failing, StageInv, TypeOK, SliceInv, copies, Ended
<1>11. CASE CommitSegments
  <2>1. seenVideo # "success" /\ job.status = "processing" /\ ~Committed
    BY <1>11 DEF CommitSegments, StageInv, AttemptInv, Attempting, Committed
  <2>2. segments = 0 /\ ready = 0 /\ frameJob = NoJob /\ failures < extracting
    BY <2>1 DEF StageInv, FanOutIsWhole, AttemptsAnnounced
  <2>3. CASE CommitRows
    <3>1. /\ segments' = cuts /\ ready' = cuts
          /\ job' = [status |-> "success", expected |-> cuts]
          /\ frameJob' = [status |-> "pending", expected |-> cuts, completed |-> 0]
          /\ video' = seenVideo /\ UNCHANGED <<extracting, failures>>
      BY <2>2, <2>3 DEF CommitRows, StageInv, TypeOK, Larger
    <3>2. pc' \in {"done", "skipped"}
      BY <1>11 DEF CommitSegments
    <3>3. TypeOK'
      BY <1>11, <3>1, <3>2 DEF CommitSegments, StageInv, TypeOK, file, copies, Status, JobRow, FrameJobRow
    <3>4. AttemptInv'
      BY <1>11, <2>1, <3>1, <3>2 DEF CommitSegments, AttemptInv, copies, Attempting, Ended, Committed
    <3>5. SliceInv'
      BY <1>11, <3>1, <3>2 DEF CommitSegments, StageInv, TypeOK, SliceInv, file, Committed, Plan
    <3>6. FanOutIsWhole' /\ NeverRepublishes' /\ AttemptsAnnounced'
      BY <1>11, <2>2, <3>1, <3>2
         DEF CommitSegments, FanOutIsWhole, NeverRepublishes, StageInv, AttemptsAnnounced, file, Committed
    <3>7. QED
      BY <3>3, <3>4, <3>5, <3>6 DEF StageInv
  <2>4. CASE UNCHANGED <<rows, events>> /\ pc' = "skipped"
    BY <1>11, <2>4, QuietStep DEF CommitSegments, StageInv, TypeOK, SliceInv, copies, Ended
  <2>5. QED
    BY <1>11, <2>3, <2>4 DEF CommitSegments
<1>12. CASE Crash
  BY <1>12, QuietStep DEF Crash, StageInv, TypeOK, SliceInv, copies, Ended, NeverRepublishes
<1>13. CASE ExpireUpload
  <2>1. video' = "failed" /\ expiring' = FALSE
    BY <1>13, Outcomes DEF ExpireUpload
  <2>2. TypeOK' /\ AttemptInv'
    BY <1>13, <2>1 DEF ExpireUpload, StageInv, TypeOK, AttemptInv, file, events, copies, Status,
       Attempting, Ended, Committed
  <2>3. SliceInv' /\ FanOutIsWhole' /\ NeverRepublishes' /\ AttemptsAnnounced'
    BY <1>13 DEF ExpireUpload, StageInv, SliceInv, FanOutIsWhole, NeverRepublishes, AttemptsAnnounced,
       file, events, Committed, Plan
  <2>4. QED
    BY <2>2, <2>3 DEF StageInv
<1>14. CASE UNCHANGED vars
  BY <1>14 DEF vars, file, rows, events, copies, StageInv, TypeOK, AttemptInv, SliceInv, FanOutIsWhole,
     NeverRepublishes, AttemptsAnnounced, Attempting, Ended, Committed, Plan
<1>15. QED
  BY <1>1, <1>2, <1>3, <1>4, <1>5, <1>6, <1>7, <1>8, <1>9, <1>10, <1>11, <1>12, <1>13, <1>14
     DEF Next, Handle

LEMMA StageInvariant == Spec => []StageInv
BY StageInit, StageStep, PTL DEF Spec

--------------------------------------------------------------------------------
\* The state of the handler and its rows keep their types (the rows and counters of
\* segment_video.go), the bound on the retries included.
THEOREM SegmentTypeCorrect == Spec => []TypeOK
<1>1. StageInv => TypeOK
  BY DEF StageInv
<1>2. QED
  BY <1>1, StageInvariant, PTL

\* commitSegments publishes all slices once, or nothing, through any retries.
THEOREM FanOutIsWholeTheorem == Spec => []FanOutIsWhole
<1>1. StageInv => FanOutIsWhole
  BY DEF StageInv
<1>2. QED
  BY <1>1, StageInvariant, PTL

\* A segment that was announced has its slice, or the file itself, in the storage.
THEOREM AnnouncedIsStoredTheorem == Spec => []AnnouncedIsStored
<1>1. StageInv => AnnouncedIsStored
  BY DEF StageInv, TypeOK, SliceInv, FanOutIsWhole, AnnouncedIsStored
<1>2. QED
  BY <1>1, StageInvariant, PTL

\* republishPending is never reached by an event that is delivered as in HandlerOnce.
THEOREM NeverRepublishesTheorem == Spec => []NeverRepublishes
<1>1. StageInv => NeverRepublishes
  BY DEF StageInv
<1>2. QED
  BY <1>1, StageInvariant, PTL

\* An attempt that is under way or succeeded was announced and not failed.
THEOREM AttemptsAnnouncedTheorem == Spec => []AttemptsAnnounced
<1>1. StageInv => AttemptsAnnounced
  BY DEF StageInv
<1>2. QED
  BY <1>1, StageInvariant, PTL

--------------------------------------------------------------------------------
(* The calls of the handler are such as HandlerOnce allows *)

\* The one event of the video, and the handler that is called with it.
Call == <<"VideoUploaded", "segment">>
CallIf(condition) == {k \in {Call} : condition}

Once == INSTANCE HandlerOnce WITH
          Event <- {"VideoUploaded"}, Handler <- {"segment"}, running <- CallIf(~Ended /\ pc # "queued"),
          done <- CallIf(pc = "done"), dropped <- CallIf(pc \in {"dead", "skipped"})

LEMMA CallMoves ==
  ASSUME Handle \/ Crash
  PROVE  /\ ~Ended
         /\ pc = "queued" => pc' \in {"queued", "job", "dead"}
<1>1. CASE LoadVideo \/ LoadJob \/ ListSegments \/ LoadFails \/ StartExtracting
  BY <1>1 DEF LoadVideo, LoadJob, ListSegments, LoadFails, StartExtracting, Retry, Goto, Ended
<1>2. CASE PutSlice \/ SplitEnds \/ SplitFails \/ CommitSegments \/ Crash
  BY <1>2 DEF PutSlice, SplitEnds, SplitFails, CommitSegments, Crash, Goto, Ended
<1>3. CASE FailExtraction \/ FailExtractionAborts
  BY <1>3 DEF FailExtraction, FailExtractionAborts, Failing, Ended
<1>4. QED
  BY <1>1, <1>2, <1>3 DEF Handle

\* SegmentVideo is called as EventDelivery was shown to call a handler, which is why it
\* never republishes: attempts do not overlap, and none follows one that returned nil, gave
\* up, or left its mark behind.
THEOREM SegmentImplementsHandlerOnce == Spec => Once!Spec
<1> USE DEF CallIf, Ended
<1>1. Init => Once!Init
  BY DEF Init, Once!Init
<1>2. [Next]_vars => [Once!Next]_(Once!vars)
  <2> SUFFICES ASSUME [Next]_vars PROVE [Once!Next]_(Once!vars)
    OBVIOUS
  <2>1. Call \in Once!Key
    BY DEF Once!Key, Call
  <2>2. CASE Handle \/ Crash
    <3>1. ~Ended /\ (pc = "queued" => pc' \in {"queued", "job", "dead"})
      BY <2>2, CallMoves
    <3>2. CASE pc' = "queued"
      BY <2>1, <3>1, <3>2 DEF Once!Release, Once!Next, Once!vars
    <3>3. CASE pc' = "done"
      BY <2>1, <3>1, <3>3 DEF Once!Finish, Once!Next
    <3>4. CASE pc' \in {"dead", "skipped"}
      BY <2>1, <3>1, <3>4 DEF Once!Drop, Once!Next
    <3>5. CASE ~Ended' /\ pc' # "queued"
      BY <2>1, <3>1, <3>5 DEF Once!Claim, Once!Next, Once!vars
    <3>6. QED
      BY <3>2, <3>3, <3>4, <3>5
  <2>3. CASE ExpireUpload \/ UNCHANGED vars
    <3>1. UNCHANGED pc
      BY <2>3 DEF ExpireUpload, vars
    <3>2. QED
      BY <3>1 DEF Once!vars
  <2>4. QED
    BY <2>2, <2>3 DEF Next
<1>3. QED
  BY <1>1, <1>2, PTL DEF Spec, Once!Spec

--------------------------------------------------------------------------------
(* The plan *)

LEMMA CeilDivCovers ==
  ASSUME NEW a \in Nat, NEW b \in Nat \ {0}
  PROVE  CeilDiv(a, b) \in Nat /\ b * CeilDiv(a, b) >= a
BY DEF CeilDiv

LEMMA CeilDivAtMost ==
  ASSUME NEW a \in Nat, NEW b \in Nat \ {0}, NEW n \in Nat, a <= b * n
  PROVE  CeilDiv(a, b) <= n
<1> DEFINE q == (a + b - 1) \div b
<1>1. q \in Int /\ b * q <= a + b - 1
  OBVIOUS
<1>2. SUFFICES ASSUME q >= n + 1 PROVE FALSE
  BY <1>1 DEF CeilDiv
<1>3. b * q >= b * (n + 1)
  BY <1>1, <1>2
<1>4. b * (n + 1) = b * n + b
  OBVIOUS
<1>5. b * n \in Int /\ b * q \in Int
  BY <1>1
<1>6. QED
  BY <1>1, <1>3, <1>4, <1>5

LEMMA ConfigPositive ==
  LET c == NormalizePlanConfig(PlanConfig) IN
    c.segmentDuration \in Nat \ {0} /\ c.minSplit \in Nat \ {0} /\ c.maxSegments \in Nat \ {0}
BY SegmentStageAssumption DEF NormalizePlanConfig, Default

LEMMA PlanInit == Init => PlanCovers
<1> SUFFICES ASSUME Init, ~Plan.skipSplit
             PROVE  /\ Plan.count \in 1 .. NormalizePlanConfig(PlanConfig).maxSegments
                    /\ cuts <= Plan.count
                    /\ 1000 * Plan.effective * Plan.count >= duration
  BY DEF PlanCovers
<1> DEFINE c      == NormalizePlanConfig(PlanConfig)
           unit   == 1000 * c.segmentDuration
           length == IF duration <= 0 THEN unit ELSE duration
           wanted == CeilDiv(length, unit)
           capped == wanted > c.maxSegments
           count  == IF capped THEN c.maxSegments ELSE wanted
           len    == IF capped THEN CeilDiv(length, 1000 * count) ELSE c.segmentDuration
<1>1. /\ c.segmentDuration \in Nat \ {0} /\ c.maxSegments \in Nat \ {0}
      /\ unit \in Nat \ {0} /\ duration \in Nat /\ length \in Nat \ {0}
  BY ConfigPositive, SegmentStageAssumption DEF Init
<1>2. Plan = [count |-> count, effective |-> len, skipSplit |-> count = 1]
  BY DEF Plan, PlanSegments
<1>3. unit = 1000 * c.segmentDuration /\ length >= duration
  BY <1>1
<1>4. c = NormalizePlanConfig(PlanConfig)
  OBVIOUS
<1> HIDE DEF c, unit, length
<1>5. wanted \in Nat /\ unit * wanted >= length
  BY <1>1, CeilDivCovers
<1> HIDE DEF wanted
<1>6. wanted >= 1
  BY <1>1, <1>5
<1>7. count \in 1 .. c.maxSegments
  BY <1>1, <1>5, <1>6
<1>8. len \in Nat /\ 1000 * len * count >= length
  <2>1. CASE capped
    <3>1. 1000 * c.maxSegments \in Nat \ {0}
      BY <1>1
    <3>2. len = CeilDiv(length, 1000 * c.maxSegments)
      BY <2>1
    <3> HIDE DEF len
    <3>3. len \in Nat /\ (1000 * c.maxSegments) * len >= length
      BY <1>1, <3>1, <3>2, CeilDivCovers
    <3>4. (1000 * c.maxSegments) * len = 1000 * len * c.maxSegments
      BY <1>1, <3>3
    <3>5. QED
      BY <2>1, <3>3, <3>4
  <2>2. CASE ~capped
    BY <1>1, <1>5, <1>3, <2>2
  <2>3. QED
    BY <2>1, <2>2
<1> HIDE DEF count, len
<1>9. 1000 * len \in Nat \ {0} /\ count \in Nat
  BY <1>1, <1>7, <1>8
<1>10. length >= duration
  BY <1>3
<1>11. cuts \in 1 .. CeilDiv(duration, 1000 * len)
  BY <1>2 DEF Init, CutsOf
<1>12. duration <= (1000 * len) * count
  BY <1>1, <1>8, <1>9, <1>10
<1>13. CeilDiv(duration, 1000 * len) <= count
  BY <1>1, <1>9, <1>12, CeilDivAtMost
<1>14. cuts <= count
  <2>1. CeilDiv(duration, 1000 * len) \in Nat
    BY <1>1, <1>9, CeilDivCovers
  <2>2. QED
    BY <1>9, <1>11, <1>13, <2>1
<1>15. Plan.count = count /\ Plan.effective = len
  BY <1>2
<1>16. 1000 * Plan.effective * Plan.count >= duration
  BY <1>12, <1>15
<1>17. Plan.count \in 1 .. NormalizePlanConfig(PlanConfig).maxSegments
  BY <1>7, <1>15, <1>4
<1>18. QED
  BY <1>14, <1>15, <1>16, <1>17

LEMMA FileUnchanged == [Next]_vars => UNCHANGED file
BY DEF Next, Handle, vars, LoadVideo, LoadJob, ListSegments, LoadFails, StartExtracting, PutSlice,
   SplitEnds, SplitFails, FailExtraction, FailExtractionAborts, CommitSegments, Crash, ExpireUpload

\* PlanSegments: the slices are as many as the cap allows at most, and long enough.
THEOREM PlanCoversTheorem == Spec => []PlanCovers
<1>1. PlanCovers /\ UNCHANGED file => PlanCovers'
  BY DEF PlanCovers, Plan, file
<1>2. QED
  BY <1>1, PlanInit, FileUnchanged, PTL DEF Spec
================================================================================
