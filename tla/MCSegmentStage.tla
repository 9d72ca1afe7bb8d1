----------------------------- MODULE MCSegmentStage -----------------------------
(* Instances of SegmentStage for TLC: the default lengths, at most three       *)
(* slices, and durations on both sides of every threshold.                     *)
EXTENDS SegmentStage

DefaultsCappedAtThree == [segmentDuration |-> 120, minSplit |-> 90, maxSegments |-> 3]
Thresholds == {0, 89999, 90000, 120001, 360001}
================================================================================
