--------------------------- MODULE MCFrameExtraction ---------------------------
(* Instances of FrameExtraction and of FrameSelection for TLC: a segment of    *)
(* two frames and one of a single frame; hashes of two bits, at two rates, one *)
(* of which has timestamps that are rounded.                                   *)
EXTENDS SegmentCoverage, TLC

CONSTANTS s1, s2, f1, f2, f3

TwoSegments == (f1 :> s1) @@ (f2 :> s1) @@ (f3 :> s2)
IndexInSegment == (f1 :> 0) @@ (f2 :> 1) @@ (f3 :> 0)

UpToFive == 0 .. 5
Rates == {[fps |-> 0, threshold |-> 1, maxInterval |-> 1],
          [fps |-> 3, threshold |-> 2, maxInterval |-> 1],
          [fps |-> 3, threshold |-> 0, maxInterval |-> 0]}
================================================================================
