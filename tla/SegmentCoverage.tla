---------------------------- MODULE SegmentCoverage ----------------------------
(***************************************************************************)
(* The handlers of the segments and the extractor they call: the frames a  *)
(* handler stores of its segment are the ones FrameSelection keeps of the  *)
(* slice it has downloaded, each under its index.  What the slice shows is *)
(* not known to the handlers: a property has to hold for whatever slice    *)
(* has as many frames to keep.                                             *)
(***************************************************************************)
EXTENDS FrameExtraction, FrameSelection

CONSTANT IndexOf   \* index of each frame among the kept ones of its slice, from 0

Indexes(s) == 0 .. Cardinality(FramesOf(s)) - 1

ASSUME SegmentCoverageAssumption ==
  /\ IsFiniteSet(Frame)
  /\ IndexOf \in [Frame -> Nat]
  /\ \A s \in Segment : {IndexOf[f] : f \in FramesOf(s)} = Indexes(s)

\* The kept candidates with these indexes.
KeptAt(candidates, given, indexes) ==
  LET kept == Kept(candidates, given)
  IN {n \in kept : Cardinality({k \in kept : k < n}) \in indexes}

\* The slices of which the extractor keeps so many frames before it returns nil.
Slices(count) ==
  {slice \in Sequences \X SelectionParams :
     Succeeds(slice[1]) /\ Cardinality(Kept(slice[1], slice[2])) = count}

\* The sets of indexes that cover any slice with so many frames.
Covering ==
  UNION {LET slices == Slices(count)
         IN {<<count, indexes>> : indexes \in
               {some \in SUBSET (0 .. count - 1) :
                  \A slice \in slices :
                    Covers(slice[1], slice[2], KeptAt(slice[1], slice[2], some))}} :
         count \in {Cardinality(FramesOf(s)) : s \in Segment}}

\* The frames of a segment that have a row and were given to the ocr stage.
Read(s) == {IndexOf[f] : f \in FramesOf(s) \cap frames \cap requested}

\* When a segment is in success, whatever its slice showed is covered by the frames that
\* have a row and that the ocr stage will read.  Between the slice and these rows stand
\* the choice of the extractor, the pool with its first error, retries that begin anew
\* and the transaction that ends the segment.
SelectionCovers ==
  \A s \in Segment :
    segment[s] = "success" => <<Cardinality(FramesOf(s)), Read(s)>> \in Covering
================================================================================
