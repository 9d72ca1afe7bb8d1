---------------------------- MODULE FrameSelection ----------------------------
(***************************************************************************)
(* Which frames the extractor keeps of a segment.  ffmpeg decodes          *)
(* candidates at a fixed rate; a candidate is its perceptual hash, the set *)
(* of the bits that are 1, or Broken when it is no picture.                *)
(***************************************************************************)
EXTENDS Integers, Sequences, FiniteSets

CONSTANTS HashBits,        \* positions of the bits of a hash, counted from 1
          Candidates,      \* how many candidates a segment may have
          SelectionParams  \* analysis_fps, phash_distance_threshold, max_interval_seconds

ASSUME FrameSelectionAssumption ==
  /\ IsFiniteSet(HashBits) /\ 0 \notin HashBits
  /\ Candidates \subseteq Nat
  /\ SelectionParams \subseteq [fps : Int, threshold : Int, maxInterval : Int]

Broken == {0}

\* A parameter that is not positive has its default; the rate is a whole number here.
WithDefaults(params) ==
  [fps         |-> IF params.fps <= 0 THEN 2 ELSE params.fps,
   threshold   |-> IF params.threshold <= 0 THEN 14 ELSE params.threshold,
   maxInterval |-> IF params.maxInterval <= 0 THEN 15 ELSE params.maxInterval]

\* Hamming distance.
Distance(hash, other) == Cardinality((hash \ other) \cup (other \ hash))

\* Milliseconds of the n-th candidate, rounded to the nearest.
Timestamp(n, params) == (2 * (n - 1) * 1000 + params.fps) \div (2 * params.fps)

\* The first candidate is kept, then one that differs enough from the last kept one, or
\* comes long enough after it.
IsKept(candidates, n, last, params) ==
  \/ last = 0
  \/ last > 0 /\ Distance(candidates[n], candidates[last]) >= params.threshold
  \/ last > 0 /\ Timestamp(n, params) - Timestamp(last, params) >= params.maxInterval * 1000

\* The last kept among the first n candidates, none of them broken; 0 for none.
LastKept(candidates, params) ==
  LET last[n \in 0 .. Len(candidates)] ==
        IF n = 0 THEN 0
        ELSE IF IsKept(candidates, n, last[n - 1], params) THEN n ELSE last[n - 1]
  IN last

\* The candidates that are read: the ones before the first broken one.
Readable(candidates) ==
  LET broken == {n \in DOMAIN candidates : candidates[n] = Broken}
  IN IF broken = {} THEN candidates
     ELSE SubSeq(candidates, 1, (CHOOSE n \in broken : \A m \in broken : n <= m) - 1)

Kept(candidates, params) ==
  LET read == Readable(candidates)
      last == LastKept(read, WithDefaults(params))
  IN {n \in DOMAIN read : last[n] = n}

\* ExtractFrames hands over the kept frames and then fails for a broken candidate, or if
\* there was no frame; that ffmpeg died after some frames is not noticed.
Succeeds(candidates) == Len(candidates) > 0 /\ Readable(candidates) = candidates

--------------------------------------------------------------------------------
(* What docs/frame.md, "Frame selection", asks of the frames *)

\* Whatever was on the screen at a candidate, there is a frame at most the interval before
\* it that differs from it by less than the threshold, also when the picture drifts; and
\* no frame is there without a reason.
Covers(candidates, given, shown) ==
  LET params == WithDefaults(given)
      Near(n, k) == /\ Distance(candidates[n], candidates[k]) < params.threshold
                    /\ Timestamp(n, params) - Timestamp(k, params) < params.maxInterval * 1000
  IN /\ \A n \in DOMAIN candidates : n \in shown \/ \E k \in shown : k < n /\ Near(n, k)
     /\ \A n \in shown : \A k \in shown :
          k < n /\ (\A between \in shown : between <= k \/ between >= n) => ~Near(n, k)

Sequences == UNION {[1 .. n -> (SUBSET HashBits) \cup {Broken}] : n \in Candidates}
================================================================================
