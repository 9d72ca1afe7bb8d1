------------------------------ MODULE SegmentPlan ------------------------------
(***************************************************************************)
(* Into how many slices a video is cut (PlanSegments), in milliseconds and *)
(* whole seconds instead of floating point.                                *)
(***************************************************************************)
EXTENDS Integers

CeilDiv(a, b) == (a + b - 1) \div b

Default(value, default) == IF value <= 0 THEN default ELSE value

\* A config has the fields segmentDuration and minSplit, in seconds, and maxSegments.
NormalizePlanConfig(config) ==
  [segmentDuration |-> Default(config.segmentDuration, 120),
   minSplit        |-> Default(config.minSplit, 90),
   maxSegments     |-> Default(config.maxSegments, 40)]

\* Mutant: a count over the cap is cut down, the slices keep their length.
PlanSegmentsFixedLength(durationMs, config) ==
  LET c     == NormalizePlanConfig(config)
      count == CeilDiv(durationMs, 1000 * c.segmentDuration)
  IN IF durationMs < 1000 * c.minSplit
     THEN [count |-> 1, effective |-> c.segmentDuration, skipSplit |-> TRUE]
     ELSE [count     |-> IF count > c.maxSegments THEN c.maxSegments ELSE count,
           effective |-> c.segmentDuration,
           skipSplit |-> count = 1]

\* An unknown duration is taken for one slice; effective is in seconds, and stands
\* for nothing when the video is not split.
PlanSegments(durationMs, config) ==
  LET c        == NormalizePlanConfig(config)
      length   == IF durationMs <= 0 THEN 1000 * c.segmentDuration ELSE durationMs
      wanted   == CeilDiv(length, 1000 * c.segmentDuration)
      capped   == wanted > c.maxSegments
      count    == IF capped THEN c.maxSegments ELSE wanted
  IN IF length < 1000 * c.minSplit
     THEN [count |-> 1, effective |-> CeilDiv(length, 1000), skipSplit |-> TRUE]
     ELSE [count     |-> count,
           effective |-> IF capped THEN CeilDiv(length, 1000 * count) ELSE c.segmentDuration,
           skipSplit |-> count = 1]

\* What ffmpeg makes of it: it cuts a copied stream at the first key frame after
\* each multiple of the length, so it may leave some cuts out.
CutsOf(durationMs, plan) ==
  IF plan.skipSplit THEN {1} ELSE 1 .. CeilDiv(durationMs, 1000 * plan.effective)
================================================================================
