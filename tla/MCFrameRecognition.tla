-------------------------- MODULE MCFrameRecognition --------------------------
(* Instances of FrameRecognition for TLC: one frame with one result, and two  *)
(* frames with a result each.                                                 *)
EXTENDS FrameRecognition, TLC

CONSTANTS f1, f2, m1, m2

Single == m1 :> f1
OnePerFrame == (m1 :> f1) @@ (m2 :> f2)
================================================================================
