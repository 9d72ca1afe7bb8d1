---------------------------- MODULE ExtractionPhase ----------------------------
(***************************************************************************)
(* What the stages behind the extraction of a video may rely on: frames    *)
(* appear one by one while it runs, and when it is announced as done every *)
(* frame is there and the set is final.  It may also fail, or just stop.   *)
(***************************************************************************)
CONSTANT Frame      \* the frames the extractor keeps of the video

VARIABLES stored,   \* frames that have a row
          phase     \* running, done or failed

vars == <<stored, phase>>

Init == stored = {} /\ phase = "running"

StoreFrame(f) ==
  /\ phase # "done"
  /\ stored' = stored \cup {f}
  /\ UNCHANGED phase

Announce ==
  /\ phase = "running"
  /\ stored = Frame
  /\ phase' = "done"
  /\ UNCHANGED stored

Fail ==
  /\ phase = "running"
  /\ phase' = "failed"
  /\ UNCHANGED stored

Next == Announce \/ Fail \/ \E f \in Frame : StoreFrame(f)

Spec == Init /\ [][Next]_vars
================================================================================
