------------------------------ MODULE VideoDomain ------------------------------
(***************************************************************************)
(* The status machine of the Video entity: what each Mark* and Record*     *)
(* method does to the status it finds, and whether it records an event.    *)
(***************************************************************************)

Status == {"pending", "processing", "success", "failed"}

\* The outcome of a method: ok is FALSE for ErrInvalidTransition.
Outcome == [ok : BOOLEAN, status : Status, emits : BOOLEAN]

\* From a status in from the method moves to status to and records its event; one
\* in keep is left alone without an event or an error; any other is an error.
Transition(status, from, to, keep) ==
  [ok     |-> status \in from \cup keep,
   status |-> IF status \in from THEN to ELSE status,
   emits  |-> status \in from]

\* Mutant: a late notification revives a failed upload.
MarkUploadedRevives(status) ==
  Transition(status, {"pending", "failed"}, "processing", {"processing", "success"})

MarkUploaded(status) ==
  Transition(status, {"pending"}, "processing", {"processing", "success"})

MarkExtracting(status) ==
  Transition(status, {"pending", "processing", "failed"}, "processing", {"success"})

MarkFramesReady(status) ==
  Transition(status, {"pending", "processing"}, "processing", {"success"})

MarkExtractionFailed(status) ==
  Transition(status, {"pending", "processing"}, "failed", {"failed"})

MarkOCRProcessing(status) ==
  Transition(status, {"pending", "processing", "failed"}, "processing", {"success"})

RecordOCRProgress(status) ==
  Transition(status, {"processing"}, "processing", {"pending", "success", "failed"})

MarkOCRReady(status) ==
  Transition(status, {"pending", "processing"}, "processing", {"success"})

MarkOCRFailed(status) ==
  Transition(status, {"pending", "processing"}, "failed", {"failed"})

MarkClassifying(status) ==
  Transition(status, {"pending", "processing", "failed"}, "processing", {"success"})

MarkClassified(status) ==
  Transition(status, {"pending", "processing"}, "success", {"success"})

MarkClassifyFailed(status) ==
  Transition(status, {"pending", "processing"}, "failed", {"failed"})

MarkUploadExpired(status) ==
  Transition(status, {"pending"}, "failed", {})
================================================================================
