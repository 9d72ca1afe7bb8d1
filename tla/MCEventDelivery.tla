---------------------------- MODULE MCEventDelivery ----------------------------
(* Instances of EventDelivery for TLC. *)
EXTENDS EventDelivery

AllFaults == FaultKind
\* What can lose an event, less the faults that leave no trace of it (publish_lost,
\* disconnect) and a crash that may come again for ever.
Traceable == {"relay_crash", "plain", "mark_reply", "unmark", "dlq_publish", "replay"}
================================================================================
