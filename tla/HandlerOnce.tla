------------------------------ MODULE HandlerOnce ------------------------------
(***************************************************************************)
(* What the event machinery promises to the code of one event handler,     *)
(* whatever happens to the relay, the broker and the consumers: for each   *)
(* pair of an event and a handler at most one call is in progress, and     *)
(* after a call that returned without error there is never another one.    *)
(* It promises nothing about a call ever happening.                        *)
(***************************************************************************)
CONSTANTS Event,    \* events, one outbox row each
          Handler   \* names of the handlers registered for them

VARIABLES running,   \* pairs <<event, handler>> with a call in progress
          done,      \* pairs of which a call returned nil
          dropped    \* pairs given up: no call will ever be made again

vars == <<running, done, dropped>>

Key == Event \X Handler

Init == running = {} /\ done = {} /\ dropped = {}

Claim(k) ==
  /\ k \notin running \cup done \cup dropped
  /\ running' = running \cup {k}
  /\ UNCHANGED <<done, dropped>>

Finish(k) ==
  /\ k \in running
  /\ running' = running \ {k}
  /\ done' = done \cup {k}
  /\ UNCHANGED dropped

\* A failed call whose event will be offered again.
Release(k) ==
  /\ k \in running
  /\ running' = running \ {k}
  /\ UNCHANGED <<done, dropped>>

\* A call, or the claim for one, that nobody will repeat.
Drop(k) ==
  /\ k \notin done \cup dropped
  /\ running' = running \ {k}
  /\ dropped' = dropped \cup {k}
  /\ UNCHANGED done

Next == \E k \in Key : Claim(k) \/ Finish(k) \/ Release(k) \/ Drop(k)

Spec == Init /\ [][Next]_vars
================================================================================
