-------------------------- MODULE EventDeliveryProofs --------------------------
(***************************************************************************)
(* What EventDelivery guarantees for every number of events, handlers,     *)
(* consumers, retries and republications, and under every set of faults.   *)
(***************************************************************************)
EXTENDS EventDelivery, TLAPS

\* A copy in the retry queue has a retry left: handleDelivery sends it there only
\* below the limit, and the x-death count grows when it leaves.
RetryLeft == \A c \in Copy : where[c] = "retry" => attempts[c] < MaxRetries

\* TypeOK as an inductive invariant.
TypeInv == TypeOK /\ RetryLeft

LEMMA CopyParts ==
  ASSUME NEW c \in Copy, NEW h \in Handler
  PROVE  EventOf(c) \in Event /\ <<EventOf(c), h>> \in Key
BY DEF Copy, EventOf, Key

LEMMA TypeInit == Init => TypeInv
BY EventDeliveryAssumption
   DEF Init, TypeInv, TypeOK, RetryLeft, Handler, Failure, Key

LEMMA TypeStep == TypeInv /\ [Next]_vars => TypeInv'
<1> SUFFICES ASSUME TypeInv, [Next]_vars PROVE TypeInv'
  OBVIOUS
<1> USE EventDeliveryAssumption DEF TypeInv, TypeOK, RetryLeft, Handler, Failure,
        relayVars, brokerVars, workerVars, markVars
<1>1. ASSUME NEW e \in Event, StoreEvent(e) PROVE TypeInv'
  BY <1>1 DEF StoreEvent
<1>2. CASE FetchUnpublished
  BY <1>2 DEF FetchUnpublished, Unpublished
<1>3. ASSUME NEW e \in Event, Publish(e) PROVE TypeInv'
  <2>1. sends[e] + 1 \in 1 .. MaxPublishes
    BY <1>3 DEF Publish
  <2>2. where' \in [Copy -> {"unsent", "ready", "held", "retry", "gone"}]
    BY <1>3 DEF Publish
  <2>3. \A c \in Copy : where'[c] = "retry" => where[c] = "retry"
    BY <1>3 DEF Publish
  <2>4. QED
    BY <1>3, <2>1, <2>2, <2>3 DEF Publish
<1>4. CASE PublishFails
  BY <1>4 DEF PublishFails
<1>5. CASE MarkPublished
  BY <1>5 DEF MarkPublished
<1>6. CASE RelayStops
  BY <1>6 DEF RelayStops
<1>7. ASSUME NEW c \in Copy, RetryExpires(c) PROVE TypeInv'
  BY <1>7 DEF RetryExpires
<1>8. ASSUME NEW c \in Copy, Replay(c) PROVE TypeInv'
  BY <1>8 DEF Replay
<1>9. ASSUME NEW w \in Worker, NEW c \in Copy, Deliver(w, c) PROVE TypeInv'
  BY <1>9 DEF Deliver
<1>10. ASSUME NEW w \in Worker, Process(w) \/ Crash(w) \/ Disconnect(w) PROVE TypeInv'
  <2>1. KeyOf(w) \in Key \/ pc[w] = "idle"
    BY CopyParts DEF KeyOf
  <2>2. CASE MarkProcessed(w)
    BY <2>1, <2>2 DEF MarkProcessed
  <2>3. CASE AlreadyProcessed(w)
    BY <2>3 DEF AlreadyProcessed, NextHandler
  <2>4. CASE MarkFails(w)
    BY <2>1, <2>4 DEF MarkFails, Fail
  <2>5. CASE HandlerReturns(w)
    BY <2>1, <2>5 DEF HandlerReturns, NextHandler
  <2>6. CASE HandlerFails(w)
    BY <2>6 DEF HandlerFails, Fail
  <2>7. CASE UnmarkProcessed(w)
    BY <2>7 DEF UnmarkProcessed
  <2>8. CASE SendToDLQ(w)
    BY <2>8 DEF SendToDLQ
  <2>9. CASE Nack(w)
    BY <2>9 DEF Nack, Settle, Release, GivesUp
  <2>10. CASE Ack(w)
    BY <2>10 DEF Ack, Settle, Release
  <2>11. CASE Crash(w)
    BY <2>11 DEF Crash, Settle, Release
  <2>12. CASE Disconnect(w)
    BY <2>12 DEF Disconnect, Settle
  <2>13. QED
    BY <1>10, <2>2, <2>3, <2>4, <2>5, <2>6, <2>7, <2>8, <2>9, <2>10, <2>11, <2>12
    DEF Process
<1>11. CASE UNCHANGED vars
  BY <1>11 DEF vars
<1>12. QED
  BY <1>1, <1>2, <1>3, <1>4, <1>5, <1>6, <1>7, <1>8, <1>9, <1>10, <1>11
  DEF Next, Relay

\* Every state of every behaviour is well typed; with it, no copy is ever tried
\* more often than RABBITMQ_MAX_RETRIES allows.
THEOREM TypeCorrect == Spec => []TypeOK
<1>1. TypeInv => TypeOK
  BY DEF TypeInv
<1>2. QED
  BY <1>1, TypeInit, TypeStep, PTL DEF Spec

--------------------------------------------------------------------------------
(* At most one call *)

\* The inductive invariant behind at-most-once: who is inside a handler holds its
\* mark, alone, and a handler that succeeded keeps its mark for ever.  The two
\* properties alone do not survive a step: MarkProcessed reads only the marks.
MarkInv ==
  /\ OneCallAtATime
  /\ NeverCalledAgain
  /\ \A w \in Worker : Calling(w) => KeyOf(w) \in processed
  /\ succeeded \subseteq processed

\* A step that makes no call, ends none, and touches no mark.
Quiet ==
  /\ \A w \in Worker : Calling(w)' = Calling(w)
  /\ \A w \in Worker : Calling(w) => KeyOf(w)' = KeyOf(w)
  /\ UNCHANGED markVars

\* A step that ends the call of w, with the marks as they are.
CallEnds(w) ==
  /\ Calling(w) /\ ~Calling(w)'
  /\ \A v \in Worker \ {w} : Calling(v)' = Calling(v) /\ KeyOf(v)' = KeyOf(v)
  /\ processed' = processed

LEMMA MarkInit == Init => MarkInv
BY DEF Init, MarkInv, OneCallAtATime, NeverCalledAgain, Calling

LEMMA QuietStep == MarkInv /\ Quiet => MarkInv'
BY DEF MarkInv, OneCallAtATime, NeverCalledAgain, Quiet, markVars

\* Every step is of one of six kinds, as far as calls and marks are concerned.
MarkLost(w) ==
  /\ pc[w] = "mark"
  /\ processed' = processed \cup {KeyOf(w)}
  /\ UNCHANGED succeeded
  /\ \A v \in Worker : Calling(v)' = Calling(v)
  /\ \A v \in Worker : Calling(v) => KeyOf(v)' = KeyOf(v)

LEMMA StepKinds ==
  ASSUME TypeOK, [Next]_vars
  PROVE  \/ Quiet
         \/ \E w \in Worker :
              \/ MarkProcessed(w)
              \/ MarkLost(w)
              \/ HandlerReturns(w)
              \/ UnmarkProcessed(w)
              \/ CallEnds(w) /\ UNCHANGED succeeded
<1> USE DEF TypeOK, Quiet, Calling, KeyOf,
        relayVars, brokerVars, workerVars, markVars
<1>1. ASSUME NEW e \in Event, StoreEvent(e) PROVE Quiet
  BY <1>1 DEF StoreEvent
<1>2. CASE Relay
  BY <1>2 DEF Relay, FetchUnpublished, Publish, PublishFails, MarkPublished, RelayStops
<1>3. ASSUME NEW c \in Copy, RetryExpires(c) \/ Replay(c) PROVE Quiet
  BY <1>3 DEF RetryExpires, Replay
<1>4. ASSUME NEW w \in Worker, NEW c \in Copy, Deliver(w, c) PROVE Quiet
  BY <1>4 DEF Deliver
<1>5. ASSUME NEW w \in Worker, AlreadyProcessed(w) PROVE Quiet
  BY <1>5 DEF AlreadyProcessed, NextHandler
<1>6. ASSUME NEW w \in Worker, MarkFails(w) PROVE Quiet \/ MarkLost(w)
  <2>1. CASE UNCHANGED processed
    BY <1>6, <2>1 DEF MarkFails, Fail
  <2>2. CASE processed' = processed \cup {KeyOf(w)}
    BY <1>6, <2>2 DEF MarkFails, Fail, MarkLost
  <2>3. QED
    BY <1>6, <2>1, <2>2 DEF MarkFails
<1>7. ASSUME NEW w \in Worker, HandlerFails(w)
      PROVE  Quiet \/ (CallEnds(w) /\ UNCHANGED succeeded)
  <2>1. PICK kind \in Failure :
          /\ Fail(w, kind)
          /\ pc' = [pc EXCEPT ![w] = IF kind = "retryable" THEN "unmark" ELSE "failed"]
    BY <1>7 DEF HandlerFails
  <2>2. CASE kind = "retryable"
    BY <1>7, <2>1, <2>2 DEF HandlerFails, Fail
  <2>3. CASE kind # "retryable"
    BY <1>7, <2>1, <2>3 DEF HandlerFails, Fail, CallEnds
  <2>4. QED
    BY <2>2, <2>3
<1>8. ASSUME NEW w \in Worker, SendToDLQ(w) \/ Nack(w) \/ Ack(w) \/ Disconnect(w)
      PROVE  Quiet
  BY <1>8 DEF SendToDLQ, Nack, Ack, Disconnect, Release
<1>9. ASSUME NEW w \in Worker, Crash(w)
      PROVE  Quiet \/ (CallEnds(w) /\ UNCHANGED succeeded)
  <2>1. CASE pc[w] \in {"run", "unmark"}
    BY <1>9, <2>1 DEF Crash, Release, CallEnds
  <2>2. CASE pc[w] \notin {"run", "unmark"}
    BY <1>9, <2>2 DEF Crash, Release
  <2>3. QED
    BY <2>1, <2>2
<1>10. CASE UNCHANGED vars
  BY <1>10 DEF vars
<1>11. QED
  BY <1>1, <1>2, <1>3, <1>4, <1>5, <1>6, <1>7, <1>8, <1>9, <1>10 DEF Next, Process

\* What the steps of a goroutine in a handler leave alone.
LEMMA OthersUnchanged ==
  ASSUME TypeOK, NEW w \in Worker,
         MarkProcessed(w) \/ HandlerReturns(w) \/ UnmarkProcessed(w)
  PROVE  /\ \A v \in Worker \ {w} : Calling(v)' = Calling(v) /\ KeyOf(v)' = KeyOf(v)
         /\ MarkProcessed(w) => ~Calling(w) /\ Calling(w)' /\ KeyOf(w)' = KeyOf(w)
         /\ ~MarkProcessed(w) => Calling(w) /\ ~Calling(w)'
BY DEF TypeOK, MarkProcessed, HandlerReturns, UnmarkProcessed, NextHandler, Calling, KeyOf

LEMMA MarkStep == TypeOK /\ MarkInv /\ [Next]_vars => MarkInv'
<1> SUFFICES ASSUME TypeOK, MarkInv, [Next]_vars PROVE MarkInv'
  OBVIOUS
<1> USE DEF MarkInv, OneCallAtATime, NeverCalledAgain
<1>1. CASE Quiet
  BY <1>1, QuietStep
<1>2. ASSUME NEW w \in Worker, MarkProcessed(w) PROVE MarkInv'
  <2>1. KeyOf(w) \notin processed /\ processed' = processed \cup {KeyOf(w)}
          /\ succeeded' = succeeded
    BY <1>2 DEF MarkProcessed
  <2>2. QED
    BY <1>2, <2>1, OthersUnchanged
<1>3. ASSUME NEW w \in Worker, MarkLost(w) PROVE MarkInv'
  BY <1>3 DEF MarkLost
<1>4. ASSUME NEW w \in Worker, HandlerReturns(w) PROVE MarkInv'
  <2>1. processed' = processed /\ succeeded' = succeeded \cup {KeyOf(w)}
    BY <1>4 DEF HandlerReturns
  <2>2. Calling(w) /\ ~Calling(w)'
        /\ \A v \in Worker \ {w} : Calling(v)' = Calling(v) /\ KeyOf(v)' = KeyOf(v)
    BY <1>4, OthersUnchanged DEF MarkProcessed, HandlerReturns
  <2>3. QED
    BY <2>1, <2>2
<1>5. ASSUME NEW w \in Worker, UnmarkProcessed(w) PROVE MarkInv'
  <2>1. /\ processed' = processed \ {KeyOf(w)} \/ processed' = processed
        /\ succeeded' = succeeded
    BY <1>5 DEF UnmarkProcessed
  <2>2. Calling(w) /\ ~Calling(w)'
        /\ \A v \in Worker \ {w} : Calling(v)' = Calling(v) /\ KeyOf(v)' = KeyOf(v)
    BY <1>5, OthersUnchanged DEF MarkProcessed, UnmarkProcessed
  <2>3. QED
    BY <2>1, <2>2
<1>6. ASSUME NEW w \in Worker, CallEnds(w), UNCHANGED succeeded PROVE MarkInv'
  BY <1>6 DEF CallEnds
<1>7. QED
  BY <1>1, <1>2, <1>3, <1>4, <1>5, <1>6, StepKinds

LEMMA MarkInvariant == Spec => [](TypeOK /\ MarkInv)
<1>1. Init /\ [][Next]_vars /\ []TypeOK => []MarkInv
  BY MarkInit, MarkStep, PTL
<1>2. QED
  BY <1>1, TypeCorrect, PTL DEF Spec

\* Duplicated publications, redeliveries, crashes and lost answers never put two
\* goroutines inside one handler of one event.
THEOREM OneCallAtATimeTheorem == Spec => []OneCallAtATime
<1>1. MarkInv => OneCallAtATime
  BY DEF MarkInv
<1>2. QED
  BY <1>1, MarkInvariant, PTL

\* A handler that returned nil for an event is not called for it again.
THEOREM NeverCalledAgainTheorem == Spec => []NeverCalledAgain
<1>1. MarkInv => NeverCalledAgain
  BY DEF MarkInv
<1>2. QED
  BY <1>1, MarkInvariant, PTL

--------------------------------------------------------------------------------
(* The machinery implements HandlerOnce *)

\* Where the calls of the other goroutines go on, InCall loses or wins one pair.
LEMMA CallStarts ==
  ASSUME NEW w \in Worker, ~Calling(w), Calling(w)', KeyOf(w)' = KeyOf(w),
         \A v \in Worker \ {w} : Calling(v)' = Calling(v) /\ KeyOf(v)' = KeyOf(v)
  PROVE  InCall' = InCall \cup {KeyOf(w)}
BY DEF InCall

LEMMA CallStops ==
  ASSUME MarkInv, NEW w \in Worker, Calling(w), ~Calling(w)',
         \A v \in Worker \ {w} : Calling(v)' = Calling(v) /\ KeyOf(v)' = KeyOf(v)
  PROVE  KeyOf(w) \in InCall /\ InCall' = InCall \ {KeyOf(w)}
BY DEF InCall, MarkInv, OneCallAtATime

LEMMA AbstractInit == Init => Abstract!Init
BY DEF Init, Abstract!Init, InCall, GivenUp, Calling

LEMMA AbstractStep ==
  TypeOK /\ MarkInv /\ [Next]_vars => [Abstract!Next]_(Abstract!vars)
<1> SUFFICES ASSUME TypeOK, MarkInv, [Next]_vars PROVE [Abstract!Next]_(Abstract!vars)
  OBVIOUS
<1> DEFINE Step(k) == Abstract!Claim(k) \/ Abstract!Finish(k)
                        \/ Abstract!Release(k) \/ Abstract!Drop(k)
<1>a. \A w \in Worker : pc[w] # "idle" => KeyOf(w) \in Abstract!Key
  BY CopyParts DEF TypeOK, KeyOf, Key, Abstract!Key
<1>b. InCall \subseteq processed /\ succeeded \subseteq processed
        /\ InCall \cap succeeded = {}
  BY DEF MarkInv, NeverCalledAgain, InCall
<1>1. CASE Quiet
  <2>1. InCall' = InCall
    BY <1>1 DEF Quiet, InCall
  <2>2. QED
    BY <1>1, <2>1 DEF Quiet, markVars, GivenUp, Abstract!vars
<1>2. ASSUME NEW w \in Worker, MarkProcessed(w) PROVE Abstract!Claim(KeyOf(w))
  <2>1. KeyOf(w) \notin processed /\ processed' = processed \cup {KeyOf(w)}
          /\ succeeded' = succeeded
    BY <1>2 DEF MarkProcessed
  <2>2. InCall' = InCall \cup {KeyOf(w)}
    BY <1>2, OthersUnchanged, CallStarts
  <2>3. QED
    BY <1>b, <2>1, <2>2 DEF Abstract!Claim, GivenUp
<1>3. ASSUME NEW w \in Worker, MarkLost(w)
      PROVE  Abstract!Drop(KeyOf(w)) \/ UNCHANGED Abstract!vars
  <2>1. InCall' = InCall
    BY <1>3 DEF MarkLost, InCall
  <2>2. processed' = processed \cup {KeyOf(w)} /\ succeeded' = succeeded
    BY <1>3 DEF MarkLost
  <2>3. CASE KeyOf(w) \in processed
    BY <2>1, <2>2, <2>3 DEF GivenUp, Abstract!vars
  <2>4. CASE KeyOf(w) \notin processed
    BY <1>b, <2>1, <2>2, <2>4 DEF GivenUp, Abstract!Drop
  <2>5. QED
    BY <2>3, <2>4
<1>4. ASSUME NEW w \in Worker, HandlerReturns(w) PROVE Abstract!Finish(KeyOf(w))
  <2>1. processed' = processed /\ succeeded' = succeeded \cup {KeyOf(w)}
    BY <1>4 DEF HandlerReturns
  <2>2. KeyOf(w) \in InCall /\ InCall' = InCall \ {KeyOf(w)}
    BY <1>4, OthersUnchanged, CallStops DEF MarkProcessed, HandlerReturns
  <2>3. QED
    BY <1>b, <2>1, <2>2 DEF Abstract!Finish, GivenUp
<1>5. ASSUME NEW w \in Worker, UnmarkProcessed(w)
      PROVE  Abstract!Release(KeyOf(w)) \/ Abstract!Drop(KeyOf(w))
  <2>1. KeyOf(w) \in InCall /\ InCall' = InCall \ {KeyOf(w)} /\ succeeded' = succeeded
    BY <1>5, OthersUnchanged, CallStops DEF MarkProcessed, UnmarkProcessed
  <2>2. CASE processed' = processed \ {KeyOf(w)}
    BY <1>b, <2>1, <2>2 DEF Abstract!Release, GivenUp
  <2>3. CASE processed' = processed
    BY <1>b, <2>1, <2>3 DEF Abstract!Drop, GivenUp
  <2>4. QED
    BY <1>5, <2>2, <2>3 DEF UnmarkProcessed
<1>6. ASSUME NEW w \in Worker, CallEnds(w), UNCHANGED succeeded
      PROVE  Abstract!Drop(KeyOf(w))
  <2>1. KeyOf(w) \in InCall /\ InCall' = InCall \ {KeyOf(w)}
    BY <1>6, CallStops DEF CallEnds
  <2>2. QED
    BY <1>6, <1>b, <2>1 DEF CallEnds, Abstract!Drop, GivenUp
<1>7. \A w \in Worker : MarkProcessed(w) \/ MarkLost(w) \/ HandlerReturns(w)
        \/ UnmarkProcessed(w) \/ CallEnds(w) => pc[w] # "idle"
  BY DEF MarkProcessed, MarkLost, HandlerReturns, UnmarkProcessed, CallEnds, Calling
<1>8. CASE \E w \in Worker : MarkProcessed(w) \/ MarkLost(w) \/ HandlerReturns(w)
             \/ UnmarkProcessed(w) \/ (CallEnds(w) /\ UNCHANGED succeeded)
  <2>1. PICK w \in Worker : MarkProcessed(w) \/ MarkLost(w) \/ HandlerReturns(w)
             \/ UnmarkProcessed(w) \/ (CallEnds(w) /\ UNCHANGED succeeded)
    BY <1>8
  <2>2. KeyOf(w) \in Abstract!Key
    BY <1>a, <1>7, <2>1
  <2>3. Step(KeyOf(w)) \/ UNCHANGED Abstract!vars
    BY <1>2, <1>3, <1>4, <1>5, <1>6, <2>1
  <2>4. QED
    BY <2>2, <2>3 DEF Abstract!Next
<1>9. QED
  BY <1>1, <1>8, StepKinds

\* Relay, broker, consumers and marks together keep the promise of HandlerOnce to
\* every handler, under every set of faults.
THEOREM DeliveryImplementsHandlerOnce == Spec => ImplementsHandlerOnce
<1>1. Init /\ [][Next]_vars /\ [](TypeOK /\ MarkInv)
        => Abstract!Init /\ [][Abstract!Next]_(Abstract!vars)
  BY AbstractInit, AbstractStep, PTL
<1>2. QED
  BY <1>1, MarkInvariant, PTL DEF Spec, ImplementsHandlerOnce, Abstract!Spec
--------------------------------------------------------------------------------
(* No event is lost without a trace *)

\* Nothing disconnects a consumer: its delivery is held, and held by it alone, and
\* a publication finds its copy unsent.
HeldInv ==
  /\ \A w \in Worker : pc[w] # "idle" => owns[w] /\ where[msg[w]] = "held"
  /\ \A v, w \in Worker : pc[v] # "idle" /\ pc[w] # "idle" /\ msg[v] = msg[w] => v = w
  /\ \A e \in Event, n \in 1 .. MaxPublishes : n > sends[e] => where[<<e, n>>] = "unsent"

\* The copy may still reach handler h: it waits in a queue, or its goroutine has not
\* passed h yet.
Ahead(w, h) == pc[w] \in {"mark", "run", "unmark", "failed"} /\ hnd[w] <= h
Pending(c, h) ==
  where[c] \in {"ready", "retry"} \/ \E w \in Worker : msg[w] = c /\ Ahead(w, h)

Owed(e) == outbox[e] = "published" \/ e \in sent

\* The inductive form of NoSilentLoss, a handler at a time.  The property itself is
\* not inductive: a goroutine that skips a handler relies on the one inside it.
TraceInv ==
  \A e \in Event, h \in Handler :
    Owed(e) => \/ <<e, h>> \in succeeded
               \/ DeadLettered(e)
               \/ Abandoned(e)
               \/ \E c \in Copy : EventOf(c) = e /\ Pending(c, h)

LEMMA HeldInit == Init => HeldInv
BY EventDeliveryAssumption DEF Init, HeldInv, Copy

LEMMA HeldStep ==
  ASSUME "disconnect" \notin Faults, TypeOK, HeldInv, [Next]_vars
  PROVE  HeldInv'
<1> USE EventDeliveryAssumption
    DEF HeldInv, TypeOK, relayVars, brokerVars, workerVars, markVars
<1>1. ASSUME NEW e \in Event, StoreEvent(e) PROVE HeldInv'
  BY <1>1 DEF StoreEvent
<1>2. ASSUME NEW e \in Event, Publish(e) PROVE HeldInv'
  <2>1. where[<<e, sends[e] + 1>>] = "unsent" /\ <<e, sends[e] + 1>> \in Copy
    BY <1>2 DEF Publish, Copy
  <2>2. QED
    BY <1>2, <2>1 DEF Publish, Copy
<1>3. CASE FetchUnpublished \/ PublishFails \/ MarkPublished \/ RelayStops
  BY <1>3 DEF FetchUnpublished, PublishFails, MarkPublished, RelayStops
<1>4. ASSUME NEW c \in Copy, RetryExpires(c) \/ Replay(c) PROVE HeldInv'
  <2>1. /\ where[c] \in {"retry", "gone"}
        /\ \A d \in Copy : d # c => where'[d] = where[d]
        /\ UNCHANGED <<sends, pc, msg, owns>>
    BY <1>4 DEF RetryExpires, Replay
  <2>2. \A e \in Event, n \in 1 .. MaxPublishes : <<e, n>> \in Copy
    BY DEF Copy
  <2>3. QED
    BY <2>1, <2>2
<1>5. ASSUME NEW w \in Worker, NEW c \in Copy, Deliver(w, c) PROVE HeldInv'
  BY <1>5 DEF Deliver, Copy
<1>6. ASSUME NEW w \in Worker, Process(w) \/ Crash(w) PROVE HeldInv'
  <2>1. CASE MarkProcessed(w) \/ AlreadyProcessed(w) \/ MarkFails(w) \/ HandlerReturns(w)
               \/ UnmarkProcessed(w) \/ SendToDLQ(w)
    BY <2>1 DEF MarkProcessed, AlreadyProcessed, MarkFails, HandlerReturns,
                UnmarkProcessed, SendToDLQ, NextHandler, Fail
  <2>2. CASE HandlerFails(w)
    BY <2>2 DEF HandlerFails, Fail
  <2>3. CASE Nack(w) \/ Ack(w) \/ Crash(w)
    <3>1. /\ pc[w] # "idle" /\ msg[w] \in Copy /\ where[msg[w]] = "held"
          /\ \A d \in Copy : d # msg[w] => where'[d] = where[d]
          /\ pc' = [pc EXCEPT ![w] = "idle"]
          /\ \A v \in Worker : v # w => msg'[v] = msg[v] /\ owns'[v] = owns[v]
          /\ UNCHANGED sends
      BY <2>3 DEF Nack, Ack, Crash, Settle, Release
    <3>2. \A e \in Event, n \in 1 .. MaxPublishes : <<e, n>> \in Copy
      BY DEF Copy
    <3>3. QED
      BY <3>1, <3>2
  <2>4. QED
    BY <1>6, <2>1, <2>2, <2>3 DEF Process
<1>7. CASE UNCHANGED vars
  BY <1>7 DEF vars
<1>8. QED
  BY <1>1, <1>2, <1>3, <1>4, <1>5, <1>6, <1>7 DEF Next, Relay, Disconnect

\* Successes and abandoned calls stay.
LEMMA MarksStay ==
  TypeOK /\ MarkInv /\ [Next]_vars => succeeded \subseteq succeeded' /\ GivenUp \subseteq GivenUp'
BY AbstractStep DEF Abstract!Next, Abstract!Claim, Abstract!Finish, Abstract!Release,
                    Abstract!Drop, Abstract!vars

\* A step after which every copy has what it had ahead, and no event is owed more.
Keeps ==
  /\ \A c \in Copy, h \in Handler : Pending(c, h) => Pending(c, h)'
  /\ \A c \in Copy : dlq[c] # "none" => dlq'[c] # "none"
  /\ \A e \in Event : Owed(e)' => Owed(e)

LEMMA KeepsStep ==
  ASSUME TypeOK, MarkInv, TraceInv, [Next]_vars, Keeps
  PROVE  TraceInv'
BY MarksStay DEF TraceInv, Keeps, DeadLettered, Abandoned, EventOf
LEMMA TraceInit == Init => TraceInv
BY DEF Init, TraceInv, Owed

\* The goroutine of a held copy is the only one a step of it can take anything from.
LEMMA AheadOthers ==
  ASSUME TypeOK, NEW w \in Worker,
         Process(w) \/ Crash(w)
  PROVE  \A v \in Worker \ {w}, h \in Handler :
           msg'[v] = msg[v] /\ (Ahead(v, h) => Ahead(v, h)')
BY DEF TypeOK, Process, MarkProcessed, AlreadyProcessed, MarkFails, HandlerReturns,
       HandlerFails, UnmarkProcessed, SendToDLQ, Nack, Ack, Crash, NextHandler, Fail,
       Release, Ahead

\* Nothing a copy has ahead is lost where goroutines and places stay.
LEMMA PendingStays ==
  ASSUME UNCHANGED <<where, pc, msg, hnd>>
  PROVE  \A c \in Copy, h \in Handler : Pending(c, h)' <=> Pending(c, h)
<1>1. \A w \in Worker, h \in Handler : Ahead(w, h)' <=> Ahead(w, h)
  BY DEF Ahead
<1>2. QED
  BY <1>1 DEF Pending

LEMMA TraceStep ==
  ASSUME "disconnect" \notin Faults, "publish_lost" \notin Faults,
         TypeOK, MarkInv, HeldInv, TraceInv, [Next]_vars
  PROVE  TraceInv'
<1> USE EventDeliveryAssumption DEF TypeOK, relayVars, brokerVars, workerVars, markVars
<1>a. succeeded \subseteq succeeded'
  BY MarksStay
<1>b. \A e \in Event : Abandoned(e) => Abandoned(e)'
  BY MarksStay DEF Abandoned
<1>1. ASSUME NEW e \in Event, StoreEvent(e) PROVE Keeps
  BY <1>1 DEF StoreEvent, Keeps, Pending, Ahead, Owed
<1>2. CASE FetchUnpublished \/ PublishFails \/ MarkPublished \/ RelayStops
  <2>1. UNCHANGED <<where, dlq, pc, msg, hnd>> /\ \A e \in Event : Owed(e)' => Owed(e)
    BY <1>2 DEF FetchUnpublished, PublishFails, MarkPublished, RelayStops, Owed
  <2>2. Keeps
    BY <2>1, PendingStays DEF Keeps
  <2>3. QED
    BY <2>2, KeepsStep
<1>3. ASSUME NEW e \in Event, Publish(e) PROVE TraceInv'
  <2>0. PICK c \in Copy : c = <<e, sends[e] + 1>>
    BY <1>3 DEF Publish, Copy
  <2>1. c \in Copy /\ EventOf(c) = e /\ where' = [where EXCEPT ![c] = "ready"]
        /\ UNCHANGED <<outbox, dlq, pc, msg, hnd, processed, succeeded>>
        /\ sent' = sent \cup {e}
    BY <1>3, <2>0 DEF Publish, EventOf
  <2>2. \A d \in Copy, h \in Handler : Pending(d, h) => Pending(d, h)'
    BY <2>1 DEF Pending, Ahead
  <2>3. \A h \in Handler : Pending(c, h)'
    BY <2>1 DEF Pending
  <2>4. \A d \in Event : Owed(d)' => Owed(d) \/ d = e
    BY <2>1 DEF Owed
  <2>6. ASSUME NEW d \in Event, NEW h \in Handler, Owed(d)', d # e
        PROVE  \/ <<d, h>> \in succeeded' \/ DeadLettered(d)' \/ Abandoned(d)'
               \/ \E k \in Copy : EventOf(k) = d /\ Pending(k, h)'
    BY <1>a, <1>b, <2>1, <2>2, <2>4, <2>6 DEF TraceInv, DeadLettered, EventOf
  <2>7. ASSUME NEW h \in Handler PROVE \E k \in Copy : EventOf(k) = e /\ Pending(k, h)'
    BY <2>1, <2>3
  <2>8. QED
    BY <2>6, <2>7 DEF TraceInv, EventOf
<1>4. ASSUME NEW c \in Copy, RetryExpires(c) PROVE Keeps
  BY <1>4 DEF RetryExpires, Keeps, Pending, Ahead, Owed
<1>5. ASSUME NEW c \in Copy, Replay(c) PROVE TraceInv'
  <2>1. /\ \A d \in Copy : d # c => dlq'[d] = dlq[d]
        /\ where' = [where EXCEPT ![c] = "ready"]
        /\ UNCHANGED <<outbox, sent, pc, msg, hnd, processed, succeeded>>
    BY <1>5 DEF Replay
  <2>2. \A d \in Copy, h \in Handler : Pending(d, h) \/ d = c => Pending(d, h)'
    BY <2>1 DEF Pending, Ahead
  <2>3. ASSUME NEW e \in Event, NEW h \in Handler, Owed(e)'
        PROVE  \/ <<e, h>> \in succeeded' \/ DeadLettered(e)' \/ Abandoned(e)'
               \/ \E k \in Copy : EventOf(k) = e /\ Pending(k, h)'
    <3>1. Owed(e) /\ (Abandoned(e) => Abandoned(e)')
      BY <1>b, <2>1, <2>3 DEF Owed
    <3>2. CASE EventOf(c) = e
      BY <2>2, <3>2
    <3>3. CASE EventOf(c) # e
      BY <2>1, <2>2, <3>1, <3>3 DEF TraceInv, DeadLettered
    <3>4. QED
      BY <3>2, <3>3
  <2>4. QED
    BY <2>3 DEF TraceInv, EventOf
<1>6. ASSUME NEW w \in Worker, NEW c \in Copy, Deliver(w, c) PROVE Keeps
  BY <1>6 DEF Deliver, Keeps, Pending, Ahead, Owed, Handler
<1>7. ASSUME NEW w \in Worker, MarkProcessed(w) \/ MarkFails(w) \/ UnmarkProcessed(w)
      PROVE  Keeps
  BY <1>7 DEF MarkProcessed, MarkFails, UnmarkProcessed, Fail, Keeps, Pending, Ahead, Owed
<1>8. ASSUME NEW w \in Worker, HandlerFails(w) PROVE Keeps
  BY <1>8 DEF HandlerFails, Fail, Keeps, Pending, Ahead, Owed
<1>9. ASSUME NEW w \in Worker, Nack(w) \/ Crash(w) PROVE Keeps
  <2>1. /\ \A c \in Copy : c # msg[w] => where'[c] = where[c]
        /\ where'[msg[w]] \in {"ready", "retry"}
        /\ UNCHANGED <<outbox, sent, dlq>>
    BY <1>9 DEF Nack, Crash, Settle, Release, HeldInv
  <2>2. \A v \in Worker \ {w}, h \in Handler :
          msg'[v] = msg[v] /\ (Ahead(v, h) => Ahead(v, h)')
    BY <1>9, AheadOthers DEF Process
  <2>3. ASSUME NEW c \in Copy, NEW h \in Handler, Pending(c, h) PROVE Pending(c, h)'
    <3>1. CASE c = msg[w]
      BY <2>1, <3>1 DEF Pending
    <3>2. CASE c # msg[w]
      BY <2>1, <2>2, <2>3, <3>2 DEF Pending
    <3>3. QED
      BY <3>1, <3>2
  <2>4. QED
    BY <2>1, <2>3 DEF Keeps, Owed
<1>10. ASSUME NEW w \in Worker, Ack(w) PROVE Keeps
  BY <1>10 DEF Ack, Settle, Release, HeldInv, Keeps, Pending, Ahead, Owed
<1>11. ASSUME NEW w \in Worker, SendToDLQ(w) PROVE TraceInv'
  <2>1. PICK c0 \in Copy : c0 = msg[w]
    BY <1>11 DEF SendToDLQ
  <2>2. /\ dlq'[c0] # "none"
        /\ \A c \in Copy : dlq[c] # "none" => dlq'[c] # "none"
        /\ UNCHANGED <<outbox, sent, where, msg, hnd>>
        /\ pc' = [pc EXCEPT ![w] = "ack"]
    BY <1>11, <2>1 DEF SendToDLQ, HeldInv
  <2>3. \A v \in Worker, h \in Handler : Ahead(v, h) => Ahead(v, h)' \/ v = w
    BY <2>2 DEF Ahead
  <2>4. \A c \in Copy, h \in Handler : Pending(c, h) /\ c # c0 => Pending(c, h)'
    BY <2>1, <2>2, <2>3 DEF Pending
  <2>5. ASSUME NEW e \in Event, NEW h \in Handler, Owed(e)'
        PROVE  \/ <<e, h>> \in succeeded' \/ DeadLettered(e)' \/ Abandoned(e)'
               \/ \E c \in Copy : EventOf(c) = e /\ Pending(c, h)'
    <3>1. Owed(e) /\ (DeadLettered(e) \/ EventOf(c0) = e => DeadLettered(e)')
      BY <2>2, <2>5 DEF Owed, DeadLettered, EventOf
    <3>2. QED
      BY <1>a, <1>b, <2>4, <3>1 DEF TraceInv
  <2>6. QED
    BY <2>5 DEF TraceInv, EventOf
<1>12. ASSUME NEW w \in Worker, AlreadyProcessed(w) \/ HandlerReturns(w) PROVE TraceInv'
  <2>1. PICK e0 \in Event, h0 \in Handler, c0 \in Copy :
          c0 = msg[w] /\ e0 = EventOf(c0) /\ h0 = hnd[w]
    BY <1>12, CopyParts DEF AlreadyProcessed, HandlerReturns
  <2>2. UNCHANGED <<outbox, sent, where, dlq, msg>>
    BY <1>12 DEF AlreadyProcessed, HandlerReturns
  <2>3. \A v \in Worker, h \in Handler : Ahead(v, h) /\ ~(v = w /\ h = h0) => Ahead(v, h)'
    BY <1>12, <2>1 DEF AlreadyProcessed, HandlerReturns, NextHandler, Ahead, Handler
  <2>4. \A c \in Copy, h \in Handler :
          Pending(c, h) /\ ~(c = c0 /\ h = h0) => Pending(c, h)'
    BY <2>1, <2>2, <2>3 DEF Pending
  <2>5. \/ <<e0, h0>> \in succeeded'
        \/ <<e0, h0>> \in GivenUp
        \/ \E v \in Worker \ {w} : Calling(v) /\ KeyOf(v) = <<e0, h0>>
    BY <1>12, <2>1 DEF AlreadyProcessed, HandlerReturns, GivenUp, InCall, KeyOf, Calling
  <2>6. ASSUME NEW v \in Worker \ {w}, Calling(v), KeyOf(v) = <<e0, h0>>
        PROVE  \E c \in Copy : EventOf(c) = e0 /\ Pending(c, h0)'
    <3>1. msg[v] \in Copy /\ EventOf(msg[v]) = e0 /\ hnd[v] = h0 /\ Ahead(v, h0)
      BY <2>6 DEF Calling, KeyOf, Ahead, Handler
    <3>2. PICK c \in Copy : c = msg[v]
      BY <3>1
    <3>3. Pending(c, h0)'
      BY <2>2, <2>3, <3>1, <3>2 DEF Pending
    <3>4. QED
      BY <3>1, <3>2, <3>3
  <2>7. \/ <<e0, h0>> \in succeeded' \/ Abandoned(e0)'
        \/ \E c \in Copy : EventOf(c) = e0 /\ Pending(c, h0)'
    BY <1>b, <2>5, <2>6 DEF Abandoned
  <2>8. ASSUME NEW e \in Event, NEW h \in Handler, Owed(e)', e # e0 \/ h # h0
        PROVE  \/ <<e, h>> \in succeeded' \/ DeadLettered(e)' \/ Abandoned(e)'
               \/ \E c \in Copy : EventOf(c) = e /\ Pending(c, h)'
    <3>1. Owed(e) /\ (DeadLettered(e) => DeadLettered(e)')
      BY <2>2, <2>8 DEF Owed, DeadLettered, EventOf
    <3>2. \A c \in Copy : EventOf(c) = e /\ Pending(c, h) => Pending(c, h)'
      BY <2>1, <2>4, <2>8
    <3>3. QED
      BY <1>a, <1>b, <3>1, <3>2 DEF TraceInv
  <2>9. QED
    BY <2>7, <2>8 DEF TraceInv, EventOf
<1>13. CASE UNCHANGED vars
  <2>1. UNCHANGED <<where, dlq, pc, msg, hnd, outbox, sent>>
    BY <1>13 DEF vars
  <2>2. Keeps
    BY <2>1, PendingStays DEF Keeps, Owed
  <2>3. QED
    BY <2>2, KeepsStep
<1>14. QED
  BY <1>1, <1>2, <1>3, <1>4, <1>5, <1>6, <1>7, <1>8, <1>9, <1>10, <1>11, <1>12, <1>13,
     KeepsStep
  DEF Next, Relay, Process, Disconnect

\* With publisher confirms and no channel closing under a handler, what the relay has
\* published is handled by every handler, on its way, or has left a trace: under
\* crashes, republications, errors of any class, lost answers, failed dead letters
\* and replays.
THEOREM NoSilentLossTheorem ==
  ASSUME "disconnect" \notin Faults, "publish_lost" \notin Faults
  PROVE  Spec => []NoSilentLoss
<1>1. TypeOK /\ HeldInv /\ TraceInv => NoSilentLoss
  <2> SUFFICES ASSUME TypeOK, HeldInv, TraceInv, NEW e \in Event, outbox[e] = "published",
                      ~Handled(e), ~DeadLettered(e), ~Abandoned(e)
               PROVE  InTransit(e)
    BY DEF NoSilentLoss, Settled
  <2>1. PICK h \in Handler : <<e, h>> \notin succeeded
    BY DEF Handled
  <2>2. PICK c \in Copy : EventOf(c) = e /\ Pending(c, h)
    BY <2>1 DEF TraceInv, Owed
  <2>3. where[c] \in {"ready", "held", "retry"}
    BY <2>2 DEF Pending, Ahead, HeldInv
  <2>4. QED
    BY <2>2, <2>3 DEF InTransit
<1>2. Init /\ [][Next]_vars /\ [](TypeOK /\ MarkInv) => [](HeldInv /\ TraceInv)
  BY HeldInit, HeldStep, TraceInit, TraceStep, PTL
<1>3. QED
  BY <1>1, <1>2, MarkInvariant, TypeCorrect, PTL DEF Spec
=================================================================================
