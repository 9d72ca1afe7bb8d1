---------------------------- MODULE OCRWorkerProofs ----------------------------
(***************************************************************************)
(* Theorems about OCRWorker, for any replicas, requests, prefetch count    *)
(* and number of faults: no request is lost, and only a fault makes one be *)
(* answered again.                                                         *)
(***************************************************************************)
EXTENDS OCRWorker, SequenceTheorems, FiniteSetTheorems, TLAPS

\* As much of the types as the proof needs; what the queues hold does not matter.
WireTypes ==
  /\ results \in [Request -> Seq(Status)]
  /\ wire \in [Worker -> Seq(Sent)]
  /\ task \in [Worker -> Request \cup {Idle}]

\* An acknowledgement on its way is behind a result of its request, or the broker has one.
AckBacked(sent) ==
  \A i \in DOMAIN sent :
    sent[i].is = "ack" /\ sent[i].copy \in Request =>
      \/ results[sent[i].copy] # <<>>
      \/ \E j \in 1 .. i - 1 : sent[j].is = "result" /\ sent[j].copy = sent[i].copy

WireInv == WireTypes /\ NoRequestLost /\ \A w \in Worker : AckBacked(wire[w])

LEMMA AckBackedIf ==
  ASSUME NEW sent \in Seq(Sent),
         \A i \in 1 .. Len(sent) :
           sent[i].is = "ack" /\ sent[i].copy \in Request /\ results[sent[i].copy] = <<>> =>
             \E j \in 1 .. i - 1 : sent[j].is = "result" /\ sent[j].copy = sent[i].copy
  PROVE  AckBacked(sent)
BY DEF AckBacked

LEMMA ResultsGrow ==
  ASSUME NEW sent \in Seq(Sent), AckBacked(sent),
         \A m \in Request : results[m] # <<>> => results'[m] # <<>>
  PROVE  \A i \in DOMAIN sent :
           sent[i].is = "ack" /\ sent[i].copy \in Request =>
             \/ results'[sent[i].copy] # <<>>
             \/ \E j \in 1 .. i - 1 : sent[j].is = "result" /\ sent[j].copy = sent[i].copy
BY DEF AckBacked

\* The broker takes what is first on the wire.
LEMMA HandleKeepsInv ==
  ASSUME WireInv, NEW w \in Worker, Handle(w)
  PROVE  WireInv'
<1> DEFINE sent == Head(wire[w])
<1>1. /\ WireTypes /\ NoRequestLost /\ AckBacked(wire[w])
      /\ wire[w] \in Seq(Sent) /\ wire[w] # <<>>
  BY DEF WireInv, WireTypes, Handle
<1>2. /\ sent \in Sent /\ sent = wire[w][1] /\ 1 \in DOMAIN wire[w]
      /\ Tail(wire[w]) \in Seq(Sent) /\ Len(Tail(wire[w])) = Len(wire[w]) - 1
      /\ \A i \in 1 .. Len(wire[w]) - 1 : Tail(wire[w])[i] = wire[w][i + 1]
  BY <1>1
<1>3. wire' = [wire EXCEPT ![w] = Tail(@)] /\ task' = task
  BY DEF Handle
<1>4. \/ /\ sent.is = "result"
         /\ results' = [results EXCEPT ![sent.copy] = Append(@, sent.status)]
         /\ done' = done
      \/ /\ sent.is # "result" /\ results' = results
         /\ done' = IF sent.is = "ack" THEN done \cup {sent.copy} ELSE done
  BY DEF Handle
<1>5. /\ WireTypes'
      /\ \A m \in Request : results[m] # <<>> => results'[m] # <<>>
      /\ sent.is = "result" => sent.copy \in Request /\ results'[sent.copy] # <<>>
  <2>1. CASE sent.is = "result"
    <3>1. sent.copy \in Request /\ sent.status \in Status
      BY <2>1, <1>2 DEF Sent
    <3>2. /\ Append(results[sent.copy], sent.status) \in Seq(Status)
          /\ Append(results[sent.copy], sent.status) # <<>>
      <4>1. results[sent.copy] \in Seq(Status)
        BY <3>1, <1>1 DEF WireTypes
      <4>2. QED
        BY <3>1, <4>1, AppendProperties
    <3>3. results' = [results EXCEPT ![sent.copy] = Append(@, sent.status)]
      BY <2>1, <1>4
    <3>4. QED
      BY <3>1, <3>2, <3>3, <1>1, <1>2, <1>3 DEF WireTypes
  <2>2. CASE sent.is # "result"
    BY <2>2, <1>1, <1>2, <1>3, <1>4 DEF WireTypes
  <2>3. QED
    BY <2>1, <2>2
<1>6. NoRequestLost'
  <2>1. ASSUME NEW m \in Request, m \in done', m \notin done
        PROVE  results'[m] # <<>>
    <3>1. sent.is = "ack" /\ sent.copy = m
      BY <2>1, <1>4
    <3>2. results[m] # <<>>
      BY <3>1, <1>1, <1>2 DEF AckBacked
    <3>3. QED
      BY <3>2, <1>5
  <2>2. QED
    BY <2>1, <1>1, <1>5 DEF NoRequestLost
<1>7. ASSUME NEW u \in Worker
      PROVE  AckBacked(wire[u])'
  <2>1. CASE u # w
    BY <2>1, <1>1, <1>3, <1>5, ResultsGrow DEF WireInv, WireTypes, AckBacked
  <2>2. CASE u = w
    <3>1. DOMAIN wire'[u] = 1 .. Len(wire[w]) - 1
      BY <2>2, <1>1, <1>2, <1>3 DEF WireTypes
    <3>2. \A i \in 1 .. Len(wire[w]) - 1 : wire'[u][i] = wire[w][i + 1]
      BY <2>2, <1>1, <1>2, <1>3 DEF WireTypes
    <3>3. ASSUME NEW i \in 1 .. Len(wire[w]) - 1,
                 wire[w][i + 1].is = "ack", wire[w][i + 1].copy \in Request,
                 results'[wire[w][i + 1].copy] = <<>>
          PROVE  \E j \in 1 .. i - 1 : /\ wire[w][j + 1].is = "result"
                                      /\ wire[w][j + 1].copy = wire[w][i + 1].copy
      <4>1. PICK k \in 1 .. i : wire[w][k].is = "result" /\ wire[w][k].copy = wire[w][i + 1].copy
        <5>1. i + 1 \in DOMAIN wire[w] /\ (i + 1) - 1 = i
          BY <1>1
        <5>2. results[wire[w][i + 1].copy] = <<>>
          BY <3>3, <1>5
        <5>3. QED
          BY <5>1, <5>2, <3>3, <1>1 DEF AckBacked
      <4>2. k # 1
        BY <3>3, <4>1, <1>2, <1>5
      <4>3. k - 1 \in 1 .. i - 1 /\ (k - 1) + 1 = k
        BY <4>2
      <4>4. QED
        BY <4>1, <4>3
    <3>4. ASSUME NEW i \in DOMAIN wire'[u], wire'[u][i].is = "ack", wire'[u][i].copy \in Request,
                 results'[wire'[u][i].copy] = <<>>
          PROVE  \E j \in 1 .. i - 1 : wire'[u][j].is = "result" /\ wire'[u][j].copy = wire'[u][i].copy
      <4>1. PICK j \in 1 .. i - 1 : /\ wire[w][j + 1].is = "result"
                                    /\ wire[w][j + 1].copy = wire[w][i + 1].copy
        BY <3>1, <3>2, <3>3, <3>4
      <4>2. j \in 1 .. Len(wire[w]) - 1
        BY <3>1, <3>4
      <4>3. QED
        BY <4>1, <4>2, <3>1, <3>2, <3>4
    <3>5. QED
      BY <3>4 DEF AckBacked
  <2>3. QED
    BY <2>1, <2>2
<1>8. QED
  BY <1>5, <1>6, <1>7 DEF WireInv

\* What a worker sends: a result with its acknowledgement behind it, or no acknowledgement
\* of a request.
LEMMA SendKeepsInv ==
  ASSUME WireInv, NEW w \in Worker, NEW messages \in Seq(Sent), Send(w, messages),
         task' \in [Worker -> Request \cup {Idle}], UNCHANGED <<results, done>>,
         \A i \in DOMAIN messages : messages[i].is = "ack" /\ messages[i].copy \in Request =>
           \E j \in 1 .. i - 1 : messages[j].is = "result" /\ messages[j].copy = messages[i].copy
  PROVE  WireInv'
<1>1. /\ wire \in [Worker -> Seq(Sent)] /\ wire[w] \in Seq(Sent)
      /\ wire' = [wire EXCEPT ![w] = wire[w] \o messages]
  BY DEF WireInv, WireTypes, Send
<1>2. /\ wire[w] \o messages \in Seq(Sent)
      /\ Len(wire[w] \o messages) = Len(wire[w]) + Len(messages)
      /\ \A i \in 1 .. Len(wire[w]) : (wire[w] \o messages)[i] = wire[w][i]
      /\ \A i \in 1 .. Len(messages) : (wire[w] \o messages)[Len(wire[w]) + i] = messages[i]
  BY <1>1
<1>3. WireTypes' /\ NoRequestLost'
  BY <1>1, <1>2 DEF WireInv, WireTypes, NoRequestLost
<1> DEFINE all == wire[w] \o messages
<1>4. AckBacked(all)
  <2>1. ASSUME NEW i \in 1 .. Len(all), all[i].is = "ack", all[i].copy \in Request,
               results[all[i].copy] = <<>>
        PROVE  \E j \in 1 .. i - 1 : all[j].is = "result" /\ all[j].copy = all[i].copy
    <3>1. CASE i \in 1 .. Len(wire[w])
      <4>1. PICK j \in 1 .. i - 1 : wire[w][j].is = "result" /\ wire[w][j].copy = wire[w][i].copy
        <5>1. all[i] = wire[w][i] /\ i \in DOMAIN wire[w] /\ AckBacked(wire[w])
          BY <3>1, <1>1, <1>2 DEF WireInv
        <5>2. QED
          BY <2>1, <5>1 DEF AckBacked
      <4>2. j \in 1 .. Len(wire[w])
        BY <3>1, <1>1
      <4>3. QED
        BY <4>1, <4>2, <3>1, <1>2
    <3>2. CASE i \notin 1 .. Len(wire[w])
      <4>1. PICK n \in 1 .. Len(messages) : i = Len(wire[w]) + n
        <5>1. i - Len(wire[w]) \in 1 .. Len(messages)
          BY <3>2, <1>1, <1>2
        <5>2. QED
          BY <5>1, <1>1
      <4>2. all[i] = messages[n]
        BY <4>1, <1>2
      <4>3. PICK j \in 1 .. n - 1 : messages[j].is = "result" /\ messages[j].copy = messages[n].copy
        BY <2>1, <4>1, <4>2
      <4>4. /\ j \in 1 .. Len(messages) /\ Len(wire[w]) + j \in 1 .. i - 1
            /\ all[Len(wire[w]) + j] = messages[j]
        BY <4>1, <4>3, <1>1, <1>2
      <4>5. QED
        BY <4>2, <4>3, <4>4
    <3>3. QED
      BY <3>1, <3>2
  <2>2. all \in Seq(Sent)
    BY <1>2
  <2> HIDE DEF all
  <2>3. QED
    BY <2>1, <2>2, AckBackedIf
<1>5. ASSUME NEW u \in Worker
      PROVE  AckBacked(wire[u])'
  <2>1. wire'[u] = IF u = w THEN wire[w] \o messages ELSE wire[u]
    BY <1>1
  <2>2. AckBacked(wire'[u])
    BY <2>1, <1>4 DEF WireInv
  <2>3. QED
    BY <2>2 DEF AckBacked
<1>6. QED
  BY <1>3, <1>5 DEF WireInv

LEMMA ProcessFrameKeepsInv ==
  ASSUME WireInv, NEW w \in Worker, ProcessFrame(w)
  PROVE  WireInv'
<1>1. PICK status \in Status :
        Read(w, status) /\ Send(w, <<Result(task[w], status), Ack(task[w])>>)
  BY DEF ProcessFrame
<1> DEFINE messages == <<Result(task[w], status), Ack(task[w])>>
<1>2. task[w] \in Request /\ task \in [Worker -> Request \cup {Idle}]
  BY <1>1 DEF Read, WireInv, WireTypes
<1>3. Result(task[w], status) \in Sent /\ Ack(task[w]) \in Sent
  BY <1>2 DEF Result, Ack, Sent, Copy
<1>4. messages \in Seq(Sent)
  BY <1>3
<1>5. \A i \in DOMAIN messages : messages[i].is = "ack" /\ messages[i].copy \in Request =>
        \E j \in 1 .. i - 1 : messages[j].is = "result" /\ messages[j].copy = messages[i].copy
  <2>1. /\ DOMAIN messages = 1 .. 2
        /\ messages[1] = Result(task[w], status) /\ messages[2] = Ack(task[w])
    OBVIOUS
  <2>2. messages[1].is = "result" /\ messages[1].copy = task[w] /\ messages[2].copy = task[w]
    BY <2>1 DEF Result, Ack
  <2>3. QED
    BY <2>1, <2>2
<1>6. task' \in [Worker -> Request \cup {Idle}] /\ UNCHANGED <<results, done>>
  BY <1>1, <1>2 DEF Read, broker
<1> HIDE DEF messages
<1>7. Send(w, messages)
  BY <1>1 DEF messages
<1>8. QED
  BY <1>4, <1>5, <1>6, <1>7, SendKeepsInv

LEMMA OnMessageKeepsInv ==
  ASSUME WireInv, NEW w \in Worker, OnMessage(w)
  PROVE  WireInv'
<1> DEFINE m == Head(inbox[w])
<1>1. UNCHANGED <<results, done>> /\ WireTypes
  BY DEF OnMessage, broker, WireInv
<1>2. \/ m \in Poison /\ Send(w, <<Nack(m)>>) /\ task' = task
      \/ m \in Incomplete /\ Send(w, <<Ack(m)>>) /\ task' = task
      \/ m \in Request /\ task' = [task EXCEPT ![w] = m] /\ wire' = wire
  BY DEF OnMessage
<1>3. CASE m \in Poison /\ Send(w, <<Nack(m)>>) /\ task' = task
  <2>1. <<Nack(m)>> \in Seq(Sent) /\ DOMAIN <<Nack(m)>> = {1} /\ <<Nack(m)>>[1].is = "nack"
    BY <1>3 DEF Nack, Sent, Copy
  <2>2. QED
    BY <1>1, <1>3, <2>1, SendKeepsInv DEF WireTypes
<1>4. CASE m \in Incomplete /\ Send(w, <<Ack(m)>>) /\ task' = task
  <2>1. <<Ack(m)>> \in Seq(Sent) /\ DOMAIN <<Ack(m)>> = {1} /\ <<Ack(m)>>[1].copy = m
    BY <1>4 DEF Ack, Sent, Copy
  <2>2. m \notin Request
    BY <1>4, OCRWorkerAssumption
  <2>3. QED
    BY <1>1, <1>4, <2>1, <2>2, SendKeepsInv DEF WireTypes
<1>5. CASE m \in Request /\ task' = [task EXCEPT ![w] = m] /\ wire' = wire
  BY <1>1, <1>5 DEF WireInv, WireTypes, NoRequestLost, AckBacked
<1>6. QED
  BY <1>2, <1>3, <1>4, <1>5

\* The other steps send nothing; a connection that is lost takes all that is on it.
LEMMA WorkerStepsKeepInv ==
  ASSUME WireInv, NEW w \in Worker,
         Deliver(w) \/ Declare(w) \/ Notice(w) \/ Drop(w) \/ Crash(w)
  PROVE  WireInv'
<1>1. /\ UNCHANGED <<results, done>>
      /\ task' = task \/ task' = [task EXCEPT ![w] = Idle]
      /\ wire' = wire \/ wire' = [wire EXCEPT ![w] = <<>>]
  BY DEF Deliver, Declare, Notice, Drop, Crash, Requeue, broker, worker
<1>2. WireTypes' /\ NoRequestLost'
  <2>1. WireTypes /\ <<>> \in Seq(Sent)
    BY DEF WireInv
  <2>2. WireTypes'
    BY <2>1, <1>1 DEF WireTypes
  <2>3. QED
    BY <2>2, <1>1 DEF WireInv, NoRequestLost
<1>3. ASSUME NEW u \in Worker
      PROVE  AckBacked(wire[u])'
  <2>1. wire'[u] = wire[u] \/ wire'[u] = <<>>
    BY <1>1 DEF WireInv, WireTypes
  <2>2. AckBacked(wire'[u])
    BY <2>1 DEF WireInv, AckBacked
  <2>3. QED
    BY <2>2, <1>1 DEF AckBacked
<1>4. QED
  BY <1>2, <1>3 DEF WireInv

LEMMA QueueStepsKeepInv ==
  ASSUME WireInv, (\E m \in Copy : Publish(m) \/ RetryExpires(m)) \/ UNCHANGED vars
  PROVE  WireInv'
<1>1. UNCHANGED <<results, done, task, wire>>
  BY DEF Publish, RetryExpires, vars, broker, worker
<1>2. QED
  BY <1>1 DEF WireInv, WireTypes, NoRequestLost, AckBacked

--------------------------------------------------------------------------------
(* The theorem *)

\* A request that was acknowledged has a result at the broker, whatever was lost
\* (process_frame publishes before on_message acknowledges).
THEOREM NoRequestLostTheorem == Spec => []NoRequestLost
<1>1. Init => WireInv
  BY DEF Init, WireInv, WireTypes, NoRequestLost, AckBacked
<1>2. WireInv /\ [Next]_vars => WireInv'
  <2> SUFFICES ASSUME WireInv, [Next]_vars PROVE WireInv'
    OBVIOUS
  <2>1. ASSUME NEW w \in Worker, Deliver(w) \/ Handle(w) \/ Consume(w) \/ Drop(w) \/ Crash(w)
        PROVE  WireInv'
    BY <2>1, HandleKeepsInv, ProcessFrameKeepsInv, OnMessageKeepsInv, WorkerStepsKeepInv DEF Consume
  <2>2. CASE (\E m \in Copy : Publish(m) \/ RetryExpires(m)) \/ UNCHANGED vars
    BY <2>2, QueueStepsKeepInv
  <2>3. QED
    BY <2>1, <2>2 DEF Next
<1>3. WireInv => NoRequestLost
  BY DEF WireInv
<1>4. QED
  BY <1>1, <1>2, <1>3, PTL DEF Spec

--------------------------------------------------------------------------------
(* Queues without duplicates *)

LEMMA AppendOne ==
  ASSUME NEW S, NEW s \in Seq(S), NEW e \in S
  PROVE  /\ Append(s, e) \in Seq(S) /\ Range(Append(s, e)) = Range(s) \cup {e}
         /\ IsInjective(s) /\ e \notin Range(s) => IsInjective(Append(s, e))
<1> DEFINE t == Append(s, e)
<1>1. /\ t \in Seq(S) /\ Len(t) = Len(s) + 1 /\ t[Len(s) + 1] = e
      /\ \A i \in 1 .. Len(s) : t[i] = s[i]
  OBVIOUS
<1>2. DOMAIN t = DOMAIN s \cup {Len(s) + 1} /\ DOMAIN s = 1 .. Len(s) /\ Len(s) \in Nat
  BY <1>1
<1> HIDE DEF t
<1>3. Range(t) = Range(s) \cup {e}
  BY <1>1, <1>2 DEF Range
<1>4. ASSUME IsInjective(s), e \notin Range(s) PROVE IsInjective(t)
  BY <1>1, <1>2, <1>4 DEF Range, IsInjective
<1>5. QED
  BY <1>1, <1>3, <1>4 DEF t

LEMMA TailRest ==
  ASSUME NEW S, NEW s \in Seq(S), s # <<>>
  PROVE  /\ Head(s) \in S /\ Head(s) \in Range(s) /\ Tail(s) \in Seq(S)
         /\ Range(Tail(s)) \subseteq Range(s)
         /\ IsInjective(s) => IsInjective(Tail(s)) /\ Head(s) \notin Range(Tail(s))
<1> DEFINE t == Tail(s)
<1>1. /\ t \in Seq(S) /\ Len(t) = Len(s) - 1 /\ Head(s) = s[1] /\ Len(s) \in Nat \ {0}
      /\ \A i \in 1 .. Len(t) : t[i] = s[i + 1]
  OBVIOUS
<1>2. /\ DOMAIN t = 1 .. Len(s) - 1 /\ DOMAIN s = 1 .. Len(s) /\ 1 \in DOMAIN s
      /\ \A i \in DOMAIN t : i + 1 \in DOMAIN s /\ i + 1 # 1
  BY <1>1
<1> HIDE DEF t
<1>3. Head(s) \in S /\ Head(s) \in Range(s) /\ Range(t) \subseteq Range(s)
  BY <1>1, <1>2 DEF Range
<1>4. ASSUME IsInjective(s) PROVE IsInjective(t) /\ Head(s) \notin Range(t)
  <2>1. IsInjective(t)
    BY <1>1, <1>2, <1>4 DEF IsInjective
  <2>2. Head(s) \notin Range(t)
    BY <1>1, <1>2, <1>4 DEF IsInjective, Range
  <2>3. QED
    BY <2>1, <2>2
<1>5. QED
  BY <1>1, <1>3, <1>4 DEF t

LEMMA Concatenation ==
  ASSUME NEW S, NEW s \in Seq(S), NEW t \in Seq(S)
  PROVE  /\ s \o t \in Seq(S) /\ Len(s) \in Nat /\ Len(s \o t) = Len(s) + Len(t)
         /\ DOMAIN s = 1 .. Len(s)
         /\ \A i \in 1 .. Len(s) : (s \o t)[i] = s[i]
         /\ \A i \in 1 .. Len(t) : (s \o t)[Len(s) + i] = t[i]
OBVIOUS

LEMMA ConcatDisjoint ==
  ASSUME NEW S, NEW s \in Seq(S), NEW t \in Seq(S),
         IsInjective(s), IsInjective(t), Range(s) \cap Range(t) = {}
  PROVE  s \o t \in Seq(S) /\ Range(s \o t) = Range(s) \cup Range(t) /\ IsInjective(s \o t)
<1> DEFINE all == s \o t
<1>1. /\ all \in Seq(S) /\ Len(all) = Len(s) + Len(t) /\ Len(s) \in Nat /\ Len(t) \in Nat
      /\ \A i \in 1 .. Len(s) : all[i] = s[i]
      /\ \A i \in 1 .. Len(t) : all[Len(s) + i] = t[i]
  OBVIOUS
<1> HIDE DEF all
<1>2. /\ DOMAIN s = 1 .. Len(s) /\ DOMAIN t = 1 .. Len(t) /\ DOMAIN all = 1 .. Len(s) + Len(t)
      /\ DOMAIN s \subseteq DOMAIN all /\ \A i \in DOMAIN t : Len(s) + i \in DOMAIN all
  BY <1>1
<1>3. ASSUME NEW i \in DOMAIN all
      PROVE  \/ i \in DOMAIN s /\ all[i] = s[i]
             \/ i \notin DOMAIN s /\ i - Len(s) \in DOMAIN t /\ all[i] = t[i - Len(s)]
  <2>1. i \notin 1 .. Len(s) => i - Len(s) \in 1 .. Len(t) /\ Len(s) + (i - Len(s)) = i
    BY <1>1, <1>2
  <2>2. QED
    BY <1>1, <1>2, <2>1
<1>4. Range(all) = Range(s) \cup Range(t)
  <2>1. Range(all) \subseteq Range(s) \cup Range(t)
    BY <1>3 DEF Range
  <2>2. Range(s) \subseteq Range(all) /\ Range(t) \subseteq Range(all)
    BY <1>1, <1>2 DEF Range
  <2>3. QED
    BY <2>1, <2>2
<1>5. IsInjective(all)
  <2>1. SUFFICES ASSUME NEW i \in DOMAIN all, NEW j \in DOMAIN all, all[i] = all[j]
                 PROVE  i = j
    BY DEF IsInjective
  <2>2. (i \in DOMAIN s) <=> (j \in DOMAIN s)
    BY <1>3, <2>1 DEF Range
  <2>3. CASE i \in DOMAIN s
    BY <1>3, <2>1, <2>2, <2>3 DEF IsInjective
  <2>4. CASE i \notin DOMAIN s
    <3>1. i - Len(s) \in DOMAIN t /\ j - Len(s) \in DOMAIN t /\ t[i - Len(s)] = t[j - Len(s)]
      BY <1>3, <2>1, <2>2, <2>4
    <3>2. i - Len(s) = j - Len(s)
      BY <3>1 DEF IsInjective
    <3>3. i \in Int /\ j \in Int /\ Len(s) \in Int
      BY <1>1, <1>2
    <3>4. QED
      BY <3>2, <3>3
  <2>5. QED
    BY <2>3, <2>4
<1>6. QED
  BY <1>1, <1>4, <1>5 DEF all

\* What a lost connection held goes back in some order, each copy once.
LEMMA PermutationOf ==
  ASSUME NEW S, IsFiniteSet(S), NEW back \in SetToAllKPermutations(S)
  PROVE  back \in Seq(S) /\ Range(back) \subseteq S /\ IsInjective(back)
<1>1. PICK s \in SUBSET S : back \in SetToSeqs(s)
  BY DEF SetToAllKPermutations
<1> DEFINE n == Cardinality(s)
<1>2. /\ back \in [1 .. n -> s]
      /\ \A i, j \in 1 .. n : i # j => back[i] # back[j]
  BY <1>1 DEF SetToSeqs
<1>0. n \in Nat
  BY FS_Subset, FS_CardinalityType
<1> HIDE DEF n
<1>3. DOMAIN back = 1 .. n /\ \A i \in 1 .. n : back[i] \in S
  BY <1>1, <1>2
<1>4. IsInjective(back) /\ Range(back) \subseteq S
  BY <1>2, <1>3 DEF IsInjective, Range
<1>5. back \in [1 .. n -> S]
  BY <1>2
<1>6. back \in Seq(S)
  BY <1>0, <1>5, SeqDef
<1>7. QED
  BY <1>4, <1>6

--------------------------------------------------------------------------------
(* Where a copy is.  The broker has each copy in one place, a connection that  *)
(* is up knows each of its copies once, and a request that can still be        *)
(* answered has been answered at most as often as a connection was lost.       *)

PlaceTypes ==
  /\ unsent \subseteq Copy /\ retry \subseteq Poison /\ done \subseteq Copy
  /\ main \in Seq(Copy)
  /\ unacked \in [Worker -> SUBSET Copy] /\ inbox \in [Worker -> Seq(Copy)]
  /\ \A w \in Worker : IsFiniteSet(unacked[w]) /\ Cardinality(unacked[w]) <= Prefetch
  /\ wire \in [Worker -> Seq(Sent)] /\ task \in [Worker -> Request \cup {Idle}]
  /\ link \in [Worker -> {"up", "lost", "down"}]
  /\ results \in [Request -> Seq(Status)]
  /\ drops \in 0 .. MaxDrops /\ outages \in 0 .. MaxOutages

Queued == unsent \cup retry \cup Range(main)

Apart ==
  /\ IsInjective(main)
  /\ unsent \cap Range(main) = {} /\ retry \cap unsent = {} /\ retry \cap Range(main) = {}
  /\ \A w \in Worker : unacked[w] \cap Queued = {}
  /\ \A v, w \in Worker : v # w => unacked[v] \cap unacked[w] = {}

\* What a worker has received and not yet answered.
InWork(w) == Range(inbox[w]) \cup ({task[w]} \ {Idle})

\* A copy on the wire is answered; of one copy there is a result and then its
\* acknowledgement, or only one of them.
Answers(w) ==
  /\ \A i \in DOMAIN wire[w] : /\ wire[w][i].copy \in unacked[w] \ InWork(w)
                               /\ wire[w][i].is = "nack" => wire[w][i].copy \in Poison
  /\ \A i, j \in DOMAIN wire[w] : i < j /\ wire[w][i].copy = wire[w][j].copy =>
       wire[w][i].is = "result" /\ wire[w][j].is # "result"

UpInv(w) ==
  /\ IsInjective(inbox[w]) /\ (task[w] # Idle => task[w] \notin Range(inbox[w]))
  /\ InWork(w) \subseteq unacked[w]
  /\ Answers(w)

ConnectionInv(w) ==
  /\ link[w] = "up" => UpInv(w)
  /\ link[w] # "up" => unacked[w] = {} /\ wire[w] = <<>>
  /\ link[w] = "down" => InWork(w) = {}

\* A request to which another result may still come.
Pending(w, m) ==
  m \in InWork(w) \/ \E i \in DOMAIN wire[w] : wire[w][i].is = "result" /\ wire[w][i].copy = m

Open(m) == m \in Queued \/ \E w \in Worker : link[w] = "up" /\ Pending(w, m)

AnswerInv ==
  \A m \in Request : /\ Len(results[m]) <= 1 + drops
                     /\ Open(m) => Len(results[m]) <= drops

PlaceInv == PlaceTypes /\ Apart /\ (\A w \in Worker : ConnectionInv(w)) /\ AnswerInv

LEMMA InitPlaceInv == Init => PlaceInv
<1> SUFFICES ASSUME Init PROVE PlaceInv
  OBVIOUS
<1> USE DEF Init
<1>1. PlaceTypes
  BY FS_EmptySet, OCRWorkerAssumption DEF PlaceTypes
<1>2. Apart
  BY DEF Apart, Queued, Range, IsInjective
<1>3. \A w \in Worker : ConnectionInv(w)
  BY DEF ConnectionInv, InWork, Range
<1>4. AnswerInv
  BY DEF AnswerInv
<1>5. QED
  BY <1>1, <1>2, <1>3, <1>4 DEF PlaceInv

\* A connection nothing happens to.
LEMMA OtherConnection ==
  ASSUME NEW v \in Worker, ConnectionInv(v), unacked'[v] = unacked[v], inbox'[v] = inbox[v],
         task'[v] = task[v], wire'[v] = wire[v], link'[v] = link[v]
  PROVE  /\ ConnectionInv(v)'
         /\ \A m \in Request : Pending(v, m)' <=> Pending(v, m)
BY DEF ConnectionInv, UpInv, Answers, InWork, Pending

LEMMA NothingOpened ==
  ASSUME AnswerInv, UNCHANGED <<results, drops>>, \A m \in Request : Open(m)' => Open(m)
  PROVE  AnswerInv'
BY DEF AnswerInv

\* The message goes to the end of the queue, from where it is published or retried.
LEMMA QueueStepsKeepPlaces ==
  ASSUME PlaceInv, NEW m \in Copy, Publish(m) \/ RetryExpires(m)
  PROVE  PlaceInv'
<1>1. /\ main' = Append(main, m) /\ m \in unsent \cup retry
      /\ unsent' \subseteq unsent /\ retry' \subseteq retry /\ m \notin unsent' \cup retry'
      /\ UNCHANGED <<unacked, done, results, inbox, task, wire, link, drops, outages>>
  BY DEF Publish, RetryExpires, worker, PlaceInv, Apart
<1>2. PlaceTypes /\ Apart /\ main \in Seq(Copy)
  BY DEF PlaceInv, PlaceTypes
<1>3. m \notin Range(main)
  BY <1>1, <1>2 DEF Apart
<1>4. main' \in Seq(Copy) /\ Range(main') = Range(main) \cup {m} /\ IsInjective(main')
  BY <1>1, <1>2, <1>3, AppendOne DEF Apart
<1>5. PlaceTypes'
  BY <1>1, <1>2, <1>4 DEF PlaceTypes
<1>6. Queued' \subseteq Queued
  BY <1>1, <1>4 DEF Queued
<1>7. Apart'
  BY <1>1, <1>2, <1>4, <1>6 DEF Apart
<1>8. ASSUME NEW v \in Worker
      PROVE  ConnectionInv(v)' /\ \A r \in Request : Pending(v, r)' <=> Pending(v, r)
  BY <1>1, OtherConnection DEF PlaceInv
<1>9. AnswerInv'
  BY <1>1, <1>6, <1>8, NothingOpened DEF PlaceInv, Open
<1>10. QED
  BY <1>5, <1>7, <1>8, <1>9 DEF PlaceInv

LEMMA DeliverKeepsPlaces ==
  ASSUME PlaceInv, NEW w \in Worker, Deliver(w)
  PROVE  PlaceInv'
<1> DEFINE m == Head(main)
<1>1. PlaceTypes /\ Apart /\ ConnectionInv(w) /\ main \in Seq(Copy) /\ inbox[w] \in Seq(Copy)
  BY DEF PlaceInv, PlaceTypes
<1>2. /\ link[w] = "up" /\ main # <<>> /\ Cardinality(unacked[w]) < Prefetch
      /\ unacked' = [unacked EXCEPT ![w] = @ \cup {m}]
      /\ inbox' = [inbox EXCEPT ![w] = Append(@, m)]
      /\ main' = Tail(main)
      /\ UNCHANGED <<unsent, retry, done, results, task, wire, link, drops, outages>>
  BY DEF Deliver
<1>3. /\ m \in Copy /\ m \in Range(main) /\ main' \in Seq(Copy) /\ Range(main') \subseteq Range(main)
      /\ IsInjective(main') /\ m \notin Range(main')
  BY <1>1, <1>2, TailRest DEF Apart
<1> HIDE DEF m
<1>4. m \notin unsent \cup retry /\ \A v \in Worker : m \notin unacked[v]
  BY <1>1, <1>3 DEF Apart, Queued
<1>5. UpInv(w) /\ m \notin Range(inbox[w])
  BY <1>1, <1>2, <1>4 DEF ConnectionInv, UpInv, InWork
<1>6. /\ Append(inbox[w], m) \in Seq(Copy) /\ Range(Append(inbox[w], m)) = Range(inbox[w]) \cup {m}
      /\ IsInjective(Append(inbox[w], m))
  BY <1>1, <1>3, <1>5, AppendOne DEF UpInv
<1>7. /\ unacked'[w] = unacked[w] \cup {m} /\ inbox'[w] = Append(inbox[w], m)
      /\ \A v \in Worker \ {w} : unacked'[v] = unacked[v] /\ inbox'[v] = inbox[v]
  BY <1>1, <1>2 DEF PlaceTypes
<1>8. PlaceTypes'
  <2>1. IsFiniteSet(unacked'[w]) /\ Cardinality(unacked'[w]) <= Prefetch
    <3>1. /\ IsFiniteSet(unacked[w] \cup {m}) /\ Cardinality(unacked[w]) \in Nat
          /\ Cardinality(unacked[w] \cup {m}) = Cardinality(unacked[w]) + 1
      BY <1>1, <1>4, FS_AddElement, FS_CardinalityType DEF PlaceTypes
    <3>2. Cardinality(unacked[w]) < Prefetch /\ Prefetch \in Nat
      BY <1>2, OCRWorkerAssumption
    <3>3. Cardinality(unacked[w]) + 1 <= Prefetch
      BY <3>1, <3>2
    <3>4. QED
      BY <1>7, <3>1, <3>3
  <2>2. \A v \in Worker : IsFiniteSet(unacked'[v]) /\ Cardinality(unacked'[v]) <= Prefetch
    BY <1>1, <1>7, <2>1 DEF PlaceTypes
  <2>3. unacked' \in [Worker -> SUBSET Copy] /\ inbox' \in [Worker -> Seq(Copy)]
    BY <1>1, <1>2, <1>3, <1>6 DEF PlaceTypes
  <2>4. QED
    BY <1>1, <1>2, <1>3, <2>2, <2>3 DEF PlaceTypes
<1>9. Queued' \subseteq Queued \ {m}
  BY <1>2, <1>3, <1>4 DEF Queued
<1>10. Apart'
  BY <1>1, <1>2, <1>3, <1>4, <1>7, <1>9 DEF Apart
<1>11. InWork(w)' = InWork(w) \cup {m}
  BY <1>2, <1>6, <1>7 DEF InWork
<1>12. ASSUME NEW v \in Worker
       PROVE  ConnectionInv(v)' /\ \A r \in Request : Pending(v, r)' => Pending(v, r) \/ r = m
  <2>1. CASE v # w
    BY <1>2, <1>7, <2>1, OtherConnection DEF PlaceInv
  <2>2. CASE v = w
    <3>1. task[w] # Idle => task[w] \in unacked[w]
      BY <1>5 DEF UpInv, InWork
    <3>2. IsInjective(inbox'[w]) /\ (task'[w] # Idle => task'[w] \notin Range(inbox'[w]))
      BY <1>2, <1>4, <1>5, <1>6, <1>7, <3>1 DEF UpInv
    <3>3. Answers(w)'
      <4>1. \A i \in DOMAIN wire[w] : wire[w][i].copy \in (unacked[w] \cup {m}) \ (InWork(w) \cup {m})
        BY <1>4, <1>5 DEF UpInv, Answers
      <4>2. QED
        BY <1>2, <1>5, <1>7, <1>11, <4>1 DEF UpInv, Answers
    <3>4. UpInv(w)'
      BY <1>5, <1>7, <1>11, <3>2, <3>3 DEF UpInv
    <3>5. QED
      BY <1>2, <1>11, <2>2, <3>4 DEF ConnectionInv, Pending
  <2>3. QED
    BY <2>1, <2>2
<1>13. AnswerInv'
  <2>1. ASSUME NEW r \in Request, Open(r)' PROVE Open(r)
    BY <1>2, <1>3, <1>9, <1>12, <2>1 DEF Open, Queued
  <2>2. QED
    BY <1>2, <2>1, NothingOpened DEF PlaceInv
<1>14. QED
  BY <1>8, <1>10, <1>12, <1>13 DEF PlaceInv

\* The broker takes a result: its request is not answered once more on this connection,
\* and is nowhere else.  It takes an acknowledgement: nothing of the copy is left.
LEMMA HandleKeepsPlaces ==
  ASSUME PlaceInv, NEW w \in Worker, Handle(w)
  PROVE  PlaceInv'
<1> DEFINE sent == Head(wire[w])
<1>1. PlaceTypes /\ Apart /\ ConnectionInv(w) /\ wire[w] \in Seq(Sent) /\ wire[w] # <<>>
  BY DEF PlaceInv, PlaceTypes, Handle
<1>2. /\ sent \in Sent /\ sent = wire[w][1] /\ 1 \in DOMAIN wire[w]
      /\ Tail(wire[w]) \in Seq(Sent) /\ DOMAIN Tail(wire[w]) = 1 .. Len(wire[w]) - 1
      /\ DOMAIN wire[w] = 1 .. Len(wire[w]) /\ Len(wire[w]) \in Nat
      /\ \A i \in 1 .. Len(wire[w]) - 1 : Tail(wire[w])[i] = wire[w][i + 1]
  BY <1>1
<1>3. UNCHANGED <<unsent, main, inbox, task, link, drops, outages>>
  BY DEF Handle
<1>4. wire' = [wire EXCEPT ![w] = Tail(@)]
  BY DEF Handle
<1>5. \/ /\ sent.is = "result"
         /\ results' = [results EXCEPT ![sent.copy] = Append(@, sent.status)]
         /\ UNCHANGED <<unacked, done, retry>>
      \/ /\ sent.is # "result"
         /\ unacked' = [unacked EXCEPT ![w] = @ \ {sent.copy}]
         /\ done' = IF sent.is = "ack" THEN done \cup {sent.copy} ELSE done
         /\ retry' = IF sent.is = "nack" THEN retry \cup {sent.copy} ELSE retry
         /\ UNCHANGED results
  BY DEF Handle
<1> HIDE DEF sent
<1>6. link[w] = "up" /\ UpInv(w) /\ Answers(w)
  BY <1>1 DEF ConnectionInv, UpInv, PlaceTypes
<1>7. /\ sent.copy \in unacked[w] \ InWork(w) /\ (sent.is = "nack" => sent.copy \in Poison)
      /\ sent.copy \in Copy
  BY <1>1, <1>2, <1>6 DEF Answers, PlaceTypes
<1>8. ASSUME NEW i \in 1 .. Len(wire[w]) - 1
      PROVE  /\ i + 1 \in DOMAIN wire[w] /\ Tail(wire[w])[i] = wire[w][i + 1]
             /\ wire[w][i + 1].copy = sent.copy => sent.is = "result" /\ wire[w][i + 1].is # "result"
  <2>1. i + 1 \in DOMAIN wire[w] /\ 1 < i + 1
    BY <1>2
  <2>2. QED
    BY <2>1, <1>2, <1>6 DEF Answers
<1>9. /\ wire'[w] = Tail(wire[w]) /\ \A v \in Worker \ {w} : wire'[v] = wire[v]
      /\ wire' \in [Worker -> Seq(Sent)]
  BY <1>1, <1>2, <1>4 DEF PlaceTypes
<1>10. /\ unacked' \in [Worker -> SUBSET Copy]
       /\ \A v \in Worker : unacked'[v] \subseteq unacked[v]
       /\ \A v \in Worker \ {w} : unacked'[v] = unacked[v]
       /\ unacked'[w] = IF sent.is = "result" THEN unacked[w] ELSE unacked[w] \ {sent.copy}
       /\ retry' \subseteq Poison /\ done' \subseteq Copy
       /\ retry' \subseteq retry \cup (IF sent.is = "result" THEN {} ELSE {sent.copy})
  BY <1>1, <1>5, <1>7 DEF PlaceTypes
<1>11. results' \in [Request -> Seq(Status)]
  <2>1. CASE sent.is = "result"
    <3>1. sent.copy \in Request /\ sent.status \in Status
      BY <2>1, <1>2 DEF Sent
    <3>2. Append(results[sent.copy], sent.status) \in Seq(Status)
      BY <3>1, <1>1 DEF PlaceTypes
    <3>3. QED
      BY <2>1, <3>2, <1>1, <1>5 DEF PlaceTypes
  <2>2. QED
    BY <2>1, <1>1, <1>5 DEF PlaceTypes
<1>12. PlaceTypes'
  <2>1. \A v \in Worker : IsFiniteSet(unacked'[v]) /\ Cardinality(unacked'[v]) <= Prefetch
    <3>1. ASSUME NEW v \in Worker
          PROVE  IsFiniteSet(unacked'[v]) /\ Cardinality(unacked'[v]) <= Prefetch
      <4>1. IsFiniteSet(unacked'[v]) /\ Cardinality(unacked'[v]) <= Cardinality(unacked[v])
        BY <1>1, <1>10, FS_Subset DEF PlaceTypes
      <4>2. Cardinality(unacked'[v]) \in Nat /\ Cardinality(unacked[v]) \in Nat /\ Prefetch \in Nat
        BY <1>1, <4>1, FS_CardinalityType, OCRWorkerAssumption DEF PlaceTypes
      <4>3. Cardinality(unacked[v]) <= Prefetch
        BY <1>1 DEF PlaceTypes
      <4>4. QED
        BY <4>1, <4>2, <4>3
    <3>2. QED
      BY <3>1
  <2>2. QED
    BY <1>1, <1>3, <1>9, <1>10, <1>11, <2>1 DEF PlaceTypes
<1>13. Apart'
  <2>1. sent.copy \notin Queued
    BY <1>1, <1>7 DEF Apart
  <2>2. Queued' \subseteq Queued \cup (IF sent.is = "result" THEN {} ELSE {sent.copy})
    BY <1>3, <1>10 DEF Queued
  <2>3. \A v \in Worker \ {w} : sent.copy \notin unacked[v]
    BY <1>1, <1>7 DEF Apart
  <2>4. \A v \in Worker : unacked'[v] \cap Queued' = {}
    BY <1>1, <1>10, <2>2, <2>3 DEF Apart
  <2>5. \A v, u \in Worker : v # u => unacked'[v] \cap unacked'[u] = {}
    BY <1>1, <1>10 DEF Apart
  <2>6. retry' \cap unsent = {} /\ retry' \cap Range(main) = {}
    BY <1>1, <1>10, <2>1 DEF Apart, Queued
  <2>7. QED
    BY <1>1, <1>3, <2>4, <2>5, <2>6 DEF Apart
<1>14. InWork(w)' = InWork(w)
  BY <1>3 DEF InWork
<1>15. Answers(w)'
  <2>1. ASSUME NEW i \in DOMAIN wire'[w]
        PROVE  /\ wire'[w][i].copy \in unacked'[w] \ InWork(w)
               /\ wire'[w][i].is = "nack" => wire'[w][i].copy \in Poison
    BY <2>1, <1>2, <1>6, <1>8, <1>9, <1>10 DEF Answers
  <2>2. ASSUME NEW i \in DOMAIN wire'[w], NEW j \in DOMAIN wire'[w], i < j,
               wire'[w][i].copy = wire'[w][j].copy
        PROVE  wire'[w][i].is = "result" /\ wire'[w][j].is # "result"
    <3>1. i \in 1 .. Len(wire[w]) - 1 /\ j \in 1 .. Len(wire[w]) - 1 /\ i + 1 < j + 1
      BY <2>2, <1>2, <1>9
    <3>2. QED
      BY <2>2, <3>1, <1>6, <1>8, <1>9 DEF Answers
  <2>3. QED
    BY <2>1, <2>2, <1>14 DEF Answers
<1>16. UpInv(w)'
  BY <1>3, <1>6, <1>7, <1>10, <1>14, <1>15 DEF UpInv
<1>17. ASSUME NEW v \in Worker PROVE ConnectionInv(v)'
  <2>1. CASE v = w
    BY <1>3, <1>6, <1>16, <2>1 DEF ConnectionInv
  <2>2. CASE v # w
    BY <1>3, <1>9, <1>10, <2>2, OtherConnection DEF PlaceInv
  <2>3. QED
    BY <2>1, <2>2
<1>18. ASSUME NEW r \in Request, Open(r)'
       PROVE  Open(r) /\ (sent.is = "result" => r # sent.copy)
  <2>1. CASE r \in Queued'
    <3>1. r \in Queued
      <4>1. r \notin retry'
        BY <1>10, OCRWorkerAssumption
      <4>2. QED
        BY <1>3, <2>1, <4>1 DEF Queued
    <3>2. QED
      BY <1>1, <1>7, <3>1 DEF Apart, Open
  <2>2. CASE \E v \in Worker : link'[v] = "up" /\ Pending(v, r)'
    <3>1. PICK v \in Worker : link'[v] = "up" /\ Pending(v, r)'
      BY <2>2
    <3>2. CASE v # w
      <4>1. link[v] = "up" /\ Pending(v, r)
        BY <1>3, <1>9, <1>10, <3>1, <3>2, OtherConnection DEF PlaceInv
      <4>2. r \in unacked[v]
        BY <4>1 DEF PlaceInv, ConnectionInv, UpInv, Answers, Pending
      <4>3. r # sent.copy
        BY <1>1, <1>7, <3>2, <4>2 DEF Apart
      <4>4. QED
        BY <4>1, <4>3 DEF Open
    <3>3. CASE v = w /\ r \in InWork(w)
      BY <1>6, <1>7, <3>3 DEF Open, Pending
    <3>4. CASE v = w /\ r \notin InWork(w)
      <4>1. PICK i \in DOMAIN wire'[w] : wire'[w][i].is = "result" /\ wire'[w][i].copy = r
        BY <1>14, <3>1, <3>4 DEF Pending
      <4>2. i + 1 \in DOMAIN wire[w] /\ wire[w][i + 1].is = "result" /\ wire[w][i + 1].copy = r
        BY <1>2, <1>8, <1>9, <4>1
      <4>3. r # sent.copy
        BY <1>2, <1>8, <1>9, <4>1
      <4>4. QED
        BY <1>6, <4>2, <4>3 DEF Open, Pending
    <3>5. QED
      BY <3>2, <3>3, <3>4
  <2>3. QED
    BY <1>18, <2>1, <2>2 DEF Open
<1>19. AnswerInv'
  <2>1. CASE sent.is # "result"
    BY <1>3, <1>5, <1>18, <2>1, NothingOpened DEF PlaceInv
  <2>2. CASE sent.is = "result"
    <3>1. PICK c \in Request : c = sent.copy
      BY <2>2, <1>2 DEF Sent
    <3>2. Open(c)
      <4>1. Pending(w, c)
        BY <1>2, <2>2, <3>1 DEF Pending
      <4>2. QED
        BY <1>6, <4>1 DEF Open
    <3>3. Len(results[c]) <= drops /\ ~Open(c)'
      BY <2>2, <3>1, <3>2, <1>18 DEF PlaceInv, AnswerInv
    <3>4. results'[c] = Append(results[c], sent.status)
      BY <1>1, <1>5, <2>2, <3>1 DEF PlaceTypes
    <3>5. Len(results'[c]) = Len(results[c]) + 1 /\ Len(results[c]) \in Nat
      BY <1>1, <3>1, <3>4 DEF PlaceTypes
    <3>6. \A r \in Request \ {c} : results'[r] = results[r]
      BY <1>1, <1>5, <2>2, <3>1 DEF PlaceTypes
    <3>7. drops' = drops /\ drops \in Nat
      BY <1>1, <1>3 DEF PlaceTypes
    <3>8. ASSUME NEW r \in Request
          PROVE  Len(results'[r]) <= 1 + drops' /\ (Open(r)' => Len(results'[r]) <= drops')
      <4>1. CASE r = c
        BY <4>1, <3>3, <3>5, <3>7
      <4>2. CASE r # c
        <5>1. Len(results[r]) <= 1 + drops /\ (Open(r) => Len(results[r]) <= drops)
          BY DEF PlaceInv, AnswerInv
        <5>2. Open(r)' => Open(r)
          BY <1>18
        <5>3. QED
          BY <4>2, <5>1, <5>2, <3>6, <3>7
      <4>3. QED
        BY <4>1, <4>2
    <3>9. QED
      BY <3>8 DEF AnswerInv
  <2>3. QED
    BY <2>1, <2>2
<1>20. QED
  BY <1>12, <1>13, <1>17, <1>19 DEF PlaceInv

\* What a worker sends about a copy that has been in its work.
LEMMA SendAnswers ==
  ASSUME PlaceInv, NEW w \in Worker, link[w] = "up",
         NEW m \in InWork(w), m \notin InWork(w)', InWork(w)' \subseteq InWork(w),
         NEW messages \in Seq(Sent), wire' = [wire EXCEPT ![w] = wire[w] \o messages],
         unacked' = unacked,
         \A i \in DOMAIN messages : /\ messages[i].copy = m
                                    /\ messages[i].is = "nack" => m \in Poison,
         \A i, j \in DOMAIN messages : i < j => messages[i].is = "result" /\ messages[j].is # "result"
  PROVE  Answers(w)'
<1> DEFINE all == wire[w] \o messages
<1>1. /\ UpInv(w) /\ Answers(w) /\ wire[w] \in Seq(Sent) /\ wire'[w] = all /\ m \in unacked[w]
      /\ \A i \in DOMAIN wire[w] : wire[w][i].copy # m
  BY DEF PlaceInv, PlaceTypes, ConnectionInv, UpInv, Answers
<1>2. /\ Len(all) = Len(wire[w]) + Len(messages) /\ Len(wire[w]) \in Nat /\ Len(messages) \in Nat
      /\ DOMAIN all = 1 .. Len(wire[w]) + Len(messages)
      /\ DOMAIN wire[w] = 1 .. Len(wire[w]) /\ DOMAIN messages = 1 .. Len(messages)
      /\ \A i \in 1 .. Len(wire[w]) : all[i] = wire[w][i]
      /\ \A i \in 1 .. Len(messages) : all[Len(wire[w]) + i] = messages[i]
  BY <1>1
<1> HIDE DEF all
<1>3. ASSUME NEW i \in DOMAIN all
      PROVE  \/ i \in DOMAIN wire[w] /\ all[i] = wire[w][i]
             \/ /\ i > Len(wire[w]) /\ i - Len(wire[w]) \in DOMAIN messages
                /\ all[i] = messages[i - Len(wire[w])]
  <2>1. i \notin 1 .. Len(wire[w]) =>
          /\ i > Len(wire[w]) /\ i - Len(wire[w]) \in 1 .. Len(messages)
          /\ Len(wire[w]) + (i - Len(wire[w])) = i
    BY <1>2
  <2>2. QED
    BY <1>2, <2>1
<1>4. ASSUME NEW i \in DOMAIN all
      PROVE  /\ all[i].copy \in unacked[w] \ InWork(w)'
             /\ all[i].is = "nack" => all[i].copy \in Poison
  BY <1>1, <1>3, <1>4 DEF Answers
<1>5. ASSUME NEW i \in DOMAIN all, NEW j \in DOMAIN all, i < j, all[i].copy = all[j].copy
      PROVE  all[i].is = "result" /\ all[j].is # "result"
  <2>1. CASE i \in DOMAIN wire[w] /\ j \in DOMAIN wire[w]
    <3>1. all[i] = wire[w][i] /\ all[j] = wire[w][j]
      BY <2>1, <1>2
    <3>2. QED
      BY <2>1, <3>1, <1>1, <1>5 DEF Answers
  <2>2. CASE i \notin DOMAIN wire[w] /\ j \notin DOMAIN wire[w]
    <3>1. /\ i - Len(wire[w]) \in DOMAIN messages /\ j - Len(wire[w]) \in DOMAIN messages
          /\ all[i] = messages[i - Len(wire[w])] /\ all[j] = messages[j - Len(wire[w])]
      BY <2>2, <1>3
    <3>2. i - Len(wire[w]) < j - Len(wire[w])
      BY <1>2, <1>5
    <3>3. QED
      BY <3>1, <3>2
  <2>3. CASE (i \in DOMAIN wire[w]) # (j \in DOMAIN wire[w])
    BY <2>3, <1>1, <1>3, <1>5
  <2>4. QED
    BY <2>1, <2>2, <2>3
<1>6. QED
  BY <1>1, <1>4, <1>5 DEF Answers

\* A step of a worker between its inbox, its task and the wire.
LEMMA WorkKeepsPlaces ==
  ASSUME PlaceInv, NEW w \in Worker, PlaceTypes',
         UNCHANGED <<broker, link, drops>>,
         \A v \in Worker \ {w} : inbox'[v] = inbox[v] /\ task'[v] = task[v] /\ wire'[v] = wire[v],
         link[w] = "up", UpInv(w)', \A r \in Request : Pending(w, r)' => Pending(w, r)
  PROVE  PlaceInv'
<1>1. Apart'
  BY DEF PlaceInv, Apart, Queued, broker
<1>2. ASSUME NEW v \in Worker
      PROVE  ConnectionInv(v)' /\ \A r \in Request : Pending(v, r)' => Pending(v, r)
  <2>1. CASE v # w
    BY <2>1, OtherConnection DEF PlaceInv, broker
  <2>2. CASE v = w
    BY <2>2 DEF ConnectionInv
  <2>3. QED
    BY <2>1, <2>2
<1>3. AnswerInv'
  <2>1. Queued' = Queued
    BY DEF Queued, broker
  <2>2. ASSUME NEW r \in Request, Open(r)' PROVE Open(r)
    BY <1>2, <2>1, <2>2 DEF Open
  <2>3. QED
    BY <2>2, NothingOpened DEF PlaceInv, broker
<1>4. QED
  BY <1>1, <1>2, <1>3 DEF PlaceInv

LEMMA OnMessageKeepsPlaces ==
  ASSUME PlaceInv, NEW w \in Worker, OnMessage(w)
  PROVE  PlaceInv'
<1> DEFINE m == Head(inbox[w])
<1>1. /\ PlaceTypes /\ inbox[w] \in Seq(Copy) /\ wire[w] \in Seq(Sent)
      /\ link[w] = "up" /\ task[w] = Idle /\ inbox[w] # <<>> /\ UpInv(w)
      /\ inbox' = [inbox EXCEPT ![w] = Tail(@)]
      /\ UNCHANGED <<broker, link, drops, outages>>
  BY DEF PlaceInv, PlaceTypes, ConnectionInv, OnMessage
<1>2. \/ m \in Poison /\ Send(w, <<Nack(m)>>) /\ task' = task
      \/ m \in Incomplete /\ Send(w, <<Ack(m)>>) /\ task' = task
      \/ m \in Request /\ task' = [task EXCEPT ![w] = m] /\ wire' = wire
  BY DEF OnMessage
<1>3. /\ m \in Copy /\ m \in Range(inbox[w]) /\ Tail(inbox[w]) \in Seq(Copy)
      /\ Range(Tail(inbox[w])) \subseteq Range(inbox[w])
      /\ IsInjective(Tail(inbox[w])) /\ m \notin Range(Tail(inbox[w]))
  BY <1>1, TailRest DEF UpInv
<1> HIDE DEF m
<1>4. /\ inbox'[w] = Tail(inbox[w]) /\ \A v \in Worker \ {w} : inbox'[v] = inbox[v]
      /\ inbox' \in [Worker -> Seq(Copy)]
  BY <1>1, <1>3 DEF PlaceTypes
<1>5. CASE m \in Poison \/ m \in Incomplete
  <2>1. PICK message \in Sent : /\ Send(w, <<message>>) /\ message.copy = m /\ task' = task
                                /\ message.is # "result" /\ (message.is = "nack" => m \in Poison)
    <3>1. CASE m \in Poison
      <4>1. Send(w, <<Nack(m)>>) /\ task' = task
        BY <1>2, <3>1, OCRWorkerAssumption
      <4>2. Nack(m) \in Sent /\ Nack(m).copy = m /\ Nack(m).is = "nack"
        BY <1>3 DEF Nack, Sent
      <4>3. QED
        BY <3>1, <4>1, <4>2
    <3>2. CASE m \in Incomplete
      <4>1. Send(w, <<Ack(m)>>) /\ task' = task
        BY <1>2, <3>2, OCRWorkerAssumption
      <4>2. Ack(m) \in Sent /\ Ack(m).copy = m /\ Ack(m).is = "ack"
        BY <1>3 DEF Ack, Sent
      <4>3. QED
        BY <4>1, <4>2
    <3>3. QED
      BY <1>5, <3>1, <3>2
  <2> DEFINE messages == <<message>>
  <2>2. messages \in Seq(Sent) /\ DOMAIN messages = {1} /\ messages[1] = message
    OBVIOUS
  <2>3. wire' = [wire EXCEPT ![w] = wire[w] \o messages] /\ wire[w] \o messages \in Seq(Sent)
    BY <1>1, <2>1, <2>2 DEF Send
  <2>4. (wire[w] \o messages)[Len(wire[w]) + 1] = message
        /\ DOMAIN (wire[w] \o messages) = 1 .. Len(wire[w]) + 1
        /\ \A i \in 1 .. Len(wire[w]) : (wire[w] \o messages)[i] = wire[w][i]
        /\ DOMAIN wire[w] = 1 .. Len(wire[w]) /\ Len(wire[w]) \in Nat
    BY <1>1, <2>2
  <2> HIDE DEF messages
  <2>5. InWork(w)' = Range(Tail(inbox[w])) /\ m \notin InWork(w)' /\ m \in InWork(w)
    BY <1>1, <1>3, <1>4, <2>1 DEF InWork
  <2>6. InWork(w)' \subseteq InWork(w)
    BY <1>3, <2>5 DEF InWork
  <2>7. Answers(w)'
    <3>1. PICK c \in Copy : c = m
      BY <1>3
    <3>2. c \in InWork(w) /\ c \notin InWork(w)' /\ InWork(w)' \subseteq InWork(w)
      BY <2>5, <2>6, <3>1
    <3>3. \A i \in DOMAIN messages : /\ messages[i].copy = c
                                     /\ messages[i].is = "nack" => c \in Poison
      BY <2>1, <2>2, <3>1
    <3>4. \A i, j \in DOMAIN messages :
            i < j => messages[i].is = "result" /\ messages[j].is # "result"
      BY <2>2
    <3>5. unacked' = unacked /\ link[w] = "up"
      BY <1>1 DEF broker
    <3>6. QED
      BY <2>2, <2>3, <3>2, <3>3, <3>4, <3>5, SendAnswers
  <2>8. UpInv(w)'
    BY <1>1, <1>3, <1>4, <2>1, <2>6, <2>7 DEF UpInv, broker
  <2>9. wire'[w] = wire[w] \o messages /\ \A v \in Worker \ {w} : wire'[v] = wire[v]
    BY <1>1, <2>3 DEF PlaceTypes
  <2>10. PlaceTypes'
    BY <1>1, <1>4, <2>1, <2>3 DEF PlaceTypes, broker
  <2>11. ASSUME NEW r \in Request, Pending(w, r)' PROVE Pending(w, r)
    BY <2>1, <2>4, <2>6, <2>9, <2>11 DEF Pending
  <2>12. QED
    BY <1>1, <1>4, <2>1, <2>8, <2>9, <2>10, <2>11, WorkKeepsPlaces
<1>6. CASE m \in Request
  <2>1. task' = [task EXCEPT ![w] = m] /\ wire' = wire
    BY <1>2, <1>6, OCRWorkerAssumption
  <2>2. /\ task'[w] = m /\ \A v \in Worker \ {w} : task'[v] = task[v]
        /\ task' \in [Worker -> Request \cup {Idle}]
    BY <1>1, <1>6, <2>1 DEF PlaceTypes
  <2>3. InWork(w)' \subseteq InWork(w)
    BY <1>1, <1>3, <1>4, <2>2 DEF InWork
  <2>4. Answers(w)'
    BY <1>1, <2>1, <2>3 DEF UpInv, Answers, broker
  <2>5. UpInv(w)'
    BY <1>1, <1>3, <1>4, <2>2, <2>3, <2>4 DEF UpInv, broker
  <2>6. PlaceTypes'
    BY <1>1, <1>4, <2>1, <2>2 DEF PlaceTypes, broker
  <2>7. ASSUME NEW r \in Request, Pending(w, r)' PROVE Pending(w, r)
    BY <2>1, <2>3, <2>7 DEF Pending
  <2>8. QED
    BY <1>1, <1>4, <2>1, <2>2, <2>5, <2>6, <2>7, WorkKeepsPlaces
<1>7. QED
  BY <1>2, <1>5, <1>6

LEMMA ProcessFrameKeepsPlaces ==
  ASSUME PlaceInv, NEW w \in Worker, ProcessFrame(w)
  PROVE  PlaceInv'
<1>1. PICK status \in Status :
        Read(w, status) /\ Send(w, <<Result(task[w], status), Ack(task[w])>>)
  BY DEF ProcessFrame
<1>2. /\ PlaceTypes /\ wire[w] \in Seq(Sent) /\ link[w] = "up" /\ UpInv(w)
      /\ task[w] \in Request /\ status \in OCRFrame(task[w])
      /\ outages' = IF status = "failed" /\ task[w] \notin Unreadable THEN outages + 1 ELSE outages
      /\ task' = [task EXCEPT ![w] = Idle]
      /\ UNCHANGED <<broker, inbox, link, drops>>
  BY <1>1 DEF Read, PlaceInv, PlaceTypes, ConnectionInv
<1>3. PICK c \in Request : c = task[w]
  BY <1>2
<1> DEFINE messages == <<Result(c, status), Ack(c)>>
<1>4. /\ messages \in Seq(Sent) /\ DOMAIN messages = {1, 2} /\ Len(messages) = 2
      /\ messages[1].copy = c /\ messages[1].is = "result"
      /\ messages[2].copy = c /\ messages[2].is = "ack"
  <2>1. Result(c, status) \in Sent /\ Ack(c) \in Sent
    BY DEF Result, Ack, Sent, Copy
  <2>2. messages \in Seq(Sent) /\ DOMAIN messages = {1, 2} /\ Len(messages) = 2
    BY <2>1
  <2>3. QED
    BY <2>2 DEF Result, Ack
<1>5. wire' = [wire EXCEPT ![w] = wire[w] \o messages]
  BY <1>1, <1>3 DEF Send
<1> HIDE DEF messages
<1>6. /\ wire[w] \o messages \in Seq(Sent)
      /\ DOMAIN (wire[w] \o messages) = 1 .. Len(wire[w]) + 2
      /\ DOMAIN wire[w] = 1 .. Len(wire[w]) /\ Len(wire[w]) \in Nat
      /\ \A i \in 1 .. Len(wire[w]) : (wire[w] \o messages)[i] = wire[w][i]
      /\ (wire[w] \o messages)[Len(wire[w]) + 1].copy = c
      /\ (wire[w] \o messages)[Len(wire[w]) + 2].copy = c
  <2>1. /\ wire[w] \o messages \in Seq(Sent) /\ Len(wire[w]) \in Nat
        /\ Len(wire[w] \o messages) = Len(wire[w]) + 2
        /\ DOMAIN wire[w] = 1 .. Len(wire[w])
        /\ \A i \in 1 .. Len(wire[w]) : (wire[w] \o messages)[i] = wire[w][i]
        /\ \A i \in 1 .. 2 : (wire[w] \o messages)[Len(wire[w]) + i] = messages[i]
    <3>1. wire[w] \in Seq(Sent)
      BY <1>2
    <3>2. messages \in Seq(Sent) /\ Len(messages) = 2
      BY <1>4
    <3>3. PICK s \in Seq(Sent), t \in Seq(Sent) : s = wire[w] /\ t = messages
      BY <3>1, <3>2
    <3>4. /\ s \o t \in Seq(Sent) /\ Len(s) \in Nat /\ Len(s \o t) = Len(s) + Len(t)
          /\ DOMAIN s = 1 .. Len(s)
          /\ \A i \in 1 .. Len(s) : (s \o t)[i] = s[i]
          /\ \A i \in 1 .. Len(t) : (s \o t)[Len(s) + i] = t[i]
      BY Concatenation
    <3>5. QED
      BY <3>2, <3>3, <3>4
  <2>2. DOMAIN (wire[w] \o messages) = 1 .. Len(wire[w]) + 2
    BY <2>1
  <2>3. /\ \A i \in 1 .. Len(wire[w]) : (wire[w] \o messages)[i] = wire[w][i]
        /\ (wire[w] \o messages)[Len(wire[w]) + 1] = messages[1]
        /\ (wire[w] \o messages)[Len(wire[w]) + 2] = messages[2]
    BY <2>1
  <2>4. QED
    BY <1>4, <2>1, <2>2, <2>3
<1>7. /\ wire'[w] = wire[w] \o messages /\ \A v \in Worker \ {w} : wire'[v] = wire[v]
      /\ wire' \in [Worker -> Seq(Sent)]
  BY <1>2, <1>5, <1>6 DEF PlaceTypes
<1>8. /\ task'[w] = Idle /\ \A v \in Worker \ {w} : task'[v] = task[v]
      /\ task' \in [Worker -> Request \cup {Idle}]
  BY <1>2 DEF PlaceTypes
<1>9. /\ InWork(w)' = Range(inbox[w]) /\ InWork(w)' \subseteq InWork(w)
      /\ c \in InWork(w) /\ c \notin InWork(w)'
  <2>1. task[w] # Idle
    BY <1>1 DEF Read
  <2>2. task[w] \notin Range(inbox[w])
    BY <1>2, <2>1 DEF UpInv
  <2>3. InWork(w)' = Range(inbox[w])
    BY <1>2, <1>8 DEF InWork
  <2>4. QED
    BY <1>3, <2>1, <2>2, <2>3 DEF InWork
<1>10. Answers(w)'
  <2>1. \A i \in DOMAIN messages : /\ messages[i].copy = c
                                   /\ messages[i].is = "nack" => c \in Poison
    BY <1>4
  <2>2. \A i, j \in DOMAIN messages :
          i < j => messages[i].is = "result" /\ messages[j].is # "result"
    BY <1>4
  <2>3. unacked' = unacked
    BY <1>2 DEF broker
  <2>4. QED
    BY <1>2, <1>4, <1>5, <1>9, <2>1, <2>2, <2>3, SendAnswers
<1>11. UpInv(w)'
  BY <1>2, <1>8, <1>9, <1>10 DEF UpInv, broker
<1>12. outages' \in 0 .. MaxOutages
  <2>1. status = "failed" /\ task[w] \notin Unreadable => outages < MaxOutages
    BY <1>2 DEF OCRFrame, Reading
  <2>2. QED
    BY <1>2, <2>1, OCRWorkerAssumption DEF PlaceTypes
<1>13. PlaceTypes'
  BY <1>2, <1>7, <1>8, <1>12 DEF PlaceTypes, broker
<1>14. ASSUME NEW r \in Request, Pending(w, r)' PROVE Pending(w, r)
  <2>1. CASE r = c
    BY <1>9, <2>1 DEF Pending
  <2>2. CASE r # c /\ r \notin InWork(w)'
    <3>1. PICK i \in DOMAIN wire'[w] : wire'[w][i].is = "result" /\ wire'[w][i].copy = r
      BY <1>14, <2>2 DEF Pending
    <3>2. i \in DOMAIN wire[w] /\ wire'[w][i] = wire[w][i]
      <4>1. i \in 1 .. Len(wire[w]) + 2 /\ wire'[w][i] = (wire[w] \o messages)[i]
        BY <1>6, <1>7, <3>1
      <4>2. i # Len(wire[w]) + 1 /\ i # Len(wire[w]) + 2
        BY <1>6, <2>2, <3>1, <4>1
      <4>3. i \in 1 .. Len(wire[w])
        BY <1>6, <4>1, <4>2
      <4>4. QED
        BY <1>6, <4>1, <4>3
    <3>3. QED
      BY <3>1, <3>2 DEF Pending
  <2>3. QED
    BY <1>9, <2>1, <2>2 DEF Pending
<1>15. QED
  BY <1>2, <1>7, <1>8, <1>11, <1>13, <1>14, WorkKeepsPlaces

LEMMA DeclareKeepsPlaces ==
  ASSUME PlaceInv, NEW w \in Worker, Declare(w)
  PROVE  PlaceInv'
<1>1. /\ PlaceTypes /\ Apart /\ link[w] = "down" /\ link' = [link EXCEPT ![w] = "up"]
      /\ UNCHANGED <<broker, inbox, task, wire, drops, outages>>
  BY DEF Declare, PlaceInv
<1>2. InWork(w) = {} /\ wire[w] = <<>> /\ unacked[w] = {}
  BY <1>1 DEF PlaceInv, ConnectionInv
<1>3. link'[w] = "up" /\ \A v \in Worker \ {w} : link'[v] = link[v]
  BY <1>1 DEF PlaceTypes
<1>4. PlaceTypes' /\ Apart'
  BY <1>1 DEF PlaceTypes, Apart, Queued, broker
<1>5. ConnectionInv(w)' /\ \A r \in Request : ~Pending(w, r)'
  <2>1. inbox[w] \in Seq(Copy) /\ Range(inbox[w]) = {} /\ task[w] = Idle
    BY <1>1, <1>2 DEF InWork, PlaceTypes
  <2>2. inbox[w] = <<>>
    <3>1. Len(inbox[w]) \in Nat /\ DOMAIN inbox[w] = 1 .. Len(inbox[w])
      BY <2>1
    <3>2. 1 \notin DOMAIN inbox[w]
      BY <2>1 DEF Range
    <3>3. Len(inbox[w]) = 0
      BY <3>1, <3>2
    <3>4. QED
      BY <2>1, <3>3
  <2>3. UpInv(w)'
    BY <1>1, <1>2, <2>1, <2>2 DEF UpInv, InWork, Answers, IsInjective, Range
  <2>4. \A r \in Request : ~Pending(w, r)'
    BY <1>1, <1>2, <2>1, <2>2 DEF Pending, InWork, Range
  <2>5. QED
    BY <1>3, <2>3, <2>4 DEF ConnectionInv
<1>6. ASSUME NEW v \in Worker \ {w}
      PROVE  ConnectionInv(v)' /\ \A r \in Request : Pending(v, r)' <=> Pending(v, r)
  BY <1>1, <1>3, OtherConnection DEF PlaceInv, broker
<1>7. AnswerInv'
  <2>1. Queued' = Queued
    BY <1>1 DEF Queued, broker
  <2>2. \A r \in Request : Open(r)' => Open(r)
    BY <1>3, <1>5, <1>6, <2>1 DEF Open
  <2>3. QED
    BY <1>1, <2>2, NothingOpened DEF PlaceInv, broker
<1>8. QED
  BY <1>4, <1>5, <1>6, <1>7 DEF PlaceInv

LEMMA NoticeKeepsPlaces ==
  ASSUME PlaceInv, NEW w \in Worker, Notice(w)
  PROVE  PlaceInv'
<1>1. /\ PlaceTypes /\ Apart /\ link[w] = "lost" /\ link' = [link EXCEPT ![w] = "down"]
      /\ task' = [task EXCEPT ![w] = Idle] /\ inbox' = [inbox EXCEPT ![w] = <<>>]
      /\ UNCHANGED <<broker, wire, drops, outages>>
  BY DEF Notice, PlaceInv
<1>2. wire[w] = <<>> /\ unacked[w] = {}
  BY <1>1 DEF PlaceInv, ConnectionInv
<1>3. /\ link'[w] = "down" /\ task'[w] = Idle /\ inbox'[w] = <<>>
      /\ \A v \in Worker \ {w} : link'[v] = link[v] /\ task'[v] = task[v] /\ inbox'[v] = inbox[v]
  BY <1>1 DEF PlaceTypes
<1>4. PlaceTypes' /\ Apart'
  BY <1>1 DEF PlaceTypes, Apart, Queued, broker
<1>5. ConnectionInv(w)'
  BY <1>1, <1>2, <1>3 DEF ConnectionInv, InWork, Range, broker
<1>6. ASSUME NEW v \in Worker \ {w}
      PROVE  ConnectionInv(v)' /\ \A r \in Request : Pending(v, r)' <=> Pending(v, r)
  BY <1>1, <1>3, OtherConnection DEF PlaceInv, broker
<1>7. AnswerInv'
  <2>1. Queued' = Queued
    BY <1>1 DEF Queued, broker
  <2>2. \A r \in Request : Open(r)' => Open(r)
    BY <1>3, <1>6, <2>1 DEF Open
  <2>3. QED
    BY <1>1, <2>2, NothingOpened DEF PlaceInv, broker
<1>8. QED
  BY <1>4, <1>5, <1>6, <1>7 DEF PlaceInv

\* A connection is lost: what it held is queued again, and may be answered once more.
LEMMA FaultKeepsPlaces ==
  ASSUME PlaceInv, NEW w \in Worker, Drop(w) \/ Crash(w)
  PROVE  PlaceInv'
<1>1. /\ PlaceTypes /\ Apart /\ main \in Seq(Copy) /\ unacked[w] \subseteq Copy
      /\ IsFiniteSet(unacked[w]) /\ unacked[w] \cap Queued = {}
  BY DEF PlaceInv, PlaceTypes, Apart
<1>2. /\ Requeue(w) /\ drops < MaxDrops /\ drops' = drops + 1
      /\ UNCHANGED <<unsent, retry, done, results, outages>>
  BY DEF Drop, Crash
<1>3. \/ link' = [link EXCEPT ![w] = "lost"] /\ UNCHANGED <<inbox, task>>
      \/ /\ link' = [link EXCEPT ![w] = "down"] /\ task' = [task EXCEPT ![w] = Idle]
         /\ inbox' = [inbox EXCEPT ![w] = <<>>]
  BY DEF Drop, Crash
<1>4. PICK back \in SetToAllKPermutations(unacked[w]) : main' = back \o main
  BY <1>2 DEF Requeue
<1>5. /\ unacked' = [unacked EXCEPT ![w] = {}] /\ wire' = [wire EXCEPT ![w] = <<>>]
  BY <1>2 DEF Requeue
<1>6. /\ back \in Seq(unacked[w]) /\ Range(back) \subseteq unacked[w] /\ IsInjective(back)
  BY <1>1, <1>4, PermutationOf
<1>7. main' \in Seq(Copy) /\ Range(main') = Range(back) \cup Range(main) /\ IsInjective(main')
  <2>1. back \in Seq(Copy) /\ Range(back) \cap Range(main) = {} /\ IsInjective(main)
    BY <1>1, <1>6 DEF Queued, Apart
  <2>2. QED
    BY <1>1, <1>4, <1>6, <2>1, ConcatDisjoint
<1>8. /\ unacked'[w] = {} /\ wire'[w] = <<>> /\ link'[w] # "up"
      /\ link'[w] = "down" => inbox'[w] = <<>> /\ task'[w] = Idle
      /\ \A v \in Worker \ {w} : /\ unacked'[v] = unacked[v] /\ wire'[v] = wire[v]
                                 /\ link'[v] = link[v] /\ task'[v] = task[v]
                                 /\ inbox'[v] = inbox[v]
  BY <1>1, <1>3, <1>5 DEF PlaceTypes
<1>9. PlaceTypes'
  <2>1. drops' \in 0 .. MaxDrops
    BY <1>1, <1>2, OCRWorkerAssumption DEF PlaceTypes
  <2>2. \A v \in Worker : IsFiniteSet(unacked'[v]) /\ Cardinality(unacked'[v]) <= Prefetch
    <3>1. IsFiniteSet(unacked'[w]) /\ Cardinality(unacked'[w]) = 0
      BY <1>8, FS_EmptySet
    <3>2. IsFiniteSet(unacked'[w]) /\ Cardinality(unacked'[w]) <= Prefetch
      BY <3>1, OCRWorkerAssumption
    <3>3. ASSUME NEW v \in Worker \ {w}
          PROVE  IsFiniteSet(unacked'[v]) /\ Cardinality(unacked'[v]) <= Prefetch
      BY <1>1, <1>8 DEF PlaceTypes
    <3>4. QED
      BY <3>2, <3>3
  <2>3. /\ unacked' \in [Worker -> SUBSET Copy] /\ wire' \in [Worker -> Seq(Sent)]
        /\ inbox' \in [Worker -> Seq(Copy)] /\ task' \in [Worker -> Request \cup {Idle}]
        /\ link' \in [Worker -> {"up", "lost", "down"}]
    <3>1. unacked' \in [Worker -> SUBSET Copy] /\ wire' \in [Worker -> Seq(Sent)]
      BY <1>1, <1>5 DEF PlaceTypes
    <3>2. link' \in [Worker -> {"up", "lost", "down"}]
      BY <1>1, <1>3 DEF PlaceTypes
    <3>3. inbox' \in [Worker -> Seq(Copy)] /\ task' \in [Worker -> Request \cup {Idle}]
      <4>1. inbox \in [Worker -> Seq(Copy)] /\ task \in [Worker -> Request \cup {Idle}]
        BY <1>1 DEF PlaceTypes
      <4>2. <<>> \in Seq(Copy) /\ Idle \in Request \cup {Idle}
        OBVIOUS
      <4>3. \/ UNCHANGED <<inbox, task>>
            \/ task' = [task EXCEPT ![w] = Idle] /\ inbox' = [inbox EXCEPT ![w] = <<>>]
        BY <1>3
      <4>4. QED
        BY <4>1, <4>2, <4>3
    <3>4. QED
      BY <3>1, <3>2, <3>3
  <2>4. QED
    BY <1>1, <1>2, <1>7, <2>1, <2>2, <2>3 DEF PlaceTypes
<1>10. Queued' \subseteq Queued \cup unacked[w]
  BY <1>2, <1>6, <1>7 DEF Queued
<1>11. Apart'
  <2>1. unsent \cap unacked[w] = {} /\ retry \cap unacked[w] = {}
    BY <1>1 DEF Queued
  <2>2. /\ unsent' \cap Range(main') = {} /\ retry' \cap unsent' = {}
        /\ retry' \cap Range(main') = {}
    BY <1>1, <1>2, <1>6, <1>7, <2>1 DEF Apart
  <2>3. \A v \in Worker : unacked'[v] \cap Queued' = {}
    BY <1>1, <1>8, <1>10 DEF Apart
  <2>4. \A v, u \in Worker : v # u => unacked'[v] \cap unacked'[u] = {}
    BY <1>1, <1>8 DEF Apart
  <2>5. QED
    BY <1>7, <2>2, <2>3, <2>4 DEF Apart
<1>12. ConnectionInv(w)'
  BY <1>8 DEF ConnectionInv, InWork, Range
<1>13. ASSUME NEW v \in Worker \ {w} PROVE ConnectionInv(v)'
  BY <1>8, OtherConnection DEF PlaceInv
<1>14. AnswerInv'
  <2>1. ASSUME NEW r \in Request
        PROVE  Len(results'[r]) <= drops' /\ Len(results'[r]) <= 1 + drops'
    <3>1. Len(results[r]) <= 1 + drops /\ Len(results[r]) \in Nat /\ drops \in Nat
      BY <1>1 DEF PlaceInv, AnswerInv, PlaceTypes
    <3>2. QED
      BY <1>2, <3>1
  <2>2. QED
    BY <2>1 DEF AnswerInv
<1>15. QED
  BY <1>9, <1>11, <1>12, <1>13, <1>14 DEF PlaceInv

LEMMA PlaceStep ==
  ASSUME PlaceInv, [Next]_vars
  PROVE  PlaceInv'
<1>1. CASE Next
  <2>1. ASSUME NEW m \in Copy, Publish(m) \/ RetryExpires(m) PROVE PlaceInv'
    BY <2>1, QueueStepsKeepPlaces
  <2>2. ASSUME NEW w \in Worker, Deliver(w) PROVE PlaceInv'
    BY <2>2, DeliverKeepsPlaces
  <2>3. ASSUME NEW w \in Worker, Handle(w) PROVE PlaceInv'
    BY <2>3, HandleKeepsPlaces
  <2>4. ASSUME NEW w \in Worker, Consume(w) PROVE PlaceInv'
    <3>1. CASE Declare(w)
      BY <3>1, DeclareKeepsPlaces
    <3>2. CASE OnMessage(w)
      BY <3>2, OnMessageKeepsPlaces
    <3>3. CASE ProcessFrame(w)
      BY <3>3, ProcessFrameKeepsPlaces
    <3>4. CASE Notice(w)
      BY <3>4, NoticeKeepsPlaces
    <3>5. QED
      BY <2>4, <3>1, <3>2, <3>3, <3>4 DEF Consume
  <2>5. ASSUME NEW w \in Worker, Drop(w) \/ Crash(w) PROVE PlaceInv'
    BY <2>5, FaultKeepsPlaces
  <2>6. QED
    BY <1>1, <2>1, <2>2, <2>3, <2>4, <2>5 DEF Next
<1>2. CASE UNCHANGED vars
  <2>1. /\ UNCHANGED <<unsent, main, retry, unacked, done, results>>
        /\ UNCHANGED <<inbox, task, wire, link, drops, outages>>
    BY <1>2 DEF vars, broker, worker
  <2>2. PlaceTypes' /\ Apart'
    BY <2>1 DEF PlaceInv, PlaceTypes, Apart, Queued
  <2>3. ASSUME NEW v \in Worker
        PROVE  ConnectionInv(v)' /\ \A r \in Request : Pending(v, r)' <=> Pending(v, r)
    BY <2>1, OtherConnection DEF PlaceInv
  <2>4. AnswerInv'
    BY <2>1, <2>3, NothingOpened DEF PlaceInv, Open, Queued
  <2>5. QED
    BY <2>2, <2>3, <2>4 DEF PlaceInv
<1>3. QED
  BY <1>1, <1>2

\* Every state keeps the types of the model, whatever is lost or dies; among them, that
\* the broker never has more than OCR_CONCURRENCY messages out on one connection.
THEOREM OCRTypeCorrect == Spec => []TypeOK
<1>1. PlaceInv => TypeOK
  BY DEF PlaceInv, PlaceTypes, TypeOK, Copy
<1>2. QED
  BY <1>1, InitPlaceInv, PlaceStep, PTL DEF Spec

\* A request is answered once, and once more for each connection that was lost or worker
\* that died at most: a failure to read it is an answer, never a reason to try again.
THEOREM AnsweredAgainOnlyAfterDropTheorem == Spec => []AnsweredAgainOnlyAfterDrop
<1>1. PlaceInv => AnsweredAgainOnlyAfterDrop
  BY DEF PlaceInv, AnswerInv, AnsweredAgainOnlyAfterDrop
<1>2. QED
  BY <1>1, InitPlaceInv, PlaceStep, PTL DEF Spec
================================================================================
