------------------------- MODULE FrameRecognitionProofs -------------------------
(***************************************************************************)
(* Theorems about FrameRecognition, for any frames, results, number of     *)
(* retries and faults, and for both engines: the fan-in (RecognitionInv),  *)
(* what becomes of a secret (LeakInv) and where a flag comes from          *)
(* (FlagInv, on the check digits of card numbers), and that the calls are  *)
(* made as HandlerOnce promises.                                           *)
(***************************************************************************)
EXTENDS FrameRecognition, FiniteSetTheorems, SequenceTheorems, WellFoundedInduction, TLAPS

--------------------------------------------------------------------------------
(* The engines *)

LEMMA VerdictIs == \A scores : Verdict(scores) \in {"leak", "clear"}
BY DEF Verdict

\* A row with text is never given the classification of a missing or of a skipped one.
LEMMA TextIsClassified ==
  ASSUME NEW text, NEW item \in Classify(Engine, text)
  PROVE  item \in {"leak", "clear", "unanswered", "failed", "unavailable"}
<1>1. \A reply : EvaluateFrame(reply) \in {"leak", "clear", "unanswered", "failed", "unavailable"}
  BY VerdictIs DEF EvaluateFrame
<1>2. \A found : LocalEvaluate(found) \in {"leak", "clear"}
  BY VerdictIs DEF LocalEvaluate
<1>3. QED
  BY <1>1, <1>2 DEF Classify

LEMMA OutcomesOfRows ==
  ASSUME NEW row, NEW item, <<row, item>> \in Outcomes
  PROVE  /\ item # "none"
         /\ row \in {"secret", "plain"} => item \in Classify(Engine, row)
<1>1. item \in IF row \in {"secret", "plain"} THEN Classify(Engine, row) ELSE {"skipped"}
  BY DEF Outcomes
<1>2. QED
  BY <1>1, TextIsClassified

\* While the threshold is not above the scores, an engine that answers flags a secret.
LEMMA SecretIsFlagged ==
  ASSUME EffectiveThreshold <= 93, NEW item \in Classify(Engine, "secret")
  PROVE  item \notin {"skipped", "clear"}
<1>1. EffectiveThreshold \in Int
  BY ClassifierAssumption DEF EffectiveThreshold
<1>2. ASSUME NEW reply \in RepliesTo("secret")
      PROVE  EvaluateFrame(reply) # "clear"
  <2>1. CASE DOMAIN reply.answers = {}
    BY <2>1 DEF EvaluateFrame
  <2>2. CASE DOMAIN reply.answers # {}
    <3>1. /\ DOMAIN reply.answers = {"api_key"}
          /\ reply.answers["api_key"] \in {[probability |-> 93, noul |-> 0],
                                           [probability |-> 0, noul |-> 93]}
      BY <2>2 DEF RepliesTo
    <3>2. Score(reply.answers["api_key"]) = 93
      BY <3>1 DEF Score
    <3>3. Verdict([c \in DOMAIN reply.answers |-> Score(reply.answers[c])]) = "leak"
      BY <1>1, <3>1, <3>2 DEF Verdict
    <3>4. QED
      BY <3>3 DEF EvaluateFrame
  <2>3. QED
    BY <2>1, <2>2
<1>3. ASSUME NEW found \in Findings("secret")
      PROVE  LocalEvaluate(found) # "clear"
  <2> DEFINE hits == found.categories
                       \cup (IF HasPhoneNumber(found) THEN {"phone"} ELSE {})
                       \cup (IF HasLuhnNumber(found) THEN {"credit_card"} ELSE {})
  <2>1. \/ found.categories = {"api_key"}
        \/ HasPhoneNumber(found)
        \/ HasLuhnNumber(found)
    <3>1. \A n : \A card \in Cards(n) : LuhnValid(card)
      BY DEF Cards
    <3>2. \/ found.categories = {"api_key"}
          \/ found.phones = {10} /\ ~found.geo /\ ~found.degrees
          \/ \E n \in CardLengths : \E card \in Cards(n) : found.cards = {card} /\ ~found.geo
      BY DEF Findings
    <3>3. QED
      BY <3>1, <3>2 DEF HasPhoneNumber, HasLuhnNumber
  <2>2. hits # {}
    BY <2>1
  <2>3. LocalHitScore >= EffectiveThreshold
    BY <1>1 DEF LocalHitScore
  <2>4. Verdict([c \in hits |-> LocalHitScore]) = "leak"
    BY <2>2, <2>3 DEF Verdict
  <2>5. QED
    BY <2>4 DEF LocalEvaluate
<1>4. QED
  BY <1>2, <1>3, TextIsClassified DEF Classify
--------------------------------------------------------------------------------
(* The invariant *)

Place == {"queued", "phase", "job", "list", "existing", "mark", "lookup", "insert",
          "work", "check", "count", "ready", "fail", "done", "dead"}

AllRead == \A f \in Frame : ocr[f] # "none"
AllClassified == \A f \in Frame : cls[f] # "none"

\* What a call knows: it never sees more than there is, past its loads it has not seen a
\* success, and where it counts rows, or concludes, it has found the extraction done.
TaskInv(t) ==
  /\ pc[t] # "queued" => t \in events
  /\ seen[t].phase = "done" => phase = "done"
  /\ seen[t].ocr # "none" => ocr[FrameOfTask(t)] # "none"
  /\ seen[t].job # "success"
  /\ pc[t] \notin {"phase", "job"} => seen[t].video # "success"
  /\ KindOf(t) = "ocr" /\ pc[t] \in {"mark", "lookup", "insert", "work", "check"}
       => (seen[t].phase = "done" => seen[t].frames = Frame)
  /\ KindOf(t) = "ocr" /\ pc[t] = "check" => seen[t].phase = "done"
  /\ KindOf(t) = "ocr" /\ pc[t] = "ready" => AllRead
  /\ pc[t] = "count" => /\ KindOf(t) # "ocr"
                        /\ phase = "done" /\ seen[t].frames = Frame /\ AllRead
  /\ KindOf(t) # "ocr" /\ pc[t] = "ready" => phase = "done" /\ AllRead /\ AllClassified

\* Both a result and its request are there, or none of the two.
RequestInv == \A m \in Message : <<"classify", m>> \in events => ocr[FrameOf[m]] # "none"

RowInv ==
  /\ phase = "done" => stored = Frame
  /\ SuccessIsComplete /\ JobSuccessIsComplete
  /\ ChainUnbroken /\ RequestInv

RecognitionInv == TypeOK /\ RowInv /\ \A t \in Task : TaskInv(t)

\* No step takes back what a copy may have seen.
RowsGrow ==
  /\ phase = "done" => phase' = "done" /\ stored' = stored
  /\ events \subseteq events'
  /\ \A f \in Frame : (ocr[f] # "none" => ocr'[f] # "none") /\ (cls[f] # "none" => cls'[f] # "none")

\* The step of one call leaves the others where they are.
OnlyMoves(t) == \A u \in Task \ {t} : pc'[u] = pc[u] /\ seen'[u] = seen[u]

LEMMA TaskFacts ==
  ASSUME NEW t \in Task
  PROVE  /\ FrameOfTask(t) \in Frame /\ t[2] \in Message
         /\ KindOf(t) \in Kind /\ t = <<KindOf(t), t[2]>>
         /\ StageOf(t) \in {"ocr", "classify"}
BY FrameRecognitionAssumption DEF Task, Kind, FrameOfTask, KindOf, StageOf

LEMMA TaskInvStable ==
  ASSUME RecognitionInv, RowsGrow, NEW u \in Task, TaskInv(u),
         pc'[u] = pc[u], seen'[u] = seen[u]
  PROVE  TaskInv(u)'
<1>1. FrameOfTask(u) \in Frame
  BY TaskFacts
<1>2. (AllRead => AllRead') /\ (AllClassified => AllClassified')
  BY DEF RowsGrow, AllRead, AllClassified
<1>3. QED
  BY <1>1, <1>2 DEF TaskInv, RowsGrow, RecognitionInv

\* A call that returns, or waits for its next attempt, knows nothing.
LEMMA TaskInvUnread ==
  ASSUME NEW t \in Task, t \in events', seen'[t] = Unread,
         pc'[t] \in {"queued", "done", "dead"}
  PROVE  TaskInv(t)'
BY DEF TaskInv, Unread

LEMMA ProceedFacts ==
  ASSUME TypeOK, NEW t \in Task, NEW place \in Place, NEW copy \in Copy, Proceed(t, place, copy)
  PROVE  /\ pc' \in [Task -> Place] /\ seen' \in [Task -> Copy]
         /\ pc'[t] = place
         /\ seen'[t] = IF place \in {"queued", "done", "dead"} THEN Unread ELSE copy
         /\ OnlyMoves(t)
<1>1. Unread \in Copy
  BY DEF Unread, Copy, JobStatus, Phase, OCRRow, Status
<1>2. QED
  BY <1>1 DEF Proceed, TypeOK, Place, OnlyMoves

\* Retries keep the types, and leave the call with a copy it had, or with none.
LEMMA RetryFacts ==
  ASSUME TypeOK, NEW t \in Task, Retry(t) \/ FailOrRetry(t)
  PROVE  /\ pc' \in [Task -> Place] /\ seen' \in [Task -> Copy]
         /\ tries' \in [Task -> 0 .. MaxRetries]
         /\ OnlyMoves(t)
         /\ \/ pc'[t] \in {"queued", "dead"} /\ seen'[t] = Unread
            \/ FailOrRetry(t) /\ pc'[t] = "fail" /\ seen'[t] = seen[t]
<1>1. seen[t] \in Copy /\ tries[t] \in 0 .. MaxRetries
  BY DEF TypeOK
<1>2. MaxRetries \in Nat
  BY FrameRecognitionAssumption
<1>3. CASE Retry(t)
  <2>1. CASE tries[t] < MaxRetries
    <3>1. Proceed(t, "queued", seen[t]) /\ tries' = [tries EXCEPT ![t] = @ + 1]
      BY <1>3, <2>1 DEF Retry, Goto
    <3>2. tries' \in [Task -> 0 .. MaxRetries]
      BY <3>1, <2>1, <1>1, <1>2 DEF TypeOK
    <3>3. QED
      BY <3>1, <3>2, <1>1, ProceedFacts DEF Place
  <2>2. CASE ~(tries[t] < MaxRetries)
    <3>1. Proceed(t, "dead", seen[t]) /\ tries' = tries
      BY <1>3, <2>2 DEF Retry, Goto
    <3>2. QED
      BY <3>1, <1>1, ProceedFacts DEF Place, TypeOK
  <2>3. QED
    BY <2>1, <2>2
<1>4. CASE FailOrRetry(t) /\ ~Retry(t)
  <2>1. Proceed(t, "fail", seen[t]) /\ tries' = tries
    BY <1>4 DEF FailOrRetry, Goto
  <2>2. QED
    BY <2>1, <1>1, <1>4, ProceedFacts DEF Place, TypeOK
<1>5. QED
  BY <1>3, <1>4
--------------------------------------------------------------------------------
(* Steps that only read *)

\* What is to be shown of a step of the call t.
StepOf(t) == TypeOK' /\ RowInv' /\ RowsGrow /\ OnlyMoves(t) /\ TaskInv(t)'

LEMMA StepKeepsInv ==
  ASSUME RecognitionInv, NEW t \in Task, StepOf(t)
  PROVE  RecognitionInv'
<1>1. ASSUME NEW u \in Task, u # t
      PROVE  TaskInv(u)'
  BY <1>1, TaskInvStable DEF StepOf, OnlyMoves, RecognitionInv
<1>2. QED
  BY <1>1 DEF StepOf, RecognitionInv

LEMMA RowsStay ==
  ASSUME RecognitionInv, UNCHANGED <<answer, extraction, rows>>
  PROVE  /\ RowInv' /\ RowsGrow
         /\ answer' = answer /\ stored' = stored /\ phase' = phase
         /\ video' = video /\ job' = job /\ ocr' = ocr /\ cls' = cls /\ events' = events
<1>1. /\ answer' = answer /\ stored' = stored /\ phase' = phase
      /\ video' = video /\ job' = job /\ ocr' = ocr /\ cls' = cls /\ events' = events
  BY DEF extraction, rows
<1>2. QED
  BY <1>1 DEF RecognitionInv, RowInv, RowsGrow, SuccessIsComplete, JobSuccessIsComplete,
              ChainUnbroken, RequestInv

\* A call that reads, decides and goes on.
LEMMA ReadingStep ==
  ASSUME RecognitionInv, NEW t \in Task, NEW place \in Place, NEW copy \in Copy,
         Proceed(t, place, copy), UNCHANGED <<answer, extraction, rows, tries>>
  PROVE  /\ TypeOK' /\ RowInv' /\ RowsGrow /\ OnlyMoves(t)
         /\ pc'[t] = place
         /\ seen'[t] = IF place \in {"queued", "done", "dead"} THEN Unread ELSE copy
         /\ UNCHANGED <<stored, phase, ocr, cls, events>>
<1>1. UNCHANGED <<answer, extraction, rows>> /\ tries' = tries
  OBVIOUS
<1>2. TypeOK
  BY DEF RecognitionInv
<1>3. QED
  BY <1>1, <1>2, RowsStay, ProceedFacts DEF TypeOK, Place

\* A call that fails, and may be tried again.
LEMMA RetryStep ==
  ASSUME RecognitionInv, NEW t \in Task, Retry(t) \/ FailOrRetry(t),
         FailOrRetry(t) => Retry(t) \/ pc[t] \notin {"phase", "job"},
         pc[t] # "queued", UNCHANGED <<answer, extraction, rows>>
  PROVE  StepOf(t)
<1>1. TypeOK /\ TaskInv(t)
  BY DEF RecognitionInv
<1>2. RowInv' /\ RowsGrow /\ UNCHANGED <<answer, stored, phase, video, job, ocr, cls, events>>
  BY RowsStay
<1>3. TypeOK' /\ OnlyMoves(t)
  BY <1>1, <1>2, RetryFacts DEF TypeOK, Place
<1>4. t \in events'
  BY <1>1, <1>2 DEF TaskInv
<1>5. CASE pc'[t] \in {"queued", "dead"} /\ seen'[t] = Unread
  BY <1>2, <1>3, <1>4, <1>5, TaskInvUnread DEF StepOf
<1>6. CASE FailOrRetry(t) /\ pc'[t] = "fail" /\ seen'[t] = seen[t]
  <2>1. pc[t] \notin {"phase", "job"}
    <3>1. ~Retry(t)
      <4>1. SUFFICES ASSUME Retry(t) PROVE FALSE
        OBVIOUS
      <4>2. seen[t] \in Copy
        BY <1>1 DEF TypeOK
      <4>3. Proceed(t, "queued", seen[t]) \/ Proceed(t, "dead", seen[t])
        BY <4>1 DEF Retry, Goto
      <4>4. pc'[t] \in {"queued", "dead"}
        BY <4>2, <4>3, <1>1, ProceedFacts DEF Place
      <4>5. QED
        BY <4>4, <1>6
    <3>2. QED
      BY <3>1, <1>6
  <2>2. TaskInv(t)'
    BY <2>1, <1>1, <1>2, <1>4, <1>6 DEF TaskInv
  <2>3. QED
    BY <2>2, <1>2, <1>3 DEF StepOf
<1>7. QED
  BY <1>5, <1>6, <1>1, RetryFacts
LEMMA LoadSteps ==
  ASSUME RecognitionInv, NEW t \in Task, LoadVideo(t) \/ LoadFrameJob(t) \/ LoadJob(t)
  PROVE  StepOf(t)
<1>1. /\ TypeOK /\ TaskInv(t)
      /\ seen[t] \in Copy /\ video \in Status /\ phase \in Phase
  BY DEF RecognitionInv, TypeOK
<1>2. CASE LoadVideo(t)
  <2>1. [seen[t] EXCEPT !.video = video] \in Copy
    BY <1>1 DEF Copy
  <2>2. /\ pc[t] = "queued" /\ t \in events
        /\ Proceed(t, "phase", [seen[t] EXCEPT !.video = video])
        /\ UNCHANGED <<answer, extraction, rows, tries>>
    BY <1>2 DEF LoadVideo
  <2>3. /\ TypeOK' /\ RowInv' /\ RowsGrow /\ OnlyMoves(t) /\ pc'[t] = "phase"
        /\ seen'[t] = [seen[t] EXCEPT !.video = video]
        /\ UNCHANGED <<stored, phase, ocr, cls, events>>
    BY <2>1, <2>2, ReadingStep DEF Place
  <2>4. TaskInv(t)'
    BY <2>2, <2>3, <1>1 DEF TaskInv, Copy
  <2>5. QED
    BY <2>3, <2>4 DEF StepOf
<1>3. CASE LoadFrameJob(t)
  <2>1. [seen[t] EXCEPT !.phase = phase] \in Copy
    BY <1>1 DEF Copy
  <2>2. /\ pc[t] = "phase"
        /\ Proceed(t, "job", [seen[t] EXCEPT !.phase = phase])
        /\ UNCHANGED <<answer, extraction, rows, tries>>
    BY <1>3 DEF LoadFrameJob
  <2>3. /\ TypeOK' /\ RowInv' /\ RowsGrow /\ OnlyMoves(t) /\ pc'[t] = "job"
        /\ seen'[t] = [seen[t] EXCEPT !.phase = phase]
        /\ UNCHANGED <<stored, phase, ocr, cls, events>>
    BY <2>1, <2>2, ReadingStep DEF Place
  <2>4. TaskInv(t)'
    BY <2>2, <2>3, <1>1 DEF TaskInv, Copy
  <2>5. QED
    BY <2>3, <2>4 DEF StepOf
<1>4. CASE LoadJob(t)
  <2> DEFINE mine == job[StageOf(t)]
             place == IF mine = "success" \/ seen[t].video = "success" THEN "done"
                      ELSE IF KindOf(t) = "finalize" THEN "check" ELSE "list"
             known == [seen[t] EXCEPT !.job = mine]
  <2>1. known \in Copy
    BY <1>1, TaskFacts DEF Copy, TypeOK
  <2>2. /\ pc[t] = "job"
        /\ Proceed(t, place, known)
        /\ UNCHANGED <<answer, extraction, rows, tries>>
    BY <1>4 DEF LoadJob
  <2>3. place \in {"done", "check", "list"}
    OBVIOUS
  <2>4. /\ TypeOK' /\ RowInv' /\ RowsGrow /\ OnlyMoves(t) /\ pc'[t] = place
        /\ seen'[t] = IF place \in {"queued", "done", "dead"} THEN Unread ELSE known
        /\ UNCHANGED <<stored, phase, ocr, cls, events>>
    <3>1. place \in Place
      BY <2>3 DEF Place
    <3> HIDE DEF place, known
    <3>2. QED
      BY <2>1, <2>2, <3>1, ReadingStep
  <2>5. TaskInv(t)'
    <3>1. t \in events'
      BY <2>2, <2>4, <1>1 DEF TaskInv
    <3>2. CASE place = "done"
      BY <2>4, <3>1, <3>2, TaskInvUnread
    <3>3. CASE place # "done"
      <4>1. mine # "success" /\ seen[t].video # "success"
        BY <3>3
      <4>2. KindOf(t) = "ocr" => place = "list"
        BY <3>3
      <4>3. seen'[t] = known
        BY <2>3, <2>4, <3>3
      <4>4. QED
        BY <4>1, <4>2, <4>3, <3>1, <2>2, <2>3, <2>4, <1>1 DEF TaskInv, Copy
    <3>4. QED
      BY <3>2, <3>3
  <2>6. QED
    BY <2>4, <2>5 DEF StepOf
<1>5. QED
  BY <1>2, <1>3, <1>4
LEMMA CheckSteps ==
  ASSUME RecognitionInv, NEW t \in Task,
         \/ ListOCR(t) \/ ListOCRText(t) \/ ListClassification(t) \/ LookUpClassifyJob(t)
         \/ CheckOCR(t) \/ CheckFinalize(t) \/ CountClassifications(t) \/ Crash(t)
  PROVE  StepOf(t)
<1>1. /\ TypeOK /\ TaskInv(t) /\ seen[t] \in Copy
      /\ FrameOfTask(t) \in Frame /\ ocr[FrameOfTask(t)] \in OCRRow /\ stored \subseteq Frame
      /\ phase = "done" => stored = Frame
  BY TaskFacts DEF RecognitionInv, TypeOK, RowInv
<1>2. CASE ListOCR(t)
  <2> DEFINE place == IF seen[t].job = "pending" THEN "mark" ELSE "lookup"
             known == [seen[t] EXCEPT !.frames = stored, !.ocr = ocr[FrameOfTask(t)]]
  <2>1. known \in Copy
    BY <1>1, TaskFacts DEF Copy, TypeOK
  <2>2. /\ ListOCR(t) /\ place \in {"mark", "lookup"}
        /\ Proceed(t, place, known)
        /\ UNCHANGED <<answer, extraction, rows, tries>>
    BY <1>2 DEF ListOCR, Goto
  <2>3. place \in Place
    BY <2>2 DEF Place
  <2>4. /\ TypeOK' /\ RowInv' /\ RowsGrow /\ OnlyMoves(t) /\ pc'[t] = place
        /\ seen'[t] = IF place \in {"queued", "done", "dead"} THEN Unread ELSE known
        /\ UNCHANGED <<stored, phase, ocr, cls, events>>
    <3> HIDE DEF place, known
    <3>1. QED
      BY <2>1, <2>2, <2>3, ReadingStep
  <2>5. t \in events'
    BY <1>1, <2>2, <2>4 DEF TaskInv, ListOCR
  <2>6. CASE place \in {"done", "dead"}
    BY <2>4, <2>5, <2>6, TaskInvUnread DEF StepOf
  <2>7. CASE place \notin {"done", "dead"}
    <3>1. seen'[t] = known
      BY <2>2, <2>4, <2>7
    <3>2. TaskInv(t)'
      BY <3>1, <2>2, <2>4, <2>5, <2>7, <1>1 DEF TaskInv, Copy, ListOCR
    <3>3. QED
      BY <3>2, <2>4 DEF StepOf
  <2>8. QED
    BY <2>6, <2>7
<1>3. CASE ListOCRText(t)
  <2> DEFINE place == "existing"
             known == [seen[t] EXCEPT !.ocr = ocr[FrameOfTask(t)]]
  <2>1. known \in Copy
    BY <1>1, TaskFacts DEF Copy, TypeOK
  <2>2. /\ ListOCRText(t) /\ place \in {"existing"}
        /\ Proceed(t, place, known)
        /\ UNCHANGED <<answer, extraction, rows, tries>>
    BY <1>3 DEF ListOCRText, Goto
  <2>3. place \in Place
    BY <2>2 DEF Place
  <2>4. /\ TypeOK' /\ RowInv' /\ RowsGrow /\ OnlyMoves(t) /\ pc'[t] = place
        /\ seen'[t] = IF place \in {"queued", "done", "dead"} THEN Unread ELSE known
        /\ UNCHANGED <<stored, phase, ocr, cls, events>>
    <3> HIDE DEF place, known
    <3>1. QED
      BY <2>1, <2>2, <2>3, ReadingStep
  <2>5. t \in events'
    BY <1>1, <2>2, <2>4 DEF TaskInv, ListOCRText
  <2>6. CASE place \in {"done", "dead"}
    BY <2>4, <2>5, <2>6, TaskInvUnread DEF StepOf
  <2>7. CASE place \notin {"done", "dead"}
    <3>1. seen'[t] = known
      BY <2>2, <2>4, <2>7
    <3>2. TaskInv(t)'
      BY <3>1, <2>2, <2>4, <2>5, <2>7, <1>1 DEF TaskInv, Copy, ListOCRText
    <3>3. QED
      BY <3>2, <2>4 DEF StepOf
  <2>8. QED
    BY <2>6, <2>7
<1>4. CASE ListClassification(t)
  <2> DEFINE place == IF ClassificationFinal(cls[FrameOfTask(t)]) THEN "check"
                      ELSE IF seen[t].job = "processing" THEN "work" ELSE "mark"
             known == seen[t]
  <2>1. known \in Copy
    BY <1>1, TaskFacts DEF Copy, TypeOK
  <2>2. /\ ListClassification(t) /\ place \in {"check", "work", "mark"}
        /\ Proceed(t, place, known)
        /\ UNCHANGED <<answer, extraction, rows, tries>>
    BY <1>4 DEF ListClassification, Goto
  <2>3. place \in Place
    BY <2>2 DEF Place
  <2>4. /\ TypeOK' /\ RowInv' /\ RowsGrow /\ OnlyMoves(t) /\ pc'[t] = place
        /\ seen'[t] = IF place \in {"queued", "done", "dead"} THEN Unread ELSE known
        /\ UNCHANGED <<stored, phase, ocr, cls, events>>
    <3> HIDE DEF place, known
    <3>1. QED
      BY <2>1, <2>2, <2>3, ReadingStep
  <2>5. t \in events'
    BY <1>1, <2>2, <2>4 DEF TaskInv, ListClassification
  <2>6. CASE place \in {"done", "dead"}
    BY <2>4, <2>5, <2>6, TaskInvUnread DEF StepOf
  <2>7. CASE place \notin {"done", "dead"}
    <3>1. seen'[t] = known
      BY <2>2, <2>4, <2>7
    <3>2. TaskInv(t)'
      BY <3>1, <2>2, <2>4, <2>5, <2>7, <1>1 DEF TaskInv, Copy, ListClassification
    <3>3. QED
      BY <3>2, <2>4 DEF StepOf
  <2>8. QED
    BY <2>6, <2>7
<1>5. CASE LookUpClassifyJob(t)
  <2> DEFINE place == IF job["classify"] = "absent" THEN "insert" ELSE "work"
             known == seen[t]
  <2>1. known \in Copy
    BY <1>1, TaskFacts DEF Copy, TypeOK
  <2>2. /\ LookUpClassifyJob(t) /\ place \in {"insert", "work"}
        /\ Proceed(t, place, known)
        /\ UNCHANGED <<answer, extraction, rows, tries>>
    BY <1>5 DEF LookUpClassifyJob, Goto
  <2>3. place \in Place
    BY <2>2 DEF Place
  <2>4. /\ TypeOK' /\ RowInv' /\ RowsGrow /\ OnlyMoves(t) /\ pc'[t] = place
        /\ seen'[t] = IF place \in {"queued", "done", "dead"} THEN Unread ELSE known
        /\ UNCHANGED <<stored, phase, ocr, cls, events>>
    <3> HIDE DEF place, known
    <3>1. QED
      BY <2>1, <2>2, <2>3, ReadingStep
  <2>5. t \in events'
    BY <1>1, <2>2, <2>4 DEF TaskInv, LookUpClassifyJob
  <2>6. CASE place \in {"done", "dead"}
    BY <2>4, <2>5, <2>6, TaskInvUnread DEF StepOf
  <2>7. CASE place \notin {"done", "dead"}
    <3>1. seen'[t] = known
      BY <2>2, <2>4, <2>7
    <3>2. TaskInv(t)'
      BY <3>1, <2>2, <2>4, <2>5, <2>7, <1>1 DEF TaskInv, Copy, LookUpClassifyJob
    <3>3. QED
      BY <3>2, <2>4 DEF StepOf
  <2>8. QED
    BY <2>6, <2>7
<1>6. CASE CheckOCR(t)
  <2> DEFINE place == IF OCRComplete(seen[t].frames) THEN "ready" ELSE "done"
             known == seen[t]
  <2>1. known \in Copy
    BY <1>1, TaskFacts DEF Copy, TypeOK
  <2>2. /\ CheckOCR(t) /\ place \in {"ready", "done"}
        /\ Proceed(t, place, known)
        /\ UNCHANGED <<answer, extraction, rows, tries>>
    BY <1>6 DEF CheckOCR, Goto
  <2>3. place \in Place
    BY <2>2 DEF Place
  <2>4. /\ TypeOK' /\ RowInv' /\ RowsGrow /\ OnlyMoves(t) /\ pc'[t] = place
        /\ seen'[t] = IF place \in {"queued", "done", "dead"} THEN Unread ELSE known
        /\ UNCHANGED <<stored, phase, ocr, cls, events>>
    <3> HIDE DEF place, known
    <3>1. QED
      BY <2>1, <2>2, <2>3, ReadingStep
  <2>5. t \in events'
    BY <1>1, <2>2, <2>4 DEF TaskInv, CheckOCR
  <2>6. CASE place \in {"done", "dead"}
    BY <2>4, <2>5, <2>6, TaskInvUnread DEF StepOf
  <2>7. CASE place \notin {"done", "dead"}
    <3>1. seen'[t] = known
      BY <2>2, <2>4, <2>7
    <3>2. TaskInv(t)'
      BY <3>1, <2>2, <2>4, <2>5, <2>7, <1>1 DEF TaskInv, Copy, CheckOCR, OCRComplete, AllRead
    <3>3. QED
      BY <3>2, <2>4 DEF StepOf
  <2>8. QED
    BY <2>6, <2>7
<1>7. CASE CheckFinalize(t)
  <2> DEFINE place == IF seen[t].phase = "done" /\ OCRComplete(stored) THEN "count" ELSE "done"
             known == [seen[t] EXCEPT !.frames = stored]
  <2>1. known \in Copy
    BY <1>1, TaskFacts DEF Copy, TypeOK
  <2>2. /\ CheckFinalize(t) /\ place \in {"count", "done"}
        /\ Proceed(t, place, known)
        /\ UNCHANGED <<answer, extraction, rows, tries>>
    BY <1>7 DEF CheckFinalize, Goto
  <2>3. place \in Place
    BY <2>2 DEF Place
  <2>4. /\ TypeOK' /\ RowInv' /\ RowsGrow /\ OnlyMoves(t) /\ pc'[t] = place
        /\ seen'[t] = IF place \in {"queued", "done", "dead"} THEN Unread ELSE known
        /\ UNCHANGED <<stored, phase, ocr, cls, events>>
    <3> HIDE DEF place, known
    <3>1. QED
      BY <2>1, <2>2, <2>3, ReadingStep
  <2>5. t \in events'
    BY <1>1, <2>2, <2>4 DEF TaskInv, CheckFinalize
  <2>6. CASE place \in {"done", "dead"}
    BY <2>4, <2>5, <2>6, TaskInvUnread DEF StepOf
  <2>7. CASE place \notin {"done", "dead"}
    <3>1. seen'[t] = known
      BY <2>2, <2>4, <2>7
    <3>2. TaskInv(t)'
      BY <3>1, <2>2, <2>4, <2>5, <2>7, <1>1 DEF TaskInv, Copy, CheckFinalize, OCRComplete, AllRead
    <3>3. QED
      BY <3>2, <2>4 DEF StepOf
  <2>8. QED
    BY <2>6, <2>7
<1>8. CASE CountClassifications(t)
  <2> DEFINE place == IF \A f \in seen[t].frames : cls[f] # "none" THEN "ready" ELSE "done"
             known == seen[t]
  <2>1. known \in Copy
    BY <1>1, TaskFacts DEF Copy, TypeOK
  <2>2. /\ CountClassifications(t) /\ place \in {"ready", "done"}
        /\ Proceed(t, place, known)
        /\ UNCHANGED <<answer, extraction, rows, tries>>
    BY <1>8 DEF CountClassifications, Goto
  <2>3. place \in Place
    BY <2>2 DEF Place
  <2>4. /\ TypeOK' /\ RowInv' /\ RowsGrow /\ OnlyMoves(t) /\ pc'[t] = place
        /\ seen'[t] = IF place \in {"queued", "done", "dead"} THEN Unread ELSE known
        /\ UNCHANGED <<stored, phase, ocr, cls, events>>
    <3> HIDE DEF place, known
    <3>1. QED
      BY <2>1, <2>2, <2>3, ReadingStep
  <2>5. t \in events'
    BY <1>1, <2>2, <2>4 DEF TaskInv, CountClassifications
  <2>6. CASE place \in {"done", "dead"}
    BY <2>4, <2>5, <2>6, TaskInvUnread DEF StepOf
  <2>7. CASE place \notin {"done", "dead"}
    <3>1. seen'[t] = known
      BY <2>2, <2>4, <2>7
    <3>2. TaskInv(t)'
      BY <3>1, <2>2, <2>4, <2>5, <2>7, <1>1 DEF TaskInv, Copy, CountClassifications, AllRead, AllClassified
    <3>3. QED
      BY <3>2, <2>4 DEF StepOf
  <2>8. QED
    BY <2>6, <2>7
<1>9. CASE Crash(t)
  <2> DEFINE place == "dead"
             known == seen[t]
  <2>1. known \in Copy
    BY <1>1, TaskFacts DEF Copy, TypeOK
  <2>2. /\ Crash(t) /\ place \in {"dead"}
        /\ Proceed(t, place, known)
        /\ UNCHANGED <<answer, extraction, rows, tries>>
    BY <1>9 DEF Crash, Goto
  <2>3. place \in Place
    BY <2>2 DEF Place
  <2>4. /\ TypeOK' /\ RowInv' /\ RowsGrow /\ OnlyMoves(t) /\ pc'[t] = place
        /\ seen'[t] = IF place \in {"queued", "done", "dead"} THEN Unread ELSE known
        /\ UNCHANGED <<stored, phase, ocr, cls, events>>
    <3> HIDE DEF place, known
    <3>1. QED
      BY <2>1, <2>2, <2>3, ReadingStep
  <2>5. t \in events'
    BY <1>1, <2>2, <2>4 DEF TaskInv, Crash
  <2>6. CASE place \in {"done", "dead"}
    BY <2>4, <2>5, <2>6, TaskInvUnread DEF StepOf
  <2>7. CASE place \notin {"done", "dead"}
    <3>1. seen'[t] = known
      BY <2>2, <2>4, <2>7
    <3>2. TaskInv(t)'
      BY <3>1, <2>2, <2>4, <2>5, <2>7, <1>1 DEF TaskInv, Copy, Crash
    <3>3. QED
      BY <3>2, <2>4 DEF StepOf
  <2>8. QED
    BY <2>6, <2>7
<1>10. QED
  BY <1>2, <1>3, <1>4, <1>5, <1>6, <1>7, <1>8, <1>9

LEMMA FailingSteps ==
  ASSUME RecognitionInv, NEW t \in Task,
         \/ ReadyFails(t) \/ ClassifierUnavailable(t) \/ LoadFails(t) \/ WorkFails(t)
  PROVE  StepOf(t)
<1>1. CASE ReadyFails(t) \/ LoadFails(t)
  <2>1. /\ Retry(t) /\ pc[t] # "queued"
        /\ UNCHANGED <<answer, extraction, rows>>
    BY <1>1 DEF ReadyFails, LoadFails
  <2>2. QED
    BY <2>1, RetryStep
<1>2. CASE ClassifierUnavailable(t) \/ WorkFails(t)
  <2>1. /\ FailOrRetry(t) /\ pc[t] \notin {"queued", "phase", "job"}
        /\ UNCHANGED <<answer, extraction, rows>>
    BY <1>2 DEF ClassifierUnavailable, WorkFails
  <2>2. QED
    BY <2>1, RetryStep
<1>3. QED
  BY <1>1, <1>2
--------------------------------------------------------------------------------
(* Steps that write *)

LEMMA VideoOutcomes ==
  ASSUME NEW s \in Status, s # "success"
  PROVE  /\ MarkOCRProcessing(s).status = "processing" /\ MarkClassifying(s).status = "processing"
         /\ MarkOCRReady(s).ok => MarkOCRReady(s).status = "processing"
         /\ MarkClassified(s).status \in Status
         /\ MarkOCRFailed(s).status = "failed" /\ MarkClassifyFailed(s).status = "failed"
<1>1. CASE s = "pending"
  BY <1>1 DEF MarkOCRProcessing, MarkClassifying, MarkOCRReady, MarkClassified, MarkOCRFailed,
              MarkClassifyFailed, Transition, Status
<1>2. CASE s = "processing"
  BY <1>2 DEF MarkOCRProcessing, MarkClassifying, MarkOCRReady, MarkClassified, MarkOCRFailed,
              MarkClassifyFailed, Transition, Status
<1>3. CASE s = "failed"
  BY <1>3 DEF MarkOCRProcessing, MarkClassifying, MarkOCRReady, MarkClassified, MarkOCRFailed,
              MarkClassifyFailed, Transition, Status
<1>4. QED
  BY <1>1, <1>2, <1>3 DEF Status

\* The answer of a transaction arrives, or it is lost and the call may be tried again.
LEMMA CommittedFacts ==
  ASSUME TypeOK, NEW t \in Task, NEW place \in Place, NEW copy \in Copy,
         CommittedOrRetry(t, place, copy) \/ CommittedOrFailOrRetry(t, place, copy)
  PROVE  /\ pc' \in [Task -> Place] /\ seen' \in [Task -> Copy]
         /\ tries' \in [Task -> 0 .. MaxRetries]
         /\ OnlyMoves(t)
         /\ \/ pc'[t] = place
               /\ seen'[t] = IF place \in {"queued", "done", "dead"} THEN Unread ELSE copy
            \/ pc'[t] \in {"queued", "dead"} /\ seen'[t] = Unread
            \/ pc'[t] = "fail" /\ seen'[t] = seen[t]
<1>1. CASE Proceed(t, place, copy) /\ UNCHANGED tries
  <2>1. tries' \in [Task -> 0 .. MaxRetries]
    BY <1>1 DEF TypeOK
  <2>2. QED
    BY <1>1, <2>1, ProceedFacts
<1>2. CASE Retry(t) \/ FailOrRetry(t)
  BY <1>2, RetryFacts
<1>3. QED
  BY <1>1, <1>2 DEF CommittedOrRetry, CommittedOrFailOrRetry, Committed

LEMMA MarkProcessingStep ==
  ASSUME RecognitionInv, NEW t \in Task, MarkProcessing(t)
  PROVE  StepOf(t)
<1> DEFINE begun == IF KindOf(t) = "ocr" THEN MarkOCRProcessing(seen[t].video)
                                         ELSE MarkClassifying(seen[t].video)
           copy == [seen[t] EXCEPT !.video = begun.status, !.job = "processing"]
           place == IF KindOf(t) = "ocr" THEN "lookup" ELSE "work"
<1>1. TypeOK /\ RowInv /\ TaskInv(t) /\ seen[t] \in Copy /\ StageOf(t) \in {"ocr", "classify"}
  BY TaskFacts DEF RecognitionInv, TypeOK
<1>2. /\ pc[t] = "mark" /\ video' = begun.status
      /\ job' = [job EXCEPT ![StageOf(t)] = "processing"]
      /\ CommittedOrRetry(t, place, copy)
      /\ UNCHANGED <<answer, extraction, ocr, cls, events>>
  BY DEF MarkProcessing
<1>3. begun.status = "processing"
  BY <1>1, <1>2, VideoOutcomes DEF TaskInv, Copy
<1>4. copy \in Copy /\ place \in Place /\ place \in {"lookup", "work"}
  BY <1>1, <1>3 DEF Copy, JobStatus, Status, Place
<1>5. UNCHANGED <<answer, stored, phase, ocr, cls, events>>
  BY <1>2 DEF extraction
<1>6. TypeOK' /\ OnlyMoves(t)
  <2>1. /\ pc' \in [Task -> Place] /\ seen' \in [Task -> Copy]
        /\ tries' \in [Task -> 0 .. MaxRetries] /\ OnlyMoves(t)
    <3> HIDE DEF copy, place
    <3>1. QED
      BY <1>1, <1>2, <1>4, CommittedFacts
  <2>2. QED
    BY <2>1, <1>1, <1>2, <1>3, <1>5 DEF TypeOK, Place, JobStatus, Status
<1>7. RowInv' /\ RowsGrow
  BY <1>1, <1>2, <1>3, <1>5 DEF TypeOK, RowInv, RowsGrow, SuccessIsComplete,
     JobSuccessIsComplete, ChainUnbroken, RequestInv
<1>8. t \in events'
  BY <1>1, <1>2, <1>5 DEF TaskInv
<1>9. TaskInv(t)'
  <2>1. \/ pc'[t] = place /\ seen'[t] = copy
        \/ pc'[t] \in {"queued", "dead"} /\ seen'[t] = Unread
        \/ pc'[t] = "fail" /\ seen'[t] = seen[t]
    <3>1. place \notin {"queued", "done", "dead"}
      BY <1>4
    <3> HIDE DEF copy, place
    <3>2. QED
      BY <1>1, <1>2, <1>4, <3>1, CommittedFacts
  <2>2. CASE pc'[t] = place /\ seen'[t] = copy
    BY <2>2, <1>1, <1>2, <1>3, <1>5, <1>8 DEF TaskInv, Copy
  <2>3. CASE pc'[t] \in {"queued", "dead"} /\ seen'[t] = Unread
    BY <2>3, <1>8, TaskInvUnread
  <2>4. CASE pc'[t] = "fail" /\ seen'[t] = seen[t]
    BY <2>4, <1>1, <1>2, <1>5, <1>8 DEF TaskInv
  <2>5. QED
    BY <2>1, <2>2, <2>3, <2>4
<1>10. QED
  BY <1>6, <1>7, <1>9 DEF StepOf

LEMMA MarkReadyStep ==
  ASSUME RecognitionInv, NEW t \in Task, MarkReady(t)
  PROVE  StepOf(t)
<1>1. TypeOK /\ RowInv /\ TaskInv(t) /\ seen[t] \in Copy /\ t[2] \in Message
      /\ KindOf(t) \in Kind
  BY TaskFacts DEF RecognitionInv, TypeOK
<1>2. /\ pc[t] = "ready" /\ Conclusion(t).ok /\ video' = Conclusion(t).status
      /\ job' = [job EXCEPT ![StageOf(t)] = "success"]
      /\ events' = events \cup (IF KindOf(t) = "ocr" THEN {<<"finalize", t[2]>>} ELSE {})
      /\ CommittedOrRetry(t, "done", Unread)
      /\ UNCHANGED <<answer, stored, phase, ocr, cls>>
  BY DEF MarkReady, extraction
<1>3. seen[t].video \in Status \ {"success"}
  BY <1>1, <1>2 DEF TaskInv, Copy
<1>4. /\ video' \in Status
      /\ video' = "success" => KindOf(t) # "ocr"
  BY <1>2, <1>3, VideoOutcomes DEF Conclusion, Status
<1>5. "done" \in Place /\ Unread \in Copy
  BY DEF Place, Unread, Copy, JobStatus, Phase, OCRRow, Status
<1>6. /\ pc' \in [Task -> Place] /\ seen' \in [Task -> Copy]
      /\ tries' \in [Task -> 0 .. MaxRetries] /\ OnlyMoves(t)
      /\ \/ pc'[t] \in {"queued", "done", "dead"} /\ seen'[t] = Unread
         \/ pc'[t] = "fail" /\ seen'[t] = seen[t]
  BY <1>1, <1>2, <1>5, CommittedFacts
<1>7. events' \subseteq Task /\ events \subseteq events'
      /\ \A m \in Message : <<"classify", m>> \in events' <=> <<"classify", m>> \in events
  BY <1>1, <1>2 DEF TypeOK, Task, Kind
<1>8. TypeOK'
  BY <1>1, <1>2, <1>4, <1>6, <1>7 DEF TypeOK, Place, JobStatus, Status
<1>9. RowInv' /\ RowsGrow
  <2>1. SuccessIsComplete'
    BY <1>1, <1>2, <1>4 DEF TaskInv, RowInv, SuccessIsComplete, AllRead, AllClassified
  <2>2. JobSuccessIsComplete'
    BY <1>1, <1>2 DEF TypeOK, TaskInv, RowInv, JobSuccessIsComplete, AllRead, AllClassified, StageOf
  <2>3. ChainUnbroken' /\ RequestInv'
    BY <1>1, <1>2, <1>7 DEF RowInv, ChainUnbroken, RequestInv
  <2>4. QED
    BY <2>1, <2>2, <2>3, <1>1, <1>2, <1>7 DEF RowInv, RowsGrow
<1>10. TaskInv(t)'
  <2>1. t \in events'
    BY <1>1, <1>2, <1>7 DEF TaskInv
  <2>2. CASE pc'[t] \in {"queued", "done", "dead"} /\ seen'[t] = Unread
    BY <2>1, <2>2, TaskInvUnread
  <2>3. CASE pc'[t] = "fail" /\ seen'[t] = seen[t]
    BY <2>1, <2>3, <1>1, <1>2 DEF TaskInv
  <2>4. QED
    BY <2>2, <2>3, <1>6
<1>11. QED
  BY <1>6, <1>8, <1>9, <1>10 DEF StepOf
LEMMA MarkFailedStep ==
  ASSUME RecognitionInv, NEW t \in Task, MarkFailed(t)
  PROVE  StepOf(t)
<1>1. TypeOK /\ RowInv /\ TaskInv(t) /\ seen[t] \in Copy /\ StageOf(t) \in {"ocr", "classify"}
  BY TaskFacts DEF RecognitionInv, TypeOK
<1>2. /\ pc[t] = "fail"
      /\ \/ /\ video' \in {MarkOCRFailed(seen[t].video).status, MarkClassifyFailed(seen[t].video).status}
            /\ job' = [job EXCEPT ![StageOf(t)] = "failed"]
         \/ UNCHANGED <<video, job>>
      /\ Proceed(t, "dead", seen[t])
      /\ UNCHANGED <<answer, stored, phase, ocr, cls, events, tries>>
  BY DEF MarkFailed, Goto, extraction
<1>3. \/ video' = "failed" /\ job' = [job EXCEPT ![StageOf(t)] = "failed"]
      \/ UNCHANGED <<video, job>>
  BY <1>1, <1>2, VideoOutcomes DEF TaskInv, Copy
<1>4. /\ pc' \in [Task -> Place] /\ seen' \in [Task -> Copy] /\ OnlyMoves(t)
      /\ pc'[t] = "dead" /\ seen'[t] = Unread
  BY <1>1, <1>2, ProceedFacts DEF Place
<1>5. TypeOK'
  BY <1>1, <1>2, <1>3, <1>4 DEF TypeOK, Place, JobStatus, Status
<1>6. RowInv' /\ RowsGrow
  BY <1>1, <1>2, <1>3 DEF TypeOK, RowInv, RowsGrow, SuccessIsComplete, JobSuccessIsComplete,
                          ChainUnbroken, RequestInv
<1>7. t \in events'
  BY <1>1, <1>2 DEF TaskInv
<1>8. QED
  BY <1>4, <1>5, <1>6, <1>7, TaskInvUnread DEF StepOf

LEMMA InsertClassifyJobStep ==
  ASSUME RecognitionInv, NEW t \in Task, InsertClassifyJob(t)
  PROVE  StepOf(t)
<1>1. TypeOK /\ RowInv /\ TaskInv(t) /\ seen[t] \in Copy
  BY DEF RecognitionInv, TypeOK
<1>2. /\ pc[t] = "insert"
      /\ UNCHANGED <<answer, extraction, stored, phase, video, ocr, cls, events>>
  BY DEF InsertClassifyJob, extraction
<1>3. CASE job["classify"] = "absent"
  <2>1. /\ job' = [job EXCEPT !["classify"] = "pending"]
        /\ CommittedOrFailOrRetry(t, "work", seen[t])
    BY <1>3 DEF InsertClassifyJob
  <2>2. /\ pc' \in [Task -> Place] /\ seen' \in [Task -> Copy]
        /\ tries' \in [Task -> 0 .. MaxRetries] /\ OnlyMoves(t)
        /\ \/ pc'[t] \in {"work", "fail"} /\ seen'[t] = seen[t]
           \/ pc'[t] \in {"queued", "dead"} /\ seen'[t] = Unread
    BY <1>1, <2>1, CommittedFacts DEF Place
  <2>3. TypeOK'
    BY <1>1, <1>2, <2>1, <2>2 DEF TypeOK, Place, JobStatus, Status
  <2>4. RowInv' /\ RowsGrow
    BY <1>1, <1>2, <2>1 DEF TypeOK, RowInv, RowsGrow, SuccessIsComplete, JobSuccessIsComplete,
                            ChainUnbroken, RequestInv
  <2>5. t \in events'
    BY <1>1, <1>2 DEF TaskInv
  <2>6. CASE pc'[t] \in {"work", "fail"} /\ seen'[t] = seen[t]
    <3>1. TaskInv(t)'
      BY <2>5, <2>6, <1>1, <1>2 DEF TaskInv
    <3>2. QED
      BY <3>1, <2>2, <2>3, <2>4 DEF StepOf
  <2>7. QED
    BY <2>2, <2>3, <2>4, <2>5, <2>6, TaskInvUnread DEF StepOf
<1>4. CASE job["classify"] # "absent"
  <2>1. FailOrRetry(t) /\ UNCHANGED job
    BY <1>4 DEF InsertClassifyJob
  <2>2. UNCHANGED <<answer, extraction, rows>>
    BY <1>2, <2>1 DEF rows
  <2>3. QED
    BY <1>2, <2>1, <2>2, RetryStep
<1>5. QED
  BY <1>3, <1>4

\* The row and its request are written together; the request is left out only for a frame
\* that has a row already, and so a request.
LEMMA PersistResultStep ==
  ASSUME RecognitionInv, NEW t \in Task, PersistResult(t)
  PROVE  StepOf(t)
<1> DEFINE request == IF OCRFinal(seen[t].ocr) THEN {} ELSE {<<"classify", t[2]>>}
           place == IF seen[t].phase = "done" THEN "check" ELSE "done"
           row == NormalizeResult(answer[t[2]])
<1>1. /\ TypeOK /\ RowInv /\ TaskInv(t) /\ seen[t] \in Copy
      /\ FrameOfTask(t) \in Frame /\ t[2] \in Message /\ FrameOfTask(t) = FrameOf[t[2]]
  BY TaskFacts DEF RecognitionInv, TypeOK, FrameOfTask
<1>2. /\ KindOf(t) = "ocr" /\ pc[t] = "work"
      /\ ocr' = [ocr EXCEPT ![FrameOfTask(t)] = row]
      /\ job' = [job EXCEPT !["ocr"] = seen[t].job]
      /\ events' = events \cup request
      /\ CommittedOrFailOrRetry(t, place, seen[t])
      /\ UNCHANGED <<answer, stored, phase, video, cls>>
  BY DEF PersistResult, extraction
<1>3. row \in OCRRow /\ row # "none"
  BY <1>1, FrameRecognitionAssumption DEF TypeOK, NormalizeResult, OCRRow
<1>4. /\ seen[t].job \in JobStatus \ {"success"}
      /\ OCRFinal(seen[t].ocr) => ocr[FrameOfTask(t)] # "none"
  BY <1>1 DEF TaskInv, Copy, OCRFinal
<1>5. place \in Place /\ place \in {"check", "done"}
  BY DEF Place
<1>6. /\ pc' \in [Task -> Place] /\ seen' \in [Task -> Copy]
      /\ tries' \in [Task -> 0 .. MaxRetries] /\ OnlyMoves(t)
      /\ \/ pc'[t] = place /\ seen'[t] = IF place = "done" THEN Unread ELSE seen[t]
         \/ pc'[t] \in {"queued", "dead"} /\ seen'[t] = Unread
         \/ pc'[t] = "fail" /\ seen'[t] = seen[t]
  <2>1. place \in {"queued", "done", "dead"} <=> place = "done"
    BY <1>5
  <2> HIDE DEF place
  <2>2. QED
    BY <1>1, <1>2, <1>5, <2>1, CommittedFacts
<1>7. events' \subseteq Task /\ events \subseteq events'
  BY <1>1, <1>2 DEF TypeOK, Task, Kind
<1>8. TypeOK'
  BY <1>1, <1>2, <1>3, <1>4, <1>6, <1>7 DEF TypeOK, Place
<1>9. RowInv' /\ RowsGrow
  <2>1. \A f \in Frame : ocr[f] # "none" => ocr'[f] # "none"
    BY <1>1, <1>2, <1>3 DEF TypeOK
  <2>2. ocr'[FrameOfTask(t)] # "none"
    BY <1>1, <1>2, <1>3 DEF TypeOK
  <2>3. SuccessIsComplete' /\ JobSuccessIsComplete'
    BY <2>1, <1>1, <1>2, <1>4 DEF TypeOK, RowInv, SuccessIsComplete, JobSuccessIsComplete
  <2>4. ChainUnbroken'
    <3>1. SUFFICES ASSUME NEW f \in Frame, ocr'[f] # "none"
                   PROVE  \E m \in Message : FrameOf[m] = f /\ <<"classify", m>> \in events'
      BY DEF ChainUnbroken
    <3>2. CASE ocr[f] # "none"
      BY <3>2, <1>1, <1>7 DEF RowInv, ChainUnbroken
    <3>3. CASE ocr[f] = "none"
      <4>1. f = FrameOfTask(t)
        BY <3>1, <3>3, <1>1, <1>2 DEF TypeOK
      <4>2. <<"classify", t[2]>> \in events'
        BY <4>1, <3>3, <1>2, <1>4
      <4>3. QED
        BY <4>1, <4>2, <1>1
    <3>4. QED
      BY <3>2, <3>3
  <2>5. RequestInv'
    BY <2>1, <2>2, <1>1, <1>2, FrameRecognitionAssumption DEF RowInv, RequestInv
  <2>6. QED
    BY <2>1, <2>3, <2>4, <2>5, <1>1, <1>2, <1>7 DEF RowInv, RowsGrow
<1>10. t \in events'
  BY <1>1, <1>2, <1>7 DEF TaskInv
<1>11. TaskInv(t)'
  <2>1. CASE seen'[t] = Unread /\ pc'[t] \in {"queued", "done", "dead"}
    BY <2>1, <1>10, TaskInvUnread
  <2>2. CASE /\ seen'[t] = seen[t]
             /\ \/ pc'[t] = "fail"
                \/ pc'[t] = "check" /\ seen[t].phase = "done"
    <3>1. ocr'[FrameOfTask(t)] # "none"
      BY <1>1, <1>2, <1>3 DEF TypeOK
    <3>2. QED
      BY <2>2, <3>1, <1>1, <1>2, <1>10 DEF TaskInv
  <2>3. QED
    BY <2>1, <2>2, <1>5, <1>6
<1>12. QED
  BY <1>6, <1>8, <1>9, <1>11 DEF StepOf

LEMMA ClassifyFrameStep ==
  ASSUME RecognitionInv, NEW t \in Task, ClassifyFrame(t)
  PROVE  StepOf(t)
<1>1. /\ TypeOK /\ RowInv /\ TaskInv(t) /\ seen[t] \in Copy /\ FrameOfTask(t) \in Frame
  BY TaskFacts DEF RecognitionInv, TypeOK
<1>2. PICK item \in Classification :
        /\ <<seen[t].ocr, item>> \in Outcomes
        /\ cls' = [cls EXCEPT ![FrameOfTask(t)] = item]
  BY DEF ClassifyFrame
<1>3. /\ KindOf(t) = "classify" /\ pc[t] = "work"
      /\ CommittedOrFailOrRetry(t, "check", seen[t])
      /\ UNCHANGED <<answer, stored, phase, video, job, ocr, events>>
  BY DEF ClassifyFrame, extraction
<1>4. item # "none"
  BY <1>2, OutcomesOfRows
<1>5. /\ pc' \in [Task -> Place] /\ seen' \in [Task -> Copy]
      /\ tries' \in [Task -> 0 .. MaxRetries] /\ OnlyMoves(t)
      /\ \/ pc'[t] \in {"check", "fail"} /\ seen'[t] = seen[t]
         \/ pc'[t] \in {"queued", "dead"} /\ seen'[t] = Unread
  BY <1>1, <1>3, CommittedFacts DEF Place
<1>6. TypeOK'
  BY <1>1, <1>2, <1>3, <1>5 DEF TypeOK, Place
<1>7. \A f \in Frame : cls[f] # "none" => cls'[f] # "none"
  BY <1>1, <1>2, <1>4 DEF TypeOK
<1>8. RowInv' /\ RowsGrow
  BY <1>1, <1>3, <1>7 DEF RowInv, RowsGrow, SuccessIsComplete, JobSuccessIsComplete,
                          ChainUnbroken, RequestInv
<1>9. TaskInv(t)'
  <2>1. t \in events'
    BY <1>1, <1>3 DEF TaskInv
  <2>2. CASE pc'[t] \in {"check", "fail"} /\ seen'[t] = seen[t]
    BY <2>1, <2>2, <1>1, <1>3 DEF TaskInv
  <2>3. QED
    BY <2>1, <2>2, <1>5, TaskInvUnread
<1>10. QED
  BY <1>5, <1>6, <1>8, <1>9 DEF StepOf
--------------------------------------------------------------------------------
(* The extraction, and the invariant *)

LEMMA ExtractKeepsInv ==
  ASSUME RecognitionInv, Extract
  PROVE  RecognitionInv'
<1>1. TypeOK /\ RowInv
  BY DEF RecognitionInv
<1>2. UNCHANGED <<answer, job, ocr, cls, events, pc, tries, seen>>
  BY DEF Extract, SegmentEnds, ExtractionFails, StoreFrame, rows
<1>3. /\ phase' \in Phase /\ stored' \subseteq Frame
      /\ phase = "done" => UNCHANGED <<phase, stored>>
      /\ phase' = "done" => stored' = Frame
      /\ video' \in {"processing", "failed"} \/ video' = video
  <2>1. CASE SegmentEnds
    BY <2>1, <1>1 DEF SegmentEnds, Extraction!Announce, extraction, TypeOK, RowInv, Phase
  <2>2. CASE ExtractionFails
    BY <2>2, <1>1 DEF ExtractionFails, Extraction!Fail, TypeOK, RowInv, Phase
  <2>3. ASSUME NEW f \in Frame, StoreFrame(f)
        PROVE  /\ phase' = phase /\ stored' \subseteq Frame /\ phase # "done" /\ video' = video
    BY <2>3, <1>1 DEF StoreFrame, Extraction!StoreFrame, rows, TypeOK
  <2>4. QED
    BY <2>1, <2>2, <2>3, <1>1 DEF Extract, TypeOK
<1>4. TypeOK'
  BY <1>1, <1>2, <1>3 DEF TypeOK, Status
<1>5. RowInv' /\ RowsGrow
  BY <1>1, <1>2, <1>3 DEF RowInv, RowsGrow, SuccessIsComplete, JobSuccessIsComplete,
                          ChainUnbroken, RequestInv
<1>6. ASSUME NEW t \in Task
      PROVE  TaskInv(t)'
  BY <1>2, <1>5, TaskInvStable DEF RecognitionInv
<1>7. QED
  BY <1>4, <1>5, <1>6 DEF RecognitionInv

LEMMA InitInv == Init => RecognitionInv
<1> SUFFICES ASSUME Init PROVE RecognitionInv
  OBVIOUS
<1>1. stored = {} /\ phase = "running"
  BY DEF Init, Extraction!Init
<1>2. Unread \in Copy
  BY DEF Unread, Copy, JobStatus, Phase, OCRRow, Status
<1>3. MaxRetries \in Nat
  BY FrameRecognitionAssumption
<1>4. TypeOK
  BY <1>1, <1>2, <1>3 DEF Init, TypeOK, Phase, Status, JobStatus, OCRRow, Classification, Task, Kind
<1>5. RowInv
  <2>1. \A m \in Message : <<"classify", m>> \notin events
    BY DEF Init
  <2>2. QED
    BY <1>1, <2>1 DEF Init, RowInv, SuccessIsComplete, JobSuccessIsComplete, ChainUnbroken, RequestInv
<1>6. ASSUME NEW t \in Task
      PROVE  TaskInv(t)
  BY <1>1 DEF Init, TaskInv, Unread
<1>7. QED
  BY <1>4, <1>5, <1>6 DEF RecognitionInv

LEMMA HandlerStep ==
  ASSUME RecognitionInv, NEW t \in Task, Handle(t) \/ Crash(t)
  PROVE  StepOf(t)
BY LoadSteps, CheckSteps, FailingSteps, MarkProcessingStep, MarkReadyStep, MarkFailedStep,
   InsertClassifyJobStep, PersistResultStep, ClassifyFrameStep DEF Handle

LEMMA NextKeepsInv == RecognitionInv /\ [Next]_vars => RecognitionInv'
<1> SUFFICES ASSUME RecognitionInv, [Next]_vars PROVE RecognitionInv'
  OBVIOUS
<1>1. CASE Extract
  BY <1>1, ExtractKeepsInv
<1>2. CASE UNCHANGED vars
  <2>1. UNCHANGED <<answer, extraction, stored, phase, rows, video, job, ocr, cls, events, pc, tries, seen>>
    BY <1>2 DEF vars, extraction, rows
  <2>2. TypeOK' /\ RowInv' /\ RowsGrow
    BY <2>1, RowsStay DEF RecognitionInv, TypeOK
  <2>3. ASSUME NEW t \in Task
        PROVE  TaskInv(t)'
    BY <2>1, <2>2, TaskInvStable DEF RecognitionInv
  <2>4. QED
    BY <2>2, <2>3 DEF RecognitionInv
<1>3. QED
  BY <1>1, <1>2, HandlerStep, StepKeepsInv DEF Next

LEMMA InvHolds == Spec => []RecognitionInv
<1>1. QED
  BY InitInv, NextKeepsInv, PTL DEF Spec

--------------------------------------------------------------------------------
(* Theorems *)

\* The rows and the handlers of a video keep their types.
THEOREM RecognitionTypeCorrect == Spec => []TypeOK
<1>1. RecognitionInv => TypeOK
  BY DEF RecognitionInv
<1>2. QED
  BY <1>1, InvHolds, PTL

\* A video that succeeds has all its frames, read and answered for (markReady).
THEOREM SuccessIsCompleteTheorem == Spec => []SuccessIsComplete
<1>1. RecognitionInv => SuccessIsComplete
  BY DEF RecognitionInv, RowInv
<1>2. QED
  BY <1>1, InvHolds, PTL

\* The ocr job and the classify job succeed on all frames or not at all (markReady).
THEOREM JobSuccessIsCompleteTheorem == Spec => []JobSuccessIsComplete
<1>1. RecognitionInv => JobSuccessIsComplete
  BY DEF RecognitionInv, RowInv
<1>2. QED
  BY <1>1, InvHolds, PTL

\* Each frame that was read has been handed on, through any fault (persistResults).
THEOREM ChainUnbrokenTheorem == Spec => []ChainUnbroken
<1>1. RecognitionInv => ChainUnbroken
  BY DEF RecognitionInv, RowInv
<1>2. QED
  BY <1>1, InvHolds, PTL

--------------------------------------------------------------------------------
(* A leak is not dismissed *)

AllSecret(f) == \A m \in Message : FrameOf[m] = f => answer[m] = "secret"

\* The rows of such a frame, and the copies its classifications decide on, say so too:
\* the text is read after the row whose request made the call.
LeakRow(f) == AllSecret(f) => ocr[f] \in {"none", "secret"} /\ cls[f] \notin {"skipped", "clear"}

LeakTask(t) ==
  KindOf(t) = "classify" =>
    /\ pc[t] \notin {"lookup", "insert"}
    /\ pc[t] \in {"existing", "mark", "work"} /\ AllSecret(FrameOfTask(t)) => seen[t].ocr = "secret"

LeakInv == (\A f \in Frame : LeakRow(f)) /\ (\A t \in Task : LeakTask(t))

\* Where a step leaves a call that classifies, and the text it has read.
LEMMA ClassifyMoves ==
  ASSUME RecognitionInv, NEW t \in Task, Handle(t) \/ Crash(t),
         KindOf(t) = "classify", pc[t] \notin {"lookup", "insert"}
  PROVE  \/ pc'[t] \notin {"lookup", "insert", "existing", "mark", "work"}
         \/ ListOCRText(t) /\ pc'[t] = "existing" /\ seen'[t].ocr = ocr[FrameOfTask(t)]
         \/ /\ pc[t] \in {"existing", "mark"} /\ pc'[t] \in {"mark", "work"}
            /\ seen'[t].ocr = seen[t].ocr
<1>1. /\ TypeOK /\ TaskInv(t) /\ seen[t] \in Copy /\ FrameOfTask(t) \in Frame
      /\ video \in Status /\ phase \in Phase /\ stored \in SUBSET Frame
      /\ StageOf(t) = "classify" /\ job["classify"] \in JobStatus
      /\ ocr[FrameOfTask(t)] \in OCRRow
  BY TaskFacts DEF RecognitionInv, TypeOK, StageOf
<1>2. Unread \in Copy
  BY DEF Unread, Copy, JobStatus, Phase, OCRRow, Status
<1>3. CASE \/ LoadVideo(t) \/ LoadFrameJob(t)
  <2>1. /\ [seen[t] EXCEPT !.video = video] \in Copy
        /\ [seen[t] EXCEPT !.phase = phase] \in Copy
    BY <1>1 DEF Copy
  <2>2. pc'[t] \in {"phase", "job"}
    BY <1>1, <1>3, <2>1, ProceedFacts DEF LoadVideo, LoadFrameJob, Place
  <2>3. QED
    BY <2>2
<1>4. CASE LoadJob(t)
  <2> DEFINE place == IF job["classify"] = "success" \/ seen[t].video = "success" THEN "done"
                      ELSE IF KindOf(t) = "finalize" THEN "check" ELSE "list"
  <2>1. [seen[t] EXCEPT !.job = job["classify"]] \in Copy
    BY <1>1 DEF Copy
  <2>2. Proceed(t, place, [seen[t] EXCEPT !.job = job["classify"]])
    BY <1>1, <1>4 DEF LoadJob
  <2>3. place \in {"done", "check", "list"} /\ place \in Place
    BY DEF Place
  <2>4. pc'[t] = place
    <3> HIDE DEF place
    <3>1. QED
      BY <1>1, <2>1, <2>2, <2>3, ProceedFacts
  <2>5. QED
    BY <2>3, <2>4
<1>5. CASE ListOCRText(t)
  <2>1. [seen[t] EXCEPT !.ocr = ocr[FrameOfTask(t)]] \in Copy
    BY <1>1 DEF Copy
  <2>2. pc'[t] = "existing" /\ seen'[t] = [seen[t] EXCEPT !.ocr = ocr[FrameOfTask(t)]]
    BY <1>1, <1>5, <2>1, ProceedFacts DEF ListOCRText, Place
  <2>3. QED
    BY <1>1, <1>5, <2>2 DEF Copy
<1>6. CASE ListClassification(t)
  <2>1. /\ pc[t] = "existing"
        /\ Proceed(t, "check", seen[t]) \/ Proceed(t, "work", seen[t]) \/ Proceed(t, "mark", seen[t])
    BY <1>6 DEF ListClassification, Goto
  <2>2. pc'[t] \in {"check", "work", "mark"} /\ seen'[t] = seen[t]
    BY <1>1, <2>1, ProceedFacts DEF Place
  <2>3. QED
    BY <2>1, <2>2
<1>7. CASE MarkProcessing(t)
  <2> DEFINE copy == [seen[t] EXCEPT !.video = MarkClassifying(seen[t].video).status,
                                     !.job = "processing"]
  <2>1. pc[t] = "mark" /\ CommittedOrRetry(t, "work", copy)
    BY <1>1, <1>7 DEF MarkProcessing
  <2>2. MarkClassifying(seen[t].video).status = "processing"
    BY <1>1, <2>1, VideoOutcomes DEF TaskInv, Copy
  <2>3. copy \in Copy /\ copy.ocr = seen[t].ocr
    BY <1>1, <2>2 DEF Copy, JobStatus, Status
  <2>4. (pc'[t] = "work" /\ seen'[t] = copy) \/ pc'[t] \in {"queued", "dead", "fail"}
    <3> HIDE DEF copy
    <3>1. QED
      BY <1>1, <2>1, <2>3, CommittedFacts DEF Place
  <2>5. QED
    <3> HIDE DEF copy
    <3>1. QED
      BY <2>1, <2>3, <2>4
<1>8. CASE MarkReady(t) \/ ClassifyFrame(t)
  <2>1. \/ CommittedOrRetry(t, "done", Unread)
        \/ CommittedOrFailOrRetry(t, "check", seen[t])
    BY <1>8 DEF MarkReady, ClassifyFrame
  <2>2. pc'[t] \in {"done", "check", "queued", "dead", "fail"}
    BY <1>1, <1>2, <2>1, CommittedFacts DEF Place
  <2>3. QED
    BY <2>2
<1>9. CASE ReadyFails(t) \/ ClassifierUnavailable(t) \/ LoadFails(t) \/ WorkFails(t)
  <2>1. Retry(t) \/ FailOrRetry(t)
    BY <1>9 DEF ReadyFails, ClassifierUnavailable, LoadFails, WorkFails
  <2>2. pc'[t] \in {"queued", "dead", "fail"}
    BY <1>1, <2>1, RetryFacts
  <2>3. QED
    BY <2>2
<1>10. CASE CheckFinalize(t)
  <2>1. [seen[t] EXCEPT !.frames = stored] \in Copy
    BY <1>1 DEF Copy
  <2>2. \/ Proceed(t, "count", [seen[t] EXCEPT !.frames = stored])
        \/ Proceed(t, "done", [seen[t] EXCEPT !.frames = stored])
    BY <1>10 DEF CheckFinalize
  <2>3. pc'[t] \in {"count", "done"}
    BY <1>1, <2>1, <2>2, ProceedFacts DEF Place
  <2>4. QED
    BY <2>3
<1>11. CASE CountClassifications(t) \/ MarkFailed(t) \/ Crash(t)
  <2>1. Proceed(t, "ready", seen[t]) \/ Proceed(t, "done", seen[t]) \/ Proceed(t, "dead", seen[t])
    BY <1>11 DEF CountClassifications, MarkFailed, Crash, Goto
  <2>2. pc'[t] \in {"ready", "done", "dead"}
    BY <1>1, <2>1, ProceedFacts DEF Place
  <2>3. QED
    BY <2>2
<1>12. ~(ListOCR(t) \/ LookUpClassifyJob(t) \/ InsertClassifyJob(t) \/ PersistResult(t) \/ CheckOCR(t))
  BY DEF ListOCR, LookUpClassifyJob, InsertClassifyJob, PersistResult, CheckOCR
<1>13. QED
  BY <1>3, <1>4, <1>5, <1>6, <1>7, <1>8, <1>9, <1>10, <1>11, <1>12 DEF Handle

\* Who writes an ocr row, and who writes a classification.
LEMMA WhoWrites ==
  ASSUME NEW t \in Task, Handle(t) \/ Crash(t)
  PROVE  /\ answer' = answer
         /\ ocr' = ocr \/ PersistResult(t)
         /\ cls' = cls \/ ClassifyFrame(t)
BY DEF Handle, Crash, LoadVideo, LoadFrameJob, LoadJob, MarkProcessing, MarkReady, ReadyFails,
       MarkFailed, ListOCR, LookUpClassifyJob, InsertClassifyJob, PersistResult, CheckOCR,
       ListOCRText, ListClassification, ClassifyFrame, ClassifierUnavailable, CheckFinalize,
       CountClassifications, LoadFails, WorkFails, rows

LEMMA HandlerKeepsLeakInv ==
  ASSUME EffectiveThreshold <= 93, RecognitionInv, LeakInv,
         NEW t \in Task, Handle(t) \/ Crash(t), OnlyMoves(t)
  PROVE  LeakInv'
<1>1. /\ TypeOK /\ RowInv /\ TaskInv(t) /\ LeakTask(t)
      /\ FrameOfTask(t) \in Frame /\ t[2] \in Message /\ FrameOfTask(t) = FrameOf[t[2]]
      /\ t = <<KindOf(t), t[2]>>
  BY TaskFacts DEF RecognitionInv, LeakInv, FrameOfTask
<1>2. \A f \in Frame : AllSecret(f)' <=> AllSecret(f)
  BY WhoWrites DEF AllSecret
<1>3. ASSUME NEW f \in Frame, AllSecret(f)
      PROVE  ocr'[f] \in {"none", "secret"} /\ cls'[f] \notin {"skipped", "clear"}
  <2>1. ocr[f] \in {"none", "secret"} /\ cls[f] \notin {"skipped", "clear"}
    BY <1>3 DEF LeakInv, LeakRow
  <2>2. ocr'[f] \in {"none", "secret"}
    <3>1. CASE PersistResult(t)
      <4>1. ocr' = [ocr EXCEPT ![FrameOfTask(t)] = NormalizeResult(answer[t[2]])]
        BY <3>1 DEF PersistResult
      <4>2. f = FrameOfTask(t) => NormalizeResult(answer[t[2]]) = "secret"
        BY <1>1, <1>3 DEF AllSecret, NormalizeResult
      <4>3. QED
        BY <4>1, <4>2, <2>1, <1>1 DEF TypeOK
    <3>2. CASE ocr' = ocr
      BY <3>2, <2>1
    <3>3. QED
      BY <3>1, <3>2, WhoWrites
  <2>3. cls'[f] \notin {"skipped", "clear"}
    <3>1. CASE ClassifyFrame(t)
      <4>1. PICK item \in Classification :
              /\ <<seen[t].ocr, item>> \in Outcomes
              /\ cls' = [cls EXCEPT ![FrameOfTask(t)] = item]
        BY <3>1 DEF ClassifyFrame
      <4>2. CASE f = FrameOfTask(t)
        <5>1. seen[t].ocr = "secret"
          BY <3>1, <4>2, <1>1, <1>3 DEF ClassifyFrame, LeakTask
        <5>2. item \in Classify(Engine, "secret")
          BY <4>1, <5>1, OutcomesOfRows
        <5>3. item \notin {"skipped", "clear"}
          BY <5>2, SecretIsFlagged
        <5>4. QED
          BY <4>1, <4>2, <5>3, <1>1 DEF TypeOK
      <4>3. CASE f # FrameOfTask(t)
        BY <4>1, <4>3, <2>1, <1>1 DEF TypeOK
      <4>4. QED
        BY <4>2, <4>3
    <3>2. CASE cls' = cls
      BY <3>2, <2>1
    <3>3. QED
      BY <3>1, <3>2, WhoWrites
  <2>4. QED
    BY <2>2, <2>3
<1>4. ASSUME NEW u \in Task
      PROVE  LeakTask(u)'
  <2>1. FrameOfTask(u) \in Frame /\ LeakTask(u)
    BY TaskFacts DEF LeakInv
  <2>2. CASE u # t
    BY <2>1, <2>2, <1>2 DEF LeakTask, OnlyMoves
  <2>3. CASE u = t /\ KindOf(t) = "classify"
    <3>1. pc[t] \notin {"lookup", "insert"}
      BY <2>3, <1>1 DEF LeakTask
    <3>2. CASE pc'[t] \notin {"lookup", "insert", "existing", "mark", "work"}
      BY <3>2, <2>3 DEF LeakTask
    <3>3. CASE ListOCRText(t) /\ pc'[t] = "existing" /\ seen'[t].ocr = ocr[FrameOfTask(t)]
      <4>1. <<"classify", t[2]>> \in events
        BY <3>3, <2>3, <1>1 DEF ListOCRText, TaskInv
      <4>2. ocr[FrameOfTask(t)] # "none"
        BY <4>1, <1>1 DEF RowInv, RequestInv
      <4>3. AllSecret(FrameOfTask(t)) => ocr[FrameOfTask(t)] = "secret"
        BY <4>2, <1>1 DEF LeakInv, LeakRow
      <4>4. QED
        BY <4>3, <3>3, <2>3, <1>1, <1>2 DEF LeakTask
    <3>4. CASE /\ pc[t] \in {"existing", "mark"} /\ pc'[t] \in {"mark", "work"}
               /\ seen'[t].ocr = seen[t].ocr
      BY <3>4, <2>3, <1>1, <1>2 DEF LeakTask
    <3>5. QED
      BY <3>1, <3>2, <3>3, <3>4, <2>3, ClassifyMoves
  <2>4. CASE u = t /\ KindOf(t) # "classify"
    BY <2>4 DEF LeakTask
  <2>5. QED
    BY <2>2, <2>3, <2>4
<1>5. QED
  BY <1>2, <1>3, <1>4 DEF LeakInv, LeakRow

\* A frame that shows a secret in every reading is neither skipped nor cleared while an
\* engine's certain answer reaches the threshold (ClassifyFrame, LocalEvaluate).
THEOREM NoLeakDismissedTheorem ==
  ASSUME EffectiveThreshold <= 93
  PROVE  Spec => []NoLeakDismissed
<1>1. Init => LeakInv
  BY DEF Init, LeakInv, LeakRow, LeakTask
<1>2. RecognitionInv /\ LeakInv /\ [Next]_vars => LeakInv'
  <2> SUFFICES ASSUME RecognitionInv, LeakInv, [Next]_vars PROVE LeakInv'
    OBVIOUS
  <2>1. CASE UNCHANGED <<answer, ocr, cls, pc, seen>>
    BY <2>1 DEF LeakInv, LeakRow, LeakTask, AllSecret
  <2>2. CASE Extract \/ UNCHANGED vars
    BY <2>1, <2>2 DEF Extract, SegmentEnds, ExtractionFails, StoreFrame, rows, vars
  <2>3. ASSUME NEW t \in Task, Handle(t) \/ Crash(t)
        PROVE  LeakInv'
    <3>1. OnlyMoves(t)
      BY <2>3, HandlerStep DEF StepOf
    <3>2. QED
      BY <2>3, <3>1, HandlerKeepsLeakInv
  <2>4. QED
    BY <2>2, <2>3 DEF Next
<1>3. LeakInv => NoLeakDismissed
  BY DEF LeakInv, LeakRow, AllSecret, NoLeakDismissed
<1>4. QED
  BY <1>1, <1>2, <1>3, InvHolds, PTL DEF Spec

--------------------------------------------------------------------------------
(* The check digit of a card *)

\* Induction over the digits, by the least place a claim fails at.
LEMMA LeastNumber ==
  ASSUME NEW T \in SUBSET Nat, T # {}
  PROVE  \E m \in T : \A k \in T : m <= k
<1> DEFINE Below == {0 .. m : m \in T}
<1> DEFINE R == StrictSubsetOrdering(Nat)
<1>1. IsWellFoundedOn(R, FiniteSubsetsOf(Nat))
  BY FS_StrictSubsetOrderingWellFounded
<1>2. Below \subseteq FiniteSubsetsOf(Nat) /\ Below # {}
  <2>1. ASSUME NEW m \in T PROVE 0 .. m \in FiniteSubsetsOf(Nat)
    BY FS_Interval DEF FiniteSubsetsOf
  <2>2. QED
    BY <2>1
<1> HIDE DEF Below, R
<1>3. PICK x \in Below : \A y \in Below : <<y, x>> \notin R
  BY <1>1, <1>2, WFMin
<1> USE DEF Below
<1>4. PICK m \in T : x = 0 .. m
  BY <1>3
<1>5. ASSUME NEW k \in T, k < m PROVE FALSE
  <2>1. 0 .. k \subseteq 0 .. m /\ 0 .. k # 0 .. m /\ 0 .. k \in SUBSET Nat /\ 0 .. m \in SUBSET Nat
    BY <1>5
  <2>2. <<0 .. k, x>> \in R
    BY <1>4, <2>1 DEF StrictSubsetOrdering, R
  <2>3. QED
    BY <1>3, <2>2
<1>6. QED
  BY <1>5

\* The function that begins with base and goes on by step.
Recurses(g, n, S, base, step) ==
  g \in [0 .. n -> S] /\ g[0] = base /\ \A i \in 1 .. n : g[i] = step[i][g[i - 1]]

LEMMA RecursionExists ==
  ASSUME NEW S, NEW base \in S, NEW step \in [Nat -> [S -> S]], NEW n \in Nat
  PROVE  \E g : Recurses(g, n, S, base, step)
<1> USE DEF Recurses
<1> DEFINE Defined(m) == \E g : Recurses(g, m, S, base, step)
           T == {m \in Nat : ~Defined(m)}
<1> HIDE DEF Defined
<1>1. SUFFICES ASSUME T # {} PROVE FALSE
  BY DEF Defined
<1>2. PICK m \in T : \A k \in T : m <= k
  BY <1>1, LeastNumber
<1>3. Defined(0)
  <2> DEFINE g == [i \in 0 .. 0 |-> base]
  <2>1. g \in [0 .. 0 -> S] /\ g[0] = base /\ \A i \in 1 .. 0 : FALSE
    OBVIOUS
  <2> HIDE DEF g
  <2>2. QED
    BY <2>1 DEF Defined
<1>4. m \in Nat /\ m - 1 \in Nat /\ Defined(m - 1)
  <2>1. m # 0 /\ m \in Nat
    BY <1>3
  <2>2. m - 1 \in Nat /\ m - 1 \notin T
    BY <1>2, <2>1
  <2>3. QED
    BY <2>1, <2>2
<1>5. PICK h \in [0 .. m - 1 -> S] :
        h[0] = base /\ \A i \in 1 .. m - 1 : h[i] = step[i][h[i - 1]]
  BY <1>4 DEF Defined
<1> DEFINE g == [i \in 0 .. m |-> IF i = m THEN step[m][h[m - 1]] ELSE h[i]]
<1>6. step[m][h[m - 1]] \in S
  BY <1>4, <1>5
<1>7. g \in [0 .. m -> S]
  <2>1. ASSUME NEW i \in 0 .. m, i # m PROVE h[i] \in S
    BY <1>4, <1>5, <2>1
  <2>2. QED
    BY <1>6, <2>1
<1>8. g[m] = step[m][h[m - 1]] /\ \A i \in 0 .. m - 1 : g[i] = h[i]
  BY <1>4
<1> HIDE DEF g
<1>9. \A i \in 1 .. m : g[i] = step[i][g[i - 1]]
  <2>1. g[m] = step[m][g[m - 1]]
    BY <1>4, <1>8
  <2>2. ASSUME NEW i \in 1 .. m - 1 PROVE g[i] = step[i][g[i - 1]]
    BY <1>4, <1>5, <1>8
  <2>3. QED
    BY <1>4, <2>1, <2>2
<1>10. g[0] = base
  BY <1>4, <1>5, <1>8
<1>11. Defined(m)
  BY <1>7, <1>9, <1>10 DEF Defined
<1>12. QED
  BY <1>11

Digit == 0 .. 9

\* What a digit counts, and the sums that luhnValid adds up.
Weight(digits, i) == IF (Len(digits) - i) % 2 = 1 THEN Doubled(digits[i]) ELSE digits[i]

LuhnSum(digits) ==
  LET sum[i \in 0 .. Len(digits)] == IF i = 0 THEN 0 ELSE sum[i - 1] + Weight(digits, i)
  IN sum

LEMMA LuhnValidIs ==
  \A digits : LuhnValid(digits) <=>
    Len(digits) \in 13 .. 19 /\ LuhnSum(digits)[Len(digits)] % 10 = 0
BY DEF LuhnValid, LuhnSum, Weight

LEMMA WeightType ==
  ASSUME NEW digits \in Seq(Digit), NEW i \in 1 .. Len(digits)
  PROVE  Weight(digits, i) \in Digit
<1>1. digits[i] \in 0 .. 9
  BY DEF Digit
<1>2. QED
  BY <1>1 DEF Weight, Doubled, Digit

LEMMA LuhnSumDef ==
  ASSUME NEW digits \in Seq(Digit)
  PROVE  /\ LuhnSum(digits) \in [0 .. Len(digits) -> Nat]
         /\ LuhnSum(digits)[0] = 0
         /\ \A i \in 1 .. Len(digits) :
              LuhnSum(digits)[i] = LuhnSum(digits)[i - 1] + Weight(digits, i)
<1>1. PICK n \in Nat : n = Len(digits)
  OBVIOUS
<1> DEFINE weight == [i \in 1 .. n |-> Weight(digits, i)]
<1>2. \A i \in 1 .. n : weight[i] \in Nat /\ weight[i] = Weight(digits, i)
  <2>1. \A i \in 1 .. n : Weight(digits, i) \in Nat
    BY <1>1, WeightType DEF Digit
  <2>2. QED
    BY <2>1
<1> HIDE DEF weight
<1> DEFINE F(g) == [i \in 0 .. n |-> IF i = 0 THEN 0 ELSE g[i - 1] + Weight(digits, i)]
           step == [i \in Nat |-> [s \in Nat |-> IF i \in 1 .. n THEN s + weight[i] ELSE s]]
<1>3. step \in [Nat -> [Nat -> Nat]]
  BY <1>2
<1>4. \A i \in 1 .. n : \A s \in Nat : step[i][s] = s + weight[i]
  OBVIOUS
<1> HIDE DEF step
<1>5. PICK g : Recurses(g, n, Nat, 0, step)
  BY <1>3, RecursionExists
<1>6. ASSUME NEW i \in 1 .. n
      PROVE  g[i] = g[i - 1] + weight[i]
  <2>1. g[i - 1] \in Nat /\ g[i] = step[i][g[i - 1]]
    BY <1>5 DEF Recurses
  <2>2. QED
    BY <1>4, <2>1
<1>7. g = F(g)
  <2>1. g = [i \in 0 .. n |-> g[i]] /\ g[0] = 0
    BY <1>5 DEF Recurses
  <2>2. \A i \in 0 .. n : g[i] = IF i = 0 THEN 0 ELSE g[i - 1] + Weight(digits, i)
    <3>1. ASSUME NEW i \in 1 .. n PROVE g[i] = g[i - 1] + Weight(digits, i)
      <4>1. weight[i] = Weight(digits, i)
        BY <1>2
      <4>2. QED
        BY <1>6, <4>1
    <3>2. QED
      BY <2>1, <3>1
  <2>3. QED
    BY <2>1, <2>2
<1>8. LuhnSum(digits) = CHOOSE h : h = F(h)
  BY <1>1 DEF LuhnSum
<1>9. LuhnSum(digits) = F(LuhnSum(digits))
  <2> HIDE DEF F
  <2>1. QED
    BY <1>7, <1>8
<1>10. PICK h : h = LuhnSum(digits)
  OBVIOUS
<1>11. h = [i \in 0 .. n |-> IF i = 0 THEN 0 ELSE h[i - 1] + Weight(digits, i)]
  BY <1>9, <1>10
<1>12. h[0] = 0 /\ \A i \in 1 .. n : h[i] = h[i - 1] + weight[i]
  BY <1>2, <1>11
<1> DEFINE T == {i \in 0 .. n : h[i] \notin Nat}
<1>13. T = {}
  <2>1. SUFFICES ASSUME T # {} PROVE FALSE
    OBVIOUS
  <2>2. T \in SUBSET Nat
    OBVIOUS
  <2>3. PICK m \in T : \A k \in T : m <= k
    <3> HIDE DEF T
    <3>1. QED
      BY <2>1, <2>2, LeastNumber
  <2>4. m \in 1 .. n /\ h[m - 1] \in Nat
    BY <1>12, <2>3
  <2>5. QED
    <3>1. h[m] = h[m - 1] + weight[m] /\ weight[m] \in Nat /\ h[m] \notin Nat
      BY <1>2, <1>12, <2>3, <2>4
    <3>2. QED
      BY <2>4, <3>1
<1>14. h \in [0 .. n -> Nat]
  BY <1>11, <1>13
<1>15. QED
  BY <1>1, <1>2, <1>10, <1>12, <1>14

\* Where two numbers of one length agree, their sums grow alike.
LEMMA SumsGrowAlike ==
  ASSUME NEW c \in Seq(Digit), NEW d \in Seq(Digit), Len(c) = Len(d),
         NEW a \in 0 .. Len(c), NEW b \in a .. Len(c),
         \A k \in a + 1 .. b : c[k] = d[k]
  PROVE  LuhnSum(d)[b] - LuhnSum(c)[b] = LuhnSum(d)[a] - LuhnSum(c)[a]
<1> DEFINE C == LuhnSum(c)
           D == LuhnSum(d)
           T == {k \in a .. b : D[k] - C[k] # D[a] - C[a]}
<1>1. /\ \A k \in 0 .. Len(c) : C[k] \in Nat /\ D[k] \in Nat
      /\ \A k \in 1 .. Len(c) : /\ C[k] = C[k - 1] + Weight(c, k)
                                /\ D[k] = D[k - 1] + Weight(d, k)
  BY LuhnSumDef
<1>2. \A k \in a + 1 .. b : Weight(c, k) \in Nat /\ Weight(d, k) = Weight(c, k)
  <2>1. ASSUME NEW k \in a + 1 .. b PROVE Weight(c, k) \in Digit /\ Weight(d, k) = Weight(c, k)
    BY WeightType DEF Weight
  <2>2. QED
    BY <2>1 DEF Digit
<1> HIDE DEF C, D
<1>3. SUFFICES ASSUME T # {} PROVE FALSE
  BY DEF C, D
<1>4. T \in SUBSET Nat
  OBVIOUS
<1>5. PICK m \in T : \A k \in T : m <= k
  <2> HIDE DEF T
  <2>1. QED
    BY <1>3, <1>4, LeastNumber
<1>6. m \in a + 1 .. b /\ m - 1 \in a .. b /\ m - 1 \notin T
  BY <1>5
<1>7. D[m - 1] - C[m - 1] = D[a] - C[a]
  BY <1>6
<1>8. C[m] = C[m - 1] + Weight(c, m) /\ D[m] = D[m - 1] + Weight(c, m) /\ Weight(c, m) \in Nat
  BY <1>1, <1>2, <1>6
<1>9. /\ C[m - 1] \in Nat /\ D[m - 1] \in Nat /\ C[a] \in Nat /\ D[a] \in Nat
  BY <1>1, <1>6
<1>10. D[m] - C[m] = D[a] - C[a]
  BY <1>7, <1>8, <1>9
<1>11. QED
  BY <1>5, <1>10

\* A digit counts another amount when it is another one, doubled or not; and no exchange
\* of two digits, but for 09, keeps the sum.
LEMMA SumTells ==
  ASSUME NEW sum \in Nat, NEW other \in Nat, sum % 10 = 0,
         \/ \E x, y \in Digit : x # y /\ other = sum + y - x
         \/ \E x, y \in Digit : x # y /\ other = sum + Doubled(y) - Doubled(x)
         \/ \E x, y \in Digit : /\ x # y /\ {x, y} # {0, 9}
                                /\ other = sum + (Doubled(y) + x) - (Doubled(x) + y)
  PROVE  other % 10 # 0
<1>1. ASSUME NEW delta \in -9 .. 9, delta # 0, other = sum + delta
      PROVE  other % 10 # 0
  BY <1>1
<1>2. ASSUME NEW x \in Digit, NEW y \in Digit, x # y
      PROVE  /\ y - x \in -9 .. 9 /\ y - x # 0
             /\ Doubled(y) - Doubled(x) \in -9 .. 9 /\ Doubled(y) - Doubled(x) # 0
             /\ Doubled(x) \in Int /\ Doubled(y) \in Int
             /\ {x, y} # {0, 9} => /\ (Doubled(y) + x) - (Doubled(x) + y) \in -9 .. 9
                                   /\ (Doubled(y) + x) - (Doubled(x) + y) # 0
  <2>1. x \in 0 .. 9 /\ y \in 0 .. 9
    BY DEF Digit
  <2>2. {x, y} # {0, 9} => ~(x = 0 /\ y = 9) /\ ~(x = 9 /\ y = 0)
    OBVIOUS
  <2>3. QED
    BY <1>2, <2>1, <2>2 DEF Doubled
<1>3. CASE \E x, y \in Digit : x # y /\ other = sum + y - x
  <2>1. PICK x \in Digit, y \in Digit : x # y /\ other = sum + y - x
    BY <1>3
  <2>2. other = sum + (y - x)
    BY <2>1 DEF Digit
  <2>3. QED
    BY <1>1, <1>2, <2>1, <2>2
<1>4. CASE \E x, y \in Digit : x # y /\ other = sum + Doubled(y) - Doubled(x)
  <2>1. PICK x \in Digit, y \in Digit : x # y /\ other = sum + Doubled(y) - Doubled(x)
    BY <1>4
  <2>2. other = sum + (Doubled(y) - Doubled(x))
    BY <1>2, <2>1
  <2>3. QED
    BY <1>1, <1>2, <2>1, <2>2
<1>5. CASE \E x, y \in Digit : /\ x # y /\ {x, y} # {0, 9}
                              /\ other = sum + (Doubled(y) + x) - (Doubled(x) + y)
  <2>1. PICK x \in Digit, y \in Digit : /\ x # y /\ {x, y} # {0, 9}
                                        /\ other = sum + (Doubled(y) + x) - (Doubled(x) + y)
    BY <1>5
  <2>2. x \in Int /\ y \in Int
    BY DEF Digit
  <2>3. other = sum + ((Doubled(y) + x) - (Doubled(x) + y))
    BY <1>2, <2>1, <2>2
  <2>4. QED
    BY <1>1, <1>2, <2>1, <2>3
<1>6. QED
  BY <1>3, <1>4, <1>5

\* What a slip does to a number of n digits.
Misread(card, slip, n) ==
  \E i \in 1 .. n : /\ slip[i] # card[i]
                    /\ \A k \in 1 .. n : k # i => slip[k] = card[k]

Exchanged(card, slip, n) ==
  \E i \in 1 .. n - 1 : /\ slip[i] = card[i + 1] /\ slip[i + 1] = card[i]
                        /\ card[i] # card[i + 1] /\ {card[i], card[i + 1]} # {0, 9}
                        /\ \A k \in 1 .. n : k \notin {i, i + 1} => slip[k] = card[k]

LEMMA SlipIs ==
  ASSUME NEW n \in Nat, NEW card \in [1 .. n -> Digit], NEW slip \in Slips(card)
  PROVE  slip \in [1 .. n -> Digit] /\ (Misread(card, slip, n) \/ Exchanged(card, slip, n))
<1>1. DOMAIN card = 1 .. n /\ Len(card) = n
  <2>1. card \in Seq(Digit)
    BY SeqDef
  <2>2. QED
    BY <2>1
<1>2. CASE \E i \in DOMAIN card, digit \in 0 .. 9 : slip = [card EXCEPT ![i] = digit]
  <2>1. PICK i \in 1 .. n, digit \in Digit : slip = [card EXCEPT ![i] = digit]
    BY <1>1, <1>2 DEF Digit
  <2>2. slip \in [1 .. n -> Digit] /\ slip[i] = digit /\ \A k \in 1 .. n : k # i => slip[k] = card[k]
    BY <2>1
  <2>3. slip # card
    BY DEF Slips
  <2>4. slip[i] # card[i]
    BY <2>1, <2>2, <2>3
  <2>5. QED
    BY <2>2, <2>4 DEF Misread
<1>3. CASE \E i \in {j \in 1 .. Len(card) - 1 : {card[j], card[j + 1]} # {0, 9}} :
             slip = [card EXCEPT ![i] = card[i + 1], ![i + 1] = card[i]]
  <2>1. PICK i \in 1 .. n - 1 : /\ {card[i], card[i + 1]} # {0, 9}
                                /\ slip = [card EXCEPT ![i] = card[i + 1], ![i + 1] = card[i]]
    BY <1>1, <1>3
  <2>2. i \in 1 .. n /\ i + 1 \in 1 .. n /\ i # i + 1
    BY <2>1
  <2>3. /\ slip \in [1 .. n -> Digit] /\ slip[i] = card[i + 1] /\ slip[i + 1] = card[i]
        /\ \A k \in 1 .. n : k \notin {i, i + 1} => slip[k] = card[k]
    BY <2>1, <2>2
  <2>4. slip # card
    BY DEF Slips
  <2>5. card[i] # card[i + 1]
    BY <2>2, <2>3, <2>4
  <2>6. QED
    BY <2>1, <2>3, <2>5 DEF Exchanged
<1>4. \/ \E i \in DOMAIN card, digit \in 0 .. 9 : slip = [card EXCEPT ![i] = digit]
      \/ \E i \in {j \in 1 .. Len(card) - 1 : {card[j], card[j + 1]} # {0, 9}} :
           slip = [card EXCEPT ![i] = card[i + 1], ![i + 1] = card[i]]
  <2> DEFINE One == {[card EXCEPT ![i] = digit] : i \in DOMAIN card, digit \in 0 .. 9}
             Two == {[card EXCEPT ![i] = card[i + 1], ![i + 1] = card[i]] :
                             i \in {j \in 1 .. Len(card) - 1 : {card[j], card[j + 1]} # {0, 9}}}
  <2>1. Slips(card) = (One \cup Two) \ {card}
    BY DEF Slips
  <2>2. CASE slip \in One
    BY <2>2
  <2>3. CASE slip \in Two
    BY <2>3
  <2> HIDE DEF One, Two
  <2>4. slip \in One \/ slip \in Two
    BY <2>1
  <2>5. QED
    BY <2>2, <2>3, <2>4
<1>5. QED
  BY <1>2, <1>3, <1>4

\* The check digit does its work, for numbers of any length: no slip goes unnoticed.
THEOREM SlipIsNoticed ==
  ASSUME NEW n \in Nat, NEW card \in [1 .. n -> Digit], LuhnValid(card), NEW slip \in Slips(card)
  PROVE  ~LuhnValid(slip)
<1> DEFINE C == LuhnSum(card)
           S == LuhnSum(slip)
<1>1. /\ card \in Seq(Digit) /\ Len(card) = n /\ slip \in Seq(Digit) /\ Len(slip) = n
  <2>1. slip \in [1 .. n -> Digit]
    BY SlipIs
  <2>2. card \in Seq(Digit) /\ slip \in Seq(Digit)
    BY <2>1, SeqDef
  <2>3. QED
    BY <2>1, <2>2
<1>2. /\ \A k \in 0 .. n : C[k] \in Nat /\ S[k] \in Nat
      /\ C[0] = 0 /\ S[0] = 0
      /\ \A k \in 1 .. n : C[k] = C[k - 1] + Weight(card, k) /\ S[k] = S[k - 1] + Weight(slip, k)
  BY <1>1, LuhnSumDef
<1>3. ASSUME NEW a \in 0 .. n, NEW b \in a .. n, \A k \in a + 1 .. b : card[k] = slip[k]
      PROVE  S[b] - C[b] = S[a] - C[a]
  BY <1>1, <1>3, SumsGrowAlike
<1>4. C[n] % 10 = 0 /\ (LuhnValid(slip) => S[n] % 10 = 0)
  BY <1>1, LuhnValidIs
<1>5. \A k \in 1 .. n : /\ card[k] \in Digit /\ slip[k] \in Digit
                        /\ Weight(card, k) = (IF (n - k) % 2 = 1 THEN Doubled(card[k]) ELSE card[k])
                        /\ Weight(slip, k) = (IF (n - k) % 2 = 1 THEN Doubled(slip[k]) ELSE slip[k])
  BY <1>1 DEF Weight
<1>6. \A k \in 1 .. n : Weight(card, k) \in Int /\ Weight(slip, k) \in Int
  BY <1>1, WeightType DEF Digit
<1> HIDE DEF C, S
<1>7. CASE Misread(card, slip, n)
  <2>1. PICK i \in 1 .. n : /\ slip[i] # card[i]
                            /\ \A k \in 1 .. n : k # i => slip[k] = card[k]
    BY <1>7 DEF Misread
  <2>2. S[i - 1] - C[i - 1] = S[0] - C[0]
    BY <1>3, <2>1
  <2>3. S[n] - C[n] = S[i] - C[i]
    BY <1>3, <2>1
  <2>4. S[n] = C[n] + Weight(slip, i) - Weight(card, i)
    <3>1. Weight(slip, i) \in Int /\ Weight(card, i) \in Int
      BY <1>6
    <3>2. C[i] \in Nat /\ S[i] \in Nat /\ C[i - 1] \in Nat /\ S[i - 1] \in Nat /\ C[n] \in Nat /\ S[n] \in Nat
      BY <1>2
    <3>3. S[i] = S[i - 1] + Weight(slip, i) /\ C[i] = C[i - 1] + Weight(card, i) /\ S[0] = 0 /\ C[0] = 0
      BY <1>2
    <3>4. S[i - 1] = C[i - 1]
      BY <2>2, <3>2, <3>3
    <3>5. S[i] - C[i] = Weight(slip, i) - Weight(card, i)
      BY <3>1, <3>2, <3>3, <3>4
    <3>6. QED
      BY <2>3, <3>1, <3>2, <3>5
  <2>5. S[n] % 10 # 0
    <3>1. PICK x \in Digit, y \in Digit : x = card[i] /\ y = slip[i]
      BY <1>5
    <3>2. x # y /\ (\/ S[n] = C[n] + y - x
                   \/ S[n] = C[n] + Doubled(y) - Doubled(x))
      BY <1>5, <2>1, <2>4, <3>1
    <3>3. C[n] \in Nat /\ S[n] \in Nat
      BY <1>2
    <3>4. QED
      BY <1>4, <3>2, <3>3, SumTells
  <2>6. QED
    BY <1>4, <2>5
<1>8. CASE Exchanged(card, slip, n)
  <2>1. PICK i \in 1 .. n - 1 :
             /\ slip[i] = card[i + 1] /\ slip[i + 1] = card[i]
             /\ card[i] # card[i + 1] /\ {card[i], card[i + 1]} # {0, 9}
             /\ \A k \in 1 .. n : k \notin {i, i + 1} => slip[k] = card[k]
    BY <1>8 DEF Exchanged
  <2>2. PICK j \in 1 .. n : j = i + 1
    OBVIOUS
  <2>3. PICK x \in Digit, y \in Digit : x = card[i] /\ y = card[j]
    BY <1>5, <2>2
  <2>4. S[i - 1] - C[i - 1] = S[0] - C[0]
    <3>1. /\ i - 1 \in 0 .. n
          /\ \A k \in 0 + 1 .. i - 1 : k \in 1 .. n /\ k \notin {i, i + 1}
      OBVIOUS
    <3>2. \A k \in 0 + 1 .. i - 1 : card[k] = slip[k]
      BY <2>1, <3>1
    <3>3. QED
      BY <1>3, <3>1, <3>2
  <2>5. S[n] - C[n] = S[j] - C[j]
    <3>1. j \in 0 .. n /\ n \in j .. n /\ \A k \in j + 1 .. n : k \in 1 .. n /\ k \notin {i, i + 1}
      BY <2>2
    <3>2. \A k \in j + 1 .. n : card[k] = slip[k]
      BY <2>1, <3>1
    <3>3. QED
      BY <1>3, <3>1, <3>2
  <2>6. S[n] = C[n] + (Weight(slip, i) + Weight(slip, j)) - (Weight(card, i) + Weight(card, j))
    <3>1. /\ Weight(slip, i) \in Int /\ Weight(card, i) \in Int
          /\ Weight(slip, j) \in Int /\ Weight(card, j) \in Int
      BY <1>6, <2>2
    <3>2. /\ C[i] \in Nat /\ S[i] \in Nat /\ C[j] \in Nat /\ S[j] \in Nat
          /\ C[i - 1] \in Nat /\ S[i - 1] \in Nat /\ C[n] \in Nat /\ S[n] \in Nat
      BY <1>2
    <3>3. /\ S[i] = S[i - 1] + Weight(slip, i) /\ C[i] = C[i - 1] + Weight(card, i)
          /\ S[0] = 0 /\ C[0] = 0
      BY <1>2
    <3>4. S[j] = S[i] + Weight(slip, j) /\ C[j] = C[i] + Weight(card, j)
      BY <1>2, <2>2
    <3>5. S[i - 1] = C[i - 1]
      BY <2>4, <3>2, <3>3
    <3>6. S[j] - C[j] = (Weight(slip, i) + Weight(slip, j)) - (Weight(card, i) + Weight(card, j))
      <4>1. S[i] = C[i] + (Weight(slip, i) - Weight(card, i))
        BY <3>1, <3>2, <3>3, <3>5
      <4>2. QED
        <5>1. PICK p \in Int, q \in Int, u \in Int, v \in Int :
                p = Weight(slip, i) /\ q = Weight(card, i) /\ u = Weight(slip, j) /\ v = Weight(card, j)
          BY <3>1
        <5>2. PICK s \in Int, c \in Int : s = S[j] /\ c = C[i]
          BY <3>2
        <5>3. s = (c + (p - q)) + u /\ C[j] = c + v
          BY <3>4, <4>1, <5>1, <5>2
        <5>4. s - (c + v) = (p + u) - (q + v)
          BY <5>3
        <5>5. QED
          BY <5>1, <5>2, <5>3, <5>4
    <3>7. QED
      BY <2>5, <3>1, <3>2, <3>6
  <2>7. (n - i) % 2 = 1 <=> (n - j) % 2 # 1
    BY <2>2
  <2>8. \/ S[n] = C[n] + (Doubled(y) + x) - (Doubled(x) + y)
        \/ S[n] = C[n] + (y + Doubled(x)) - (x + Doubled(y))
    BY <1>5, <2>1, <2>2, <2>3, <2>6, <2>7
  <2>9. \/ S[n] = C[n] + (Doubled(y) + x) - (Doubled(x) + y)
        \/ S[n] = C[n] + (Doubled(x) + y) - (Doubled(y) + x)
    <3>1. x \in Int /\ y \in Int /\ Doubled(x) \in Int /\ Doubled(y) \in Int
      BY DEF Digit, Doubled
    <3>2. QED
      BY <2>8, <3>1
  <2>10. x # y /\ {x, y} # {0, 9} /\ {y, x} # {0, 9}
    BY <2>1, <2>2, <2>3
  <2>11. S[n] % 10 # 0
    <3>1. C[n] \in Nat /\ S[n] \in Nat
      BY <1>2
    <3>2. QED
      BY <1>4, <2>9, <2>10, <3>1, SumTells
  <2>12. QED
    BY <1>4, <2>11
<1>9. QED
  BY <1>7, <1>8, SlipIs

LEMMA SlipsAreNoCards ==
  ASSUME NEW n \in Nat, NEW card \in Cards(n), NEW slip \in Slips(card)
  PROVE  ~LuhnValid(slip)
<1>1. LuhnValid(card)
  BY DEF Cards
<1>2. card \in [1 .. n -> Digit]
  <2>1. PICK i \in 1 .. n - 1, digit \in 0 .. 9, last \in 0 .. 9 : card = AlikeBut(n, i, digit, last)
    BY DEF Cards
  <2>2. QED
    BY <2>1 DEF Digit, AlikeBut
<1>3. QED
  BY <1>1, <1>2, SlipIsNoticed

--------------------------------------------------------------------------------
(* A flag has a reason *)

\* What the patterns find in a text without a secret is no hit, and the gateway gives
\* it a score of two.
LEMMA PlainIsNotFlagged ==
  ASSUME Engine = "local" \/ EffectiveThreshold > 2, NEW item \in Classify(Engine, "plain")
  PROVE  item # "leak"
<1>1. EffectiveThreshold \in Int
  BY ClassifierAssumption DEF EffectiveThreshold
<1>2. ASSUME EffectiveThreshold > 2, NEW reply \in RepliesTo("plain")
      PROVE  EvaluateFrame(reply) # "leak"
  <2>1. CASE DOMAIN reply.answers = {}
    BY <2>1 DEF EvaluateFrame
  <2>2. CASE DOMAIN reply.answers # {}
    <3>1. /\ DOMAIN reply.answers = {"api_key"}
          /\ reply.answers["api_key"] \in {[probability |-> 2, noul |-> 0],
                                           [probability |-> 0, noul |-> 2]}
      BY <2>2 DEF RepliesTo
    <3>2. Score(reply.answers["api_key"]) = 2
      BY <3>1 DEF Score
    <3>3. Verdict([c \in DOMAIN reply.answers |-> Score(reply.answers[c])]) = "clear"
      BY <1>1, <1>2, <3>1, <3>2 DEF Verdict
    <3>4. QED
      BY <3>3 DEF EvaluateFrame
  <2>3. QED
    BY <2>1, <2>2
<1>3. ASSUME NEW found \in Findings("plain")
      PROVE  LocalEvaluate(found) # "leak"
  <2> DEFINE hits == found.categories
                       \cup (IF HasPhoneNumber(found) THEN {"phone"} ELSE {})
                       \cup (IF HasLuhnNumber(found) THEN {"credit_card"} ELSE {})
             slips == UNION {Slips(card) : card \in UNION {Cards(n) : n \in CardLengths}}
  <2>1. \A digits \in slips : ~LuhnValid(digits)
    <3>1. CardLengths \subseteq Nat
      BY DEF CardLengths
    <3>2. QED
      BY <3>1, SlipsAreNoCards
  <2>2. /\ found.categories = {}
        /\ found.phones = {} \/ found.geo \/ found.degrees \/ found.phones = {9}
        /\ found.cards = {} \/ found.cards = slips
    <3> DEFINE none == [categories |-> {}, phones |-> {}, cards |-> {}, geo |-> FALSE, degrees |-> FALSE]
    <3>1. \/ found = none
          \/ found = [none EXCEPT !.geo = TRUE, !.phones = {12}]
          \/ found = [none EXCEPT !.degrees = TRUE, !.phones = {10}]
          \/ found = [none EXCEPT !.phones = {9}]
          \/ found = [none EXCEPT !.cards = slips]
      <4> HIDE DEF none
      <4>1. QED
        BY DEF Findings, none
    <3> HIDE DEF slips
    <3>2. CASE found = none
      BY <3>2
    <3>3. CASE found = [none EXCEPT !.geo = TRUE, !.phones = {12}]
      BY <3>3
    <3>4. CASE found = [none EXCEPT !.degrees = TRUE, !.phones = {10}]
      BY <3>4
    <3>5. CASE found = [none EXCEPT !.phones = {9}]
      BY <3>5
    <3>6. CASE found = [none EXCEPT !.cards = slips]
      BY <3>6
    <3>7. QED
      BY <3>1, <3>2, <3>3, <3>4, <3>5, <3>6
  <2>3. ~HasPhoneNumber(found)
    BY <2>2 DEF HasPhoneNumber
  <2>4. ~HasLuhnNumber(found)
    <3> HIDE DEF slips
    <3>1. QED
      BY <2>1, <2>2 DEF HasLuhnNumber
  <2>5. hits = {}
    BY <2>2, <2>3, <2>4
  <2>6. Verdict([c \in hits |-> LocalHitScore]) = "clear"
    BY <2>5 DEF Verdict
  <2>7. QED
    BY <2>6 DEF LocalEvaluate
<1>4. QED
  BY <1>2, <1>3 DEF Classify

ShowsSecret(f) == \E m \in Message : FrameOf[m] = f /\ answer[m] = "secret"

\* A row with a secret, a copy of one that a classification decides on, and a leak are
\* all of a frame that shows one in some reading.
FlagRow(f) == ocr[f] = "secret" \/ cls[f] = "leak" => ShowsSecret(f)

FlagTask(t) ==
  KindOf(t) = "classify" =>
    /\ pc[t] \notin {"lookup", "insert"}
    /\ pc[t] \in {"existing", "mark", "work"} /\ seen[t].ocr = "secret" => ShowsSecret(FrameOfTask(t))

FlagInv == (\A f \in Frame : FlagRow(f)) /\ (\A t \in Task : FlagTask(t))

LEMMA HandlerKeepsFlagInv ==
  ASSUME Engine = "local" \/ EffectiveThreshold > 2, RecognitionInv, FlagInv,
         NEW t \in Task, Handle(t) \/ Crash(t), OnlyMoves(t)
  PROVE  FlagInv'
<1>1. /\ TypeOK /\ TaskInv(t) /\ FlagTask(t)
      /\ FrameOfTask(t) \in Frame /\ t[2] \in Message /\ FrameOfTask(t) = FrameOf[t[2]]
  BY TaskFacts DEF RecognitionInv, FlagInv, FrameOfTask
<1>2. \A f \in Frame : ShowsSecret(f)' <=> ShowsSecret(f)
  BY WhoWrites DEF ShowsSecret
<1>3. ASSUME NEW f \in Frame
      PROVE  /\ ocr'[f] = "secret" => ShowsSecret(f)
             /\ cls'[f] = "leak" => ShowsSecret(f)
  <2>1. /\ ocr[f] = "secret" => ShowsSecret(f)
        /\ cls[f] = "leak" => ShowsSecret(f)
    BY DEF FlagInv, FlagRow
  <2>2. ocr'[f] = "secret" => ShowsSecret(f)
    <3>1. CASE PersistResult(t)
      <4>1. ocr' = [ocr EXCEPT ![FrameOfTask(t)] = NormalizeResult(answer[t[2]])]
        BY <3>1 DEF PersistResult
      <4>2. NormalizeResult(answer[t[2]]) = "secret" => ShowsSecret(FrameOfTask(t))
        BY <1>1 DEF ShowsSecret, NormalizeResult
      <4>3. QED
        BY <4>1, <4>2, <2>1, <1>1 DEF TypeOK
    <3>2. CASE ocr' = ocr
      BY <3>2, <2>1
    <3>3. QED
      BY <3>1, <3>2, WhoWrites
  <2>3. cls'[f] = "leak" => ShowsSecret(f)
    <3>1. CASE ClassifyFrame(t)
      <4>1. PICK item \in Classification :
              /\ <<seen[t].ocr, item>> \in Outcomes
              /\ cls' = [cls EXCEPT ![FrameOfTask(t)] = item]
        BY <3>1 DEF ClassifyFrame
      <4>2. item = "leak" => ShowsSecret(FrameOfTask(t))
        <5>1. SUFFICES ASSUME item = "leak" PROVE ShowsSecret(FrameOfTask(t))
          OBVIOUS
        <5>2. item \in IF seen[t].ocr \in {"secret", "plain"}
                       THEN Classify(Engine, seen[t].ocr) ELSE {"skipped"}
          BY <4>1 DEF Outcomes
        <5>3. seen[t].ocr # "plain"
          BY <5>1, <5>2, PlainIsNotFlagged
        <5>4. seen[t].ocr = "secret"
          BY <5>1, <5>2, <5>3
        <5>5. QED
          BY <5>4, <3>1, <1>1 DEF ClassifyFrame, FlagTask
      <4>3. QED
        BY <4>1, <4>2, <2>1, <1>1 DEF TypeOK
    <3>2. CASE cls' = cls
      BY <3>2, <2>1
    <3>3. QED
      BY <3>1, <3>2, WhoWrites
  <2>4. QED
    BY <2>2, <2>3
<1>4. ASSUME NEW u \in Task
      PROVE  FlagTask(u)'
  <2>1. FrameOfTask(u) \in Frame /\ FlagTask(u)
    BY TaskFacts DEF FlagInv
  <2>2. CASE u # t
    BY <2>1, <2>2, <1>2 DEF FlagTask, OnlyMoves
  <2>3. CASE u = t /\ KindOf(t) = "classify"
    <3>1. pc[t] \notin {"lookup", "insert"}
      BY <2>3, <1>1 DEF FlagTask
    <3>2. CASE pc'[t] \notin {"lookup", "insert", "existing", "mark", "work"}
      BY <3>2, <2>3 DEF FlagTask
    <3>3. CASE ListOCRText(t) /\ pc'[t] = "existing" /\ seen'[t].ocr = ocr[FrameOfTask(t)]
      <4>1. ocr[FrameOfTask(t)] = "secret" => ShowsSecret(FrameOfTask(t))
        BY <1>1 DEF FlagInv, FlagRow
      <4>2. QED
        BY <4>1, <3>3, <2>3, <1>1, <1>2 DEF FlagTask
    <3>4. CASE /\ pc[t] \in {"existing", "mark"} /\ pc'[t] \in {"mark", "work"}
               /\ seen'[t].ocr = seen[t].ocr
      BY <3>4, <2>3, <1>1, <1>2 DEF FlagTask
    <3>5. QED
      BY <3>1, <3>2, <3>3, <3>4, <2>3, ClassifyMoves
  <2>4. CASE u = t /\ KindOf(t) # "classify"
    BY <2>4 DEF FlagTask
  <2>5. QED
    BY <2>2, <2>3, <2>4
<1>5. QED
  BY <1>2, <1>3, <1>4 DEF FlagInv, FlagRow

\* A frame is flagged only for a secret that some reading of it shows, by the local
\* detector whatever the threshold, and by the gateway when two per cent do not reach it
\* (LocalEvaluate, EvaluateFrame, ClassifyFrame).
THEOREM FlaggedShowsSecretTheorem ==
  ASSUME Engine = "local" \/ EffectiveThreshold > 2
  PROVE  Spec => []FlaggedShowsSecret
<1>1. Init => FlagInv
  BY DEF Init, FlagInv, FlagRow, FlagTask
<1>2. RecognitionInv /\ FlagInv /\ [Next]_vars => FlagInv'
  <2> SUFFICES ASSUME RecognitionInv, FlagInv, [Next]_vars PROVE FlagInv'
    OBVIOUS
  <2>1. CASE UNCHANGED <<answer, ocr, cls, pc, seen>>
    BY <2>1 DEF FlagInv, FlagRow, FlagTask, ShowsSecret
  <2>2. CASE Extract \/ UNCHANGED vars
    BY <2>1, <2>2 DEF Extract, SegmentEnds, ExtractionFails, StoreFrame, rows, vars
  <2>3. ASSUME NEW t \in Task, Handle(t) \/ Crash(t)
        PROVE  FlagInv'
    <3>1. OnlyMoves(t)
      BY <2>3, HandlerStep DEF StepOf
    <3>2. QED
      BY <2>3, <3>1, HandlerKeepsFlagInv
  <2>4. QED
    BY <2>2, <2>3 DEF Next
<1>3. FlagInv => FlaggedShowsSecret
  BY DEF FlagInv, FlagRow, ShowsSecret, FlaggedShowsSecret
<1>4. QED
  BY <1>1, <1>2, <1>3, InvHolds, PTL DEF Spec

--------------------------------------------------------------------------------
(* The calls keep to what is promised of their delivery *)

\* A result, or what followed from it, and the handler that is called with it.
Pair == Message \X Kind
PlaceOf(k) == pc[<<k[2], k[1]>>]
InCall == {k \in Pair : PlaceOf(k) \notin {"queued", "done", "dead"}}
Returned == {k \in Pair : PlaceOf(k) = "done"}
GivenUp == {k \in Pair : PlaceOf(k) = "dead"}

Once == INSTANCE HandlerOnce WITH Event <- Message, Handler <- Kind,
                                  running <- InCall, done <- Returned, dropped <- GivenUp

\* Nothing moves a call that returned or was given up, and a call begins with its load.
LEMMA CallMoves ==
  ASSUME TypeOK, NEW t \in Task, Handle(t) \/ Crash(t)
  PROVE  /\ pc[t] \notin {"done", "dead"}
         /\ pc[t] = "queued" => pc'[t] = "phase"
<1>1. CASE LoadVideo(t)
  BY <1>1 DEF LoadVideo, Proceed, TypeOK
<1>2. CASE Handle(t) /\ ~LoadVideo(t)
  BY <1>2 DEF Handle, LoadFrameJob, LoadJob, MarkProcessing, MarkReady, ReadyFails, MarkFailed,
     ListOCR, LookUpClassifyJob, InsertClassifyJob, PersistResult, CheckOCR, ListOCRText,
     ListClassification, ClassifyFrame, ClassifierUnavailable, CheckFinalize,
     CountClassifications, LoadFails, WorkFails
<1>3. CASE Crash(t)
  BY <1>3 DEF Crash
<1>4. QED
  BY <1>1, <1>2, <1>3

LEMMA CallKeepsPromise ==
  ASSUME RecognitionInv, NEW t \in Task, Handle(t) \/ Crash(t)
  PROVE  [Once!Next]_(Once!vars)
<1> DEFINE k == <<t[2], t[1]>>
<1>1. k \in Pair /\ PlaceOf(k) = pc[t] /\ PlaceOf(k)' = pc'[t]
  BY DEF Task, Pair, PlaceOf
<1>2. \A l \in Pair : l # k => PlaceOf(l)' = PlaceOf(l)
  <2>1. SUFFICES ASSUME NEW l \in Pair, l # k PROVE PlaceOf(l)' = PlaceOf(l)
    OBVIOUS
  <2>2. <<l[2], l[1]>> \in Task \ {t}
    BY <2>1 DEF Pair, Task
  <2>3. OnlyMoves(t)
    BY HandlerStep DEF StepOf
  <2>4. QED
    BY <2>2, <2>3 DEF OnlyMoves, PlaceOf
<1>3. /\ PlaceOf(k) \notin {"done", "dead"}
      /\ PlaceOf(k) = "queued" => PlaceOf(k)' = "phase"
  BY <1>1, CallMoves DEF RecognitionInv
<1> HIDE DEF k
<1>4. CASE PlaceOf(k) = "queued"
  <2>1. k \notin InCall \cup Returned \cup GivenUp
    BY <1>4 DEF InCall, Returned, GivenUp
  <2>2. InCall' = InCall \cup {k} /\ Returned' = Returned /\ GivenUp' = GivenUp
    BY <1>1, <1>2, <1>3, <1>4 DEF InCall, Returned, GivenUp
  <2>3. Once!Claim(k)
    BY <2>1, <2>2 DEF Once!Claim
  <2>4. QED
    BY <1>1, <2>3 DEF Once!Next, Once!Key, Pair
<1>5. CASE PlaceOf(k) # "queued"
  <2>1. k \in InCall /\ k \notin Returned \cup GivenUp
    BY <1>1, <1>3, <1>5 DEF InCall, Returned, GivenUp
  <2>2. CASE PlaceOf(k)' = "queued"
    <3>1. InCall' = InCall \ {k} /\ Returned' = Returned /\ GivenUp' = GivenUp
      BY <1>1, <1>2, <1>3, <1>5, <2>2 DEF InCall, Returned, GivenUp
    <3>2. QED
      BY <1>1, <2>1, <3>1 DEF Once!Release, Once!Next, Once!Key, Pair
  <2>3. CASE PlaceOf(k)' = "done"
    <3>1. InCall' = InCall \ {k} /\ Returned' = Returned \cup {k} /\ GivenUp' = GivenUp
      BY <1>1, <1>2, <1>3, <1>5, <2>3 DEF InCall, Returned, GivenUp
    <3>2. QED
      BY <1>1, <2>1, <3>1 DEF Once!Finish, Once!Next, Once!Key, Pair
  <2>4. CASE PlaceOf(k)' = "dead"
    <3>1. InCall' = InCall \ {k} /\ Returned' = Returned /\ GivenUp' = GivenUp \cup {k}
      BY <1>1, <1>2, <1>3, <1>5, <2>4 DEF InCall, Returned, GivenUp
    <3>2. QED
      BY <1>1, <2>1, <3>1 DEF Once!Drop, Once!Next, Once!Key, Pair
  <2>5. CASE PlaceOf(k)' \notin {"queued", "done", "dead"}
    <3>1. InCall' = InCall /\ Returned' = Returned /\ GivenUp' = GivenUp
      BY <1>1, <1>2, <1>3, <1>5, <2>5 DEF InCall, Returned, GivenUp
    <3>2. QED
      BY <3>1 DEF Once!vars
  <2>6. QED
    BY <2>2, <2>3, <2>4, <2>5
<1>6. QED
  BY <1>4, <1>5

\* The calls of PersistFrame, HandleFrame and Finalize are made as EventDelivery was shown
\* to make them: attempts of one call do not overlap, and none follows one that returned
\* nil or was given up, through retries, lost answers and crashes.
THEOREM RecognitionImplementsHandlerOnce == Spec => Once!Spec
<1>1. Init => Once!Init
  BY DEF Init, Once!Init, InCall, Returned, GivenUp, PlaceOf, Pair, Task
<1>2. RecognitionInv /\ [Next]_vars => [Once!Next]_(Once!vars)
  <2> SUFFICES ASSUME RecognitionInv, [Next]_vars PROVE [Once!Next]_(Once!vars)
    OBVIOUS
  <2>1. CASE UNCHANGED pc
    BY <2>1 DEF Once!vars, InCall, Returned, GivenUp, PlaceOf
  <2>2. CASE Extract \/ UNCHANGED vars
    BY <2>1, <2>2 DEF Extract, SegmentEnds, ExtractionFails, StoreFrame, vars
  <2>3. ASSUME NEW t \in Task, Handle(t) \/ Crash(t)
        PROVE  [Once!Next]_(Once!vars)
    BY <2>3, CallKeepsPromise
  <2>4. QED
    BY <2>2, <2>3 DEF Next
<1>3. QED
  BY InvHolds, <1>1, <1>2, PTL DEF Spec, Once!Spec
================================================================================
