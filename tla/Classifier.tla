------------------------------- MODULE Classifier -------------------------------
(***************************************************************************)
(* What the two engines make of the text of one frame: the client of the   *)
(* Jev gateway, from what its HTTP call returns, and the local detector,   *)
(* from what its patterns find in the text.  A handler never passes more   *)
(* than one text at a time.  Scores are percentages.                       *)
(***************************************************************************)
EXTENDS Integers, Sequences

CONSTANT Threshold   \* CLASSIFY_THRESHOLD, as a percentage

ASSUME ClassifierAssumption == Threshold \in Int

EffectiveThreshold == IF Threshold <= 0 THEN 70 ELSE Threshold

\* A text is confidential when its highest score reaches the threshold.
Verdict(scores) ==
  IF \E c \in DOMAIN scores : scores[c] >= EffectiveThreshold THEN "leak" ELSE "clear"

--------------------------------------------------------------------------------
(* Client.evaluateFrame *)

\* An answer carries a probability, or only a noul.
Score(given) ==
  IF given.probability = 0 /\ given.noul > 0 THEN given.noul ELSE given.probability

\* A reply has the class of its HTTP status, "none" for a call that failed, and the
\* answers when they can be decoded.  "unavailable" is an error, and makes no row; the
\* other outcomes are rows, the one without an answer a success that is not confidential.
EvaluateFrame(reply) ==
  IF reply.status \in {"none", "429", "5xx"} THEN "unavailable"
  ELSE IF reply.status = "other" \/ ~reply.decodes THEN "failed"
  ELSE IF DOMAIN reply.answers = {} THEN "unanswered"
  ELSE Verdict([c \in DOMAIN reply.answers |-> Score(reply.answers[c])])

\* What the gateway may reply: if it answers, it finds what the text holds.
RepliesTo(text) ==
  LET found == IF text = "secret" THEN 93 ELSE 2
      none == [c \in {} |-> [probability |-> 0, noul |-> 0]]
      answered == {[probability |-> found, noul |-> 0], [probability |-> 0, noul |-> found]}
  IN [status : {"none", "429", "5xx", "other", "2xx"}, decodes : BOOLEAN,
      answers : {none} \cup [{"api_key"} -> answered]]

--------------------------------------------------------------------------------
(* LocalDetector.evaluate *)

\* Mutant: the tens of a doubled digit are dropped.
DoubledModTen(digit) == (2 * digit) % 10

\* Twice a digit, as the sum of its own digits.
Doubled(digit) == IF 2 * digit > 9 THEN 2 * digit - 9 ELSE 2 * digit

\* luhnValid: every second digit counts double, beginning before the last one.
LuhnValid(digits) ==
  LET Weighted(i) == IF (Len(digits) - i) % 2 = 1 THEN Doubled(digits[i]) ELSE digits[i]
      sum[i \in 0 .. Len(digits)] == IF i = 0 THEN 0 ELSE sum[i - 1] + Weighted(i)
  IN Len(digits) \in 13 .. 19 /\ sum[Len(digits)] % 10 = 0

\* What the patterns find: the categories whose pattern decides, the numbers of digits
\* of what looks like a phone number and is no coordinate, the digits of what looks
\* like a card, and whether a word of geography, or degrees and minutes, are there.
HasPhoneNumber(found) == ~found.geo /\ ~found.degrees /\ \E n \in found.phones : n \in 10 .. 15
HasLuhnNumber(found) == ~found.geo /\ \E digits \in found.cards : LuhnValid(digits)

LocalHitScore == 95

LocalEvaluate(found) ==
  LET hits == found.categories
                \cup (IF HasPhoneNumber(found) THEN {"phone"} ELSE {})
                \cup (IF HasLuhnNumber(found) THEN {"credit_card"} ELSE {})
  IN Verdict([c \in hits |-> LocalHitScore])

\* Cards of n digits, all alike but for one of them and the last.
AlikeBut(n, i, digit, last) ==
  [j \in 1 .. n |-> IF j = n THEN last ELSE IF j = i THEN digit ELSE 4]

Cards(n) ==
  {card \in {AlikeBut(n, i, digit, last) : i \in 1 .. n - 1, digit \in 0 .. 9, last \in 0 .. 9} :
     LuhnValid(card)}

\* One digit misread, or two neighbours exchanged; the check cannot tell 09 from 90.
Slips(card) ==
  ({[card EXCEPT ![i] = digit] : i \in DOMAIN card, digit \in 0 .. 9}
   \cup {[card EXCEPT ![i] = card[i + 1], ![i + 1] = card[i]] :
           i \in {j \in 1 .. Len(card) - 1 : {card[j], card[j + 1]} # {0, 9}}}) \ {card}

CardLengths == {13, 16}

\* A secret is one the patterns can see: a key, a card or a phone number.  A text without
\* one may hold numbers all the same: coordinates, a number too short for a phone, and
\* what is no card for a slip.
Findings(text) ==
  LET none == [categories |-> {}, phones |-> {}, cards |-> {}, geo |-> FALSE, degrees |-> FALSE]
      cards == UNION {Cards(n) : n \in CardLengths}
  IN IF text = "secret"
     THEN {[none EXCEPT !.categories = {"api_key"}], [none EXCEPT !.phones = {10}]}
          \cup {[none EXCEPT !.cards = {card}] : card \in cards}
     ELSE {none, [none EXCEPT !.geo = TRUE, !.phones = {12}],
           [none EXCEPT !.degrees = TRUE, !.phones = {10}], [none EXCEPT !.phones = {9}],
           [none EXCEPT !.cards = UNION {Slips(card) : card \in cards}]}

--------------------------------------------------------------------------------
\* What may come of the classification of a text.
Classify(engine, text) ==
  IF engine = "jev" THEN {EvaluateFrame(reply) : reply \in RepliesTo(text)}
                    ELSE {LocalEvaluate(found) : found \in Findings(text)}
================================================================================
