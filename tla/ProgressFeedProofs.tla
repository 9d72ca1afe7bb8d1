--------------------------- MODULE ProgressFeedProofs ---------------------------
(***************************************************************************)
(* Theorems about ProgressFeed, for any frames, whichever of them may be   *)
(* blurred, and any number of lost answers, retries and outages: the count *)
(* a client sees is backed by rows (FeedInv), the success it sees is the   *)
(* last thing it sees unless a failed result may be repeated (OrderInv),   *)
(* and the numbers of the model never run out (BoundsInv).                 *)
(***************************************************************************)
EXTENDS ProgressFeed, FiniteSetTheorems, TLAPS

Place == {"load", "job", "list", "mark", "marking", "persist", "persisting",
          "check", "conclude", "concluding", "done"}
JobStatus == {"pending", "processing", "success"}
AnyJob == [status : JobStatus, completed : Nat]
Copy == [extracted : BOOLEAN, job : AnyJob, frames : SUBSET Frame, rows : SUBSET Frame, stamp : Nat]

\* TypeOK without the bounds on counters, which the theorem does not need.
FeedTypes ==
  /\ blurred \subseteq Frame /\ stored \subseteq Frame /\ rows \subseteq Frame
  /\ extracted \in BOOLEAN /\ job \in AnyJob /\ clock \in Nat /\ lost \in Nat
  /\ pc \in [Frame -> Place] /\ seen \in [Frame -> Copy]
  /\ \A e \in events \cup {shown} : JobOf(e).completed \in Nat

\* The failed rows that are there though their handler is yet to persist them: each of
\* them took a lost answer, and may be counted once more.
BeforeCommit == {"load", "job", "list", "mark", "marking", "persist", "persisting"}
Owed == {f \in rows \cap blurred : pc[f] \in BeforeCommit}
Extra == IF blurred = {} THEN 0 ELSE lost
Backing == Cardinality(rows) + Extra - Cardinality(Owed)

\* What a handler is about to add to the count it holds.
Adding(place, copy, f) ==
  IF place = "persisting" /\ f \notin copy.rows \ blurred THEN 1 ELSE 0

\* A copy never holds more than is backed, and knows whether the handler's own row exists.
CopyInv(f, place, copy) ==
  /\ copy.rows \subseteq rows
  /\ place \in {"mark", "marking", "persist", "persisting"} => (f \in rows <=> f \in copy.rows)
  /\ copy.job.completed <= Backing + Adding(place, copy, f)

FeedInv ==
  /\ FeedTypes
  /\ Cardinality(Owed) <= Extra
  /\ job.completed <= Backing
  /\ \A e \in events \cup {shown} : JobOf(e).completed <= Backing
  /\ \A f \in Frame : CopyInv(f, pc[f], seen[f])

LEMMA Sizes ==
  ASSUME FeedTypes
  PROVE  /\ IsFiniteSet(rows) /\ IsFiniteSet(Owed)
         /\ Cardinality(rows) \in Nat /\ Cardinality(Owed) \in Nat /\ Extra \in Nat
         /\ blurred = {} => Cardinality(Owed) = 0
<1>1. IsFiniteSet(rows) /\ IsFiniteSet(Owed)
  BY ProgressFeedAssumption, FS_Subset DEF FeedTypes, Owed
<1>2. blurred = {} => Owed = {}
  BY DEF Owed
<1>3. QED
  BY <1>1, <1>2, FS_CardinalityType, FS_EmptySet DEF FeedTypes, Extra

LEMMA OneMore ==
  ASSUME FeedTypes, NEW f
  PROVE  /\ Cardinality(rows \cup {f}) = Cardinality(rows) + (IF f \in rows THEN 0 ELSE 1)
         /\ Cardinality(Owed \cup {f}) = Cardinality(Owed) + (IF f \in Owed THEN 0 ELSE 1)
         /\ IsFiniteSet(Owed \cup {f})
<1>1. IsFiniteSet(rows) /\ IsFiniteSet(Owed) /\ Cardinality(rows) \in Nat /\ Cardinality(Owed) \in Nat
  BY Sizes
<1>2. Cardinality(rows \cup {f}) = IF f \in rows THEN Cardinality(rows) ELSE Cardinality(rows) + 1
  BY <1>1, FS_AddElement
<1>3. /\ IsFiniteSet(Owed \cup {f})
      /\ Cardinality(Owed \cup {f}) = IF f \in Owed THEN Cardinality(Owed) ELSE Cardinality(Owed) + 1
  BY <1>1, FS_AddElement
<1>4. QED
  BY <1>1, <1>2, <1>3

LEMMA ProceedTypes ==
  ASSUME FeedTypes, NEW f \in Frame, NEW place \in Place, NEW copy \in Copy, Proceed(f, place, copy)
  PROVE  /\ pc' \in [Frame -> Place] /\ seen' \in [Frame -> Copy]
         /\ pc' = [pc EXCEPT ![f] = place]
         /\ seen'[f] = IF place \in {"load", "done"} THEN Unread ELSE copy
         /\ \A g \in Frame \ {f} : pc'[g] = pc[g] /\ seen'[g] = seen[g]
<1>1. Unread \in Copy
  BY DEF Unread, NoEvent, Copy, AnyJob, JobStatus
<1>2. QED
  BY <1>1 DEF Proceed, FeedTypes

LEMMA UnreadFits ==
  ASSUME FeedInv, NEW f \in Frame, NEW place \in {"load", "done"}
  PROVE  CopyInv(f, place, Unread)
<1>1. Backing >= 0
  BY Sizes DEF FeedInv, Backing
<1>2. Backing \in Int
  BY Sizes DEF FeedInv, Backing
<1>3. QED
  BY <1>1, <1>2 DEF CopyInv, Unread, NoEvent, Adding

\* The handler goes on and nothing is committed.
LEMMA MoveKeepsInv ==
  ASSUME FeedInv, NEW f \in Frame, NEW place \in Place, NEW copy \in Copy,
         Proceed(f, place, copy), UNCHANGED <<blurred, stored, extracted, rows, job, events, lost, shown>>,
         clock' \in Nat,
         place \in BeforeCommit => pc[f] \in BeforeCommit,
         CopyInv(f, place, copy)
  PROVE  FeedInv'
<1>1. FeedTypes
  BY DEF FeedInv
<1>2. /\ pc' \in [Frame -> Place] /\ seen' \in [Frame -> Copy]
      /\ pc' = [pc EXCEPT ![f] = place]
      /\ seen'[f] = IF place \in {"load", "done"} THEN Unread ELSE copy
      /\ \A g \in Frame \ {f} : pc'[g] = pc[g] /\ seen'[g] = seen[g]
  BY <1>1, ProceedTypes
<1>3. FeedTypes'
  BY <1>1, <1>2 DEF FeedTypes
<1>4. Owed' \subseteq Owed
  BY <1>1, <1>2 DEF Owed, FeedTypes
<1>5. /\ Cardinality(Owed') <= Cardinality(Owed) /\ Cardinality(Owed') \in Nat
      /\ Extra' = Extra
  BY <1>1, <1>4, Sizes, FS_Subset, FS_CardinalityType DEF Extra
<1>6. Backing' \in Int /\ Backing \in Int /\ Backing' >= Backing
  BY <1>1, <1>5, Sizes DEF Backing
<1>7. ASSUME NEW g \in Frame
      PROVE  CopyInv(g, pc[g], seen[g])'
  <2>1. CopyInv(g, pc'[g], seen'[g])
    <3>1. CASE g # f
      BY <3>1, <1>2 DEF FeedInv
    <3>2. CASE g = f /\ place \in {"load", "done"}
      BY <3>2, <1>1, <1>2, UnreadFits DEF FeedTypes
    <3>3. CASE g = f /\ place \notin {"load", "done"}
      BY <3>3, <1>1, <1>2 DEF FeedTypes
    <3>4. QED
      BY <3>1, <3>2, <3>3
  <2>2. Adding(pc'[g], seen'[g], g) \in Nat /\ seen'[g].job.completed \in Nat
    BY <1>2 DEF Adding, Copy, AnyJob
  <2>3. Adding(pc[g], seen[g], g)' = Adding(pc'[g], seen'[g], g)
    BY DEF Adding
  <2>4. QED
    BY <2>1, <2>2, <2>3, <1>6 DEF CopyInv
<1>8. /\ job'.completed <= Backing'
      /\ \A e \in events' \cup {shown'} : JobOf(e).completed <= Backing'
  BY <1>1, <1>6 DEF FeedInv, FeedTypes, AnyJob
<1>9. QED
  BY <1>1, <1>3, <1>5, <1>7, <1>8, Sizes DEF FeedInv

--------------------------------------------------------------------------------
(* Steps that commit *)

LEMMA CommitKeepsInv ==
  ASSUME FeedInv, NEW f \in Frame, NEW place \in {"persist", "check", "done"}, Commit(f, place),
         UNCHANGED <<blurred, stored, extracted, clock, shown>>,
         rows' = rows \/ rows' = rows \cup {f},
         place = "persist" => rows' = rows /\ pc[f] = "marking",
         Backing' >= Backing, seen[f].job.completed <= Backing', Cardinality(Owed') <= Extra'
  PROVE  FeedInv'
<1>1. FeedTypes /\ seen[f] \in Copy
  BY DEF FeedInv, FeedTypes
<1>2. /\ job' = seen[f].job
      /\ events' = events \cup (IF seen[f].stamp = 0 THEN {} ELSE {<<seen[f].job, seen[f].stamp>>})
      /\ \/ Proceed(f, place, [seen[f] EXCEPT !.stamp = 0]) /\ lost' = lost
         \/ lost' = lost + 1 /\ Proceed(f, "load", Unread)
  BY DEF Commit
<1>3. [seen[f] EXCEPT !.stamp = 0] \in Copy /\ Unread \in Copy
  BY <1>1 DEF Unread, NoEvent, Copy, AnyJob, JobStatus
<1>4. /\ pc' \in [Frame -> Place] /\ seen' \in [Frame -> Copy]
      /\ \/ pc'[f] = place /\ place # "done" /\ seen'[f] = [seen[f] EXCEPT !.stamp = 0]
         \/ pc'[f] \in {"load", "done"} /\ seen'[f] = Unread
      /\ \A g \in Frame \ {f} : pc'[g] = pc[g] /\ seen'[g] = seen[g]
  <2>1. place \in Place /\ "load" \in Place
    BY DEF Place
  <2>2. CASE Proceed(f, place, [seen[f] EXCEPT !.stamp = 0])
    BY <2>1, <2>2, <1>1, <1>3, ProceedTypes DEF FeedTypes
  <2>3. CASE Proceed(f, "load", Unread)
    BY <2>1, <2>3, <1>1, <1>3, ProceedTypes DEF FeedTypes
  <2>4. QED
    BY <2>2, <2>3, <1>2
<1>5. seen[f].job \in AnyJob
  BY <1>1 DEF Copy
<1>6. FeedTypes'
  <2>1. \A e \in events' \cup {shown'} : JobOf(e).completed \in Nat
    BY <1>1, <1>2, <1>5 DEF FeedTypes, JobOf, AnyJob
  <2>2. QED
    BY <2>1, <1>1, <1>2, <1>4, <1>5 DEF FeedTypes
<1>7. Backing \in Int /\ Backing' \in Int /\ Backing >= 0
  <2>1. /\ Cardinality(rows') \in Nat /\ Cardinality(Owed') \in Nat /\ Extra' \in Nat
    <3>1. IsFiniteSet(rows') /\ IsFiniteSet(Owed')
      BY <1>6, ProgressFeedAssumption, FS_Subset DEF FeedTypes, Owed
    <3>2. QED
      BY <1>6, <3>1, FS_CardinalityType DEF FeedTypes, Extra
  <2>2. QED
    BY <2>1, <1>1, Sizes DEF Backing, FeedInv
<1>8. \A e \in events' \cup {shown'} : JobOf(e).completed <= Backing'
  BY <1>1, <1>2, <1>7 DEF FeedInv, FeedTypes, JobOf
<1>9. ASSUME NEW g \in Frame
      PROVE  CopyInv(g, pc[g], seen[g])'
  <2>1. CASE g # f
    <3>1. pc'[g] = pc[g] /\ seen'[g] = seen[g] /\ seen[g] \in Copy /\ CopyInv(g, pc[g], seen[g])
      BY <2>1, <1>1, <1>4 DEF FeedInv, FeedTypes
    <3>2. Adding(pc[g], seen[g], g)' = Adding(pc[g], seen[g], g) /\ Adding(pc[g], seen[g], g) \in Nat
      BY <3>1 DEF Adding
    <3>3. rows \subseteq rows' /\ (g \in rows' <=> g \in rows)
      BY <2>1
    <3>4. seen[g].job.completed \in Nat
      BY <3>1 DEF Copy, AnyJob
    <3>5. QED
      BY <3>1, <3>2, <3>3, <3>4, <1>7 DEF CopyInv
  <2>2. CASE g = f /\ pc'[f] \in {"load", "done"} /\ seen'[f] = Unread
    BY <2>2, <1>7 DEF CopyInv, Unread, NoEvent, Adding
  <2>3. CASE g = f /\ pc'[f] = place /\ place # "done" /\ seen'[f] = [seen[f] EXCEPT !.stamp = 0]
    <3>1. /\ seen'[f].rows = seen[f].rows /\ seen'[f].job = seen[f].job
          /\ seen[f].job.completed \in Nat
      BY <2>3, <1>1, <1>5 DEF Copy, AnyJob
    <3>2. CopyInv(f, pc[f], seen[f])
      BY DEF FeedInv
    <3>3. seen'[f].rows \subseteq rows'
      BY <3>1, <3>2 DEF CopyInv
    <3>4. pc'[f] = "persist" => (f \in rows' <=> f \in seen'[f].rows)
      BY <2>3, <3>1, <3>2 DEF CopyInv
    <3>5. QED
      BY <2>3, <3>1, <3>3, <3>4, <1>7 DEF CopyInv, Adding
  <2>4. QED
    BY <2>1, <2>2, <2>3, <1>4
<1>10. QED
  BY <1>2, <1>6, <1>8, <1>9 DEF FeedInv

LEMMA CommitMoves ==
  ASSUME FeedTypes, NEW f \in Frame, NEW place \in Place, Commit(f, place)
  PROVE  \/ lost' = lost /\ pc' = [pc EXCEPT ![f] = place]
         \/ lost' = lost + 1 /\ pc' = [pc EXCEPT ![f] = "load"]
BY DEF Commit, Proceed

LEMMA CommitProcessingStep ==
  ASSUME FeedInv, NEW f \in Frame, CommitProcessing(f)
  PROVE  FeedInv'
<1>1. FeedTypes /\ CopyInv(f, pc[f], seen[f]) /\ seen[f] \in Copy
  BY DEF FeedInv, FeedTypes
<1>2. /\ pc[f] = "marking" /\ Commit(f, "persist")
      /\ UNCHANGED <<blurred, stored, extracted, rows, clock, shown>>
  BY DEF CommitProcessing, pushing
<1>3. \/ lost' = lost /\ pc' = [pc EXCEPT ![f] = "persist"]
      \/ lost' = lost + 1 /\ pc' = [pc EXCEPT ![f] = "load"]
  BY <1>1, <1>2, CommitMoves DEF Place
<1>4. Owed' = Owed
  BY <1>1, <1>2, <1>3 DEF Owed, FeedTypes, BeforeCommit
<1>5. Extra' >= Extra /\ Extra' \in Nat
  BY <1>1, <1>2, <1>3 DEF Extra, FeedTypes
<1>6. seen[f].job.completed <= Backing
  <2>1. seen[f].job.completed \in Nat /\ Backing \in Int
    BY <1>1, Sizes DEF Copy, AnyJob, Backing
  <2>2. QED
    BY <2>1, <1>1, <1>2 DEF CopyInv, Adding
<1>7. /\ Backing' >= Backing /\ seen[f].job.completed <= Backing'
      /\ Cardinality(Owed') <= Extra'
  <2>1. seen[f].job.completed \in Nat
    BY <1>1 DEF Copy, AnyJob
  <2>2. QED
    BY <2>1, <1>1, <1>2, <1>4, <1>5, <1>6, Sizes DEF Backing, FeedInv
<1>8. QED
  BY <1>2, <1>7, CommitKeepsInv

\* A row that is counted is new, or a failed one that was owed.
LEMMA CommitResultStep ==
  ASSUME FeedInv, NEW f \in Frame, CommitResult(f)
  PROVE  FeedInv'
<1> DEFINE place == IF seen[f].extracted THEN "check" ELSE "done"
           own == IF f \in rows THEN 0 ELSE 1
           added == IF f \in rows /\ f \notin blurred THEN 0 ELSE 1
<1>1. FeedTypes /\ CopyInv(f, pc[f], seen[f]) /\ seen[f].job.completed \in Nat
  BY DEF FeedInv, FeedTypes, Copy, AnyJob
<1>2. /\ pc[f] = "persisting" /\ Commit(f, place) /\ place \in {"check", "done"}
      /\ rows' = rows \cup {f}
      /\ UNCHANGED <<blurred, stored, extracted, clock, shown>>
  BY DEF CommitResult, pushing
<1>3. \/ lost' = lost /\ pc' = [pc EXCEPT ![f] = place]
      \/ lost' = lost + 1 /\ pc' = [pc EXCEPT ![f] = "load"]
  <2>1. place \in Place
    BY DEF Place
  <2> HIDE DEF place
  <2>2. QED
    BY <1>1, <1>2, <2>1, CommitMoves
<1>4. seen[f].job.completed <= Backing + added /\ Backing \in Int
  <2>1. Adding(pc[f], seen[f], f) = added
    BY <1>1, <1>2 DEF CopyInv, Adding
  <2>2. QED
    BY <2>1, <1>1, Sizes DEF CopyInv, Backing
<1>5. Cardinality(rows') = Cardinality(rows) + own
  BY <1>1, <1>2, Sizes, OneMore
<1>6. Backing' = Backing + added \/ Backing' = Backing + added + 1
  <2>1. CASE lost' = lost /\ pc' = [pc EXCEPT ![f] = place]
    <3>1. Owed' = Owed \ {f}
      BY <2>1, <1>1, <1>2 DEF Owed, FeedTypes, BeforeCommit
    <3>2. f \in Owed <=> f \in rows /\ f \in blurred
      BY <1>2 DEF Owed, BeforeCommit
    <3>3. Cardinality(Owed') = IF f \in rows /\ f \in blurred THEN Cardinality(Owed) - 1 ELSE Cardinality(Owed)
      BY <3>1, <3>2, <1>1, Sizes, FS_RemoveElement
    <3>4. Extra' = Extra
      BY <2>1, <1>2 DEF Extra
    <3>5. QED
      BY <3>3, <3>4, <1>1, <1>5, Sizes DEF Backing
  <2>2. CASE lost' = lost + 1 /\ pc' = [pc EXCEPT ![f] = "load"]
    <3>1. Owed' = IF f \in blurred THEN Owed \cup {f} ELSE Owed
      BY <2>2, <1>1, <1>2 DEF Owed, FeedTypes, BeforeCommit
    <3>2. f \in Owed <=> f \in rows /\ f \in blurred
      BY <1>2 DEF Owed, BeforeCommit
    <3>3. Cardinality(Owed') = IF f \in blurred THEN Cardinality(Owed) + own ELSE Cardinality(Owed)
      BY <3>1, <3>2, <1>1, Sizes, OneMore
    <3>4. Extra' = IF blurred = {} THEN 0 ELSE Extra + 1
      BY <2>2, <1>2 DEF Extra
    <3>5. blurred = {} => Extra = 0
      BY DEF Extra
    <3>6. QED
      BY <3>3, <3>4, <3>5, <1>1, <1>5, Sizes DEF Backing
  <2>3. QED
    BY <2>1, <2>2, <1>3
<1>7. Cardinality(Owed') <= Extra'
  <2>1. CASE lost' = lost /\ pc' = [pc EXCEPT ![f] = place]
    <3>1. Owed' \subseteq Owed
      BY <2>1, <1>1, <1>2 DEF Owed, FeedTypes, BeforeCommit
    <3>2. Cardinality(Owed') <= Cardinality(Owed) /\ Cardinality(Owed') \in Nat
      BY <3>1, <1>1, Sizes, FS_Subset, FS_CardinalityType
    <3>3. Extra' = Extra
      BY <2>1, <1>2 DEF Extra
    <3>4. QED
      BY <3>2, <3>3, <1>1, Sizes DEF FeedInv
  <2>2. CASE lost' = lost + 1 /\ pc' = [pc EXCEPT ![f] = "load"]
    <3>1. Owed' = IF f \in blurred THEN Owed \cup {f} ELSE Owed
      BY <2>2, <1>1, <1>2 DEF Owed, FeedTypes, BeforeCommit
    <3>2. Cardinality(Owed') <= IF f \in blurred THEN Cardinality(Owed) + 1 ELSE Cardinality(Owed)
      <4>1. CASE f \in blurred
        <5>1. Owed' = Owed \cup {f}
          BY <3>1, <4>1
        <5>2. Cardinality(Owed') = Cardinality(Owed) + (IF f \in Owed THEN 0 ELSE 1)
          BY <5>1, <1>1, OneMore
        <5>3. QED
          BY <5>2, <4>1, <1>1, Sizes
      <4>2. CASE f \notin blurred
        BY <3>1, <4>2, <1>1, Sizes
      <4>3. QED
        BY <4>1, <4>2
    <3>3. Extra' = IF blurred = {} THEN 0 ELSE Extra + 1
      BY <2>2, <1>2 DEF Extra
    <3>4. Cardinality(Owed) <= Extra /\ (blurred = {} => Extra = 0)
      BY DEF FeedInv, Extra
    <3>5. IsFiniteSet(Owed')
      BY <3>1, <1>1, Sizes, OneMore
    <3>6. Cardinality(Owed') \in Nat
      BY <3>5, FS_CardinalityType
    <3>7. QED
      BY <3>2, <3>3, <3>4, <3>6, <1>1, Sizes
  <2>3. QED
    BY <2>1, <2>2, <1>3
<1>8. Backing' >= Backing /\ seen[f].job.completed <= Backing'
  BY <1>1, <1>4, <1>6
<1>9. QED
  <2>1. place # "persist"
    BY <1>2
  <2> HIDE DEF place
  <2>2. QED
    BY <1>2, <1>7, <1>8, <2>1, CommitKeepsInv

LEMMA CommitReadyStep ==
  ASSUME FeedInv, NEW f \in Frame, CommitReady(f)
  PROVE  FeedInv'
<1>1. FeedTypes /\ CopyInv(f, pc[f], seen[f]) /\ seen[f].job.completed \in Nat
  BY DEF FeedInv, FeedTypes, Copy, AnyJob
<1>2. /\ pc[f] = "concluding" /\ Commit(f, "done")
      /\ UNCHANGED <<blurred, stored, extracted, rows, clock, shown>>
  BY DEF CommitReady, pushing
<1>3. \/ lost' = lost /\ pc' = [pc EXCEPT ![f] = "done"]
      \/ lost' = lost + 1 /\ pc' = [pc EXCEPT ![f] = "load"]
  BY <1>1, <1>2, CommitMoves DEF Place
<1>4. seen[f].job.completed <= Backing
  BY <1>1, <1>2, Sizes DEF CopyInv, Adding, Backing
<1>5. Backing' >= Backing /\ Cardinality(Owed') <= Extra'
  <2>1. CASE lost' = lost /\ pc' = [pc EXCEPT ![f] = "done"]
    <3>1. Owed' = Owed
      BY <2>1, <1>1, <1>2 DEF Owed, FeedTypes, BeforeCommit
    <3>2. Extra' = Extra
      BY <2>1, <1>2 DEF Extra
    <3>3. QED
      BY <3>1, <3>2, <1>1, <1>2, Sizes DEF Backing, FeedInv
  <2>2. CASE lost' = lost + 1 /\ pc' = [pc EXCEPT ![f] = "load"]
    <3>1. Owed' = IF f \in rows /\ f \in blurred THEN Owed \cup {f} ELSE Owed
      BY <2>2, <1>1, <1>2 DEF Owed, FeedTypes, BeforeCommit
    <3>2. /\ Cardinality(Owed') <= IF f \in blurred THEN Cardinality(Owed) + 1 ELSE Cardinality(Owed)
          /\ IsFiniteSet(Owed')
      BY <3>1, <1>1, Sizes, OneMore
    <3>3. Cardinality(Owed') \in Nat
      BY <3>2, FS_CardinalityType
    <3>4. Extra' = IF blurred = {} THEN 0 ELSE Extra + 1
      BY <2>2, <1>2 DEF Extra
    <3>5. Cardinality(Owed) <= Extra /\ (blurred = {} => Extra = 0)
      BY DEF FeedInv, Extra
    <3>6. QED
      BY <3>2, <3>3, <3>4, <3>5, <1>1, <1>2, Sizes DEF Backing
  <2>3. QED
    BY <2>1, <2>2, <1>3
<1>6. seen[f].job.completed <= Backing'
  <2>1. Backing \in Int /\ Backing' \in Int
    <3>1. IsFiniteSet(rows') /\ IsFiniteSet(Owed')
      BY <1>1, <1>2, ProgressFeedAssumption, FS_Subset DEF FeedTypes, Owed
    <3>2. Extra' \in Nat
      BY <1>1, <1>2, <1>3 DEF Extra, FeedTypes
    <3>3. QED
      BY <3>1, <3>2, <1>1, Sizes, FS_CardinalityType DEF Backing
  <2>2. QED
    BY <2>1, <1>1, <1>4, <1>5
<1>7. QED
  BY <1>2, <1>5, <1>6, CommitKeepsInv

--------------------------------------------------------------------------------
(* Steps that only read or record *)

LEMMA RecordKeepsInv ==
  ASSUME FeedInv, NEW f \in Frame, NEW place \in Place, NEW copy \in Copy,
         RecordEvent(f, place, copy),
         UNCHANGED <<blurred, stored, extracted, rows, job, events, lost, shown>>,
         place \in BeforeCommit => pc[f] \in BeforeCommit,
         CopyInv(f, place, copy)
  PROVE  FeedInv'
<1> DEFINE stamped == [copy EXCEPT !.stamp = clock + 1]
<1>1. clock \in Nat
  BY DEF FeedInv, FeedTypes
<1>2. /\ stamped \in Copy /\ stamped.rows = copy.rows /\ stamped.job = copy.job
      /\ clock' \in Nat /\ Proceed(f, place, stamped)
  BY <1>1 DEF RecordEvent, Copy
<1>3. CopyInv(f, place, stamped)
  BY <1>2 DEF CopyInv, Adding
<1> HIDE DEF stamped
<1>4. QED
  BY <1>2, <1>3, MoveKeepsInv

LEMMA ReadingSteps ==
  ASSUME FeedInv, NEW f \in Frame,
         LoadFrameJob(f) \/ LoadOCRJob(f) \/ ListRows(f) \/ CheckComplete(f)
  PROVE  FeedInv'
<1>1. /\ FeedTypes /\ CopyInv(f, pc[f], seen[f]) /\ seen[f] \in Copy
      /\ seen[f].job.completed \in Nat /\ job.completed \in Nat /\ Backing \in Int
  BY Sizes DEF FeedInv, FeedTypes, Copy, AnyJob, Backing
<1>2. clock' = clock /\ UNCHANGED <<blurred, stored, extracted, rows, job, events, lost, shown>>
  BY DEF LoadFrameJob, LoadOCRJob, ListRows, CheckComplete, pushing
<1>3. CASE LoadFrameJob(f)
  <2> DEFINE copy == [seen[f] EXCEPT !.extracted = extracted]
  <2>1. pc[f] = "load" /\ Proceed(f, "job", copy)
    BY <1>3 DEF LoadFrameJob
  <2>2. copy \in Copy /\ copy.rows = seen[f].rows /\ copy.job = seen[f].job
    BY <1>1 DEF Copy, FeedTypes
  <2>3. CopyInv(f, "job", copy)
    BY <1>1, <2>1, <2>2 DEF CopyInv, Adding
  <2> HIDE DEF copy
  <2>4. QED
    BY <1>1, <1>2, <2>1, <2>2, <2>3, MoveKeepsInv DEF Place, BeforeCommit, FeedTypes
<1>4. CASE LoadOCRJob(f)
  <2> DEFINE copy == [seen[f] EXCEPT !.job = job]
             place == IF job.status = "success" THEN "done" ELSE "list"
  <2>1. pc[f] = "job" /\ Proceed(f, place, copy) /\ place \in {"list", "done"}
    BY <1>4 DEF LoadOCRJob
  <2>2. copy \in Copy /\ copy.rows = seen[f].rows /\ copy.job = job
    BY <1>1 DEF Copy, FeedTypes
  <2> HIDE DEF copy, place
  <2>3. CopyInv(f, place, copy)
    BY <1>1, <2>1, <2>2 DEF CopyInv, Adding, FeedInv
  <2>4. QED
    BY <1>1, <1>2, <2>1, <2>2, <2>3, MoveKeepsInv DEF Place, BeforeCommit, FeedTypes
<1>5. CASE ListRows(f)
  <2> DEFINE copy == [seen[f] EXCEPT !.frames = stored, !.rows = rows]
             place == IF seen[f].job.status = "pending" THEN "mark" ELSE "persist"
  <2>1. pc[f] = "list" /\ Proceed(f, place, copy) /\ place \in {"mark", "persist"}
    BY <1>5 DEF ListRows
  <2>2. copy \in Copy /\ copy.rows = rows /\ copy.job = seen[f].job
    BY <1>1 DEF Copy, FeedTypes
  <2> HIDE DEF copy, place
  <2>3. CopyInv(f, place, copy)
    BY <1>1, <2>1, <2>2 DEF CopyInv, Adding
  <2>4. QED
    BY <1>1, <1>2, <2>1, <2>2, <2>3, MoveKeepsInv DEF Place, BeforeCommit, FeedTypes
<1>6. CASE CheckComplete(f)
  <2> DEFINE place == IF seen[f].frames \subseteq rows THEN "conclude" ELSE "done"
  <2>1. pc[f] = "check" /\ Proceed(f, place, seen[f]) /\ place \in {"conclude", "done"}
    BY <1>6 DEF CheckComplete
  <2> HIDE DEF place
  <2>2. CopyInv(f, place, seen[f])
    BY <1>1, <2>1 DEF CopyInv, Adding
  <2>3. QED
    BY <1>1, <1>2, <2>1, <2>2, MoveKeepsInv DEF Place, BeforeCommit, FeedTypes
<1>7. QED
  BY <1>3, <1>4, <1>5, <1>6

LEMMA RecordingSteps ==
  ASSUME FeedInv, NEW f \in Frame, MarkProcessing(f) \/ PersistResult(f) \/ MarkReady(f)
  PROVE  FeedInv'
<1>1. /\ FeedTypes /\ CopyInv(f, pc[f], seen[f]) /\ seen[f] \in Copy
      /\ seen[f].job.completed \in Nat /\ Backing \in Int
      /\ Cardinality(rows) <= Backing
  BY Sizes DEF FeedInv, FeedTypes, Copy, AnyJob, Backing
<1>2. UNCHANGED <<blurred, stored, extracted, rows, job, events, lost, shown>>
  BY DEF MarkProcessing, PersistResult, MarkReady, pushing
<1>3. CASE MarkProcessing(f)
  <2> DEFINE counted == CountFinal(seen[f].rows)
             copy == [seen[f] EXCEPT !.job = [status |-> "processing", completed |-> counted]]
  <2>1. pc[f] = "mark" /\ RecordEvent(f, "marking", copy)
    BY <1>3 DEF MarkProcessing
  <2>2. counted \in Nat /\ counted <= Cardinality(rows)
    <3>1. seen[f].rows \ blurred \in SUBSET rows
      BY <1>1 DEF CopyInv
    <3>2. QED
      BY <3>1, <1>1, Sizes, FS_Subset, FS_CardinalityType DEF CountFinal
  <2> HIDE DEF counted
  <2>3. copy \in Copy /\ copy.rows = seen[f].rows /\ copy.job.completed = counted
    BY <1>1, <2>2 DEF Copy, AnyJob, JobStatus
  <2> HIDE DEF copy
  <2>4. CopyInv(f, "marking", copy)
    BY <1>1, <2>1, <2>2, <2>3, Sizes DEF CopyInv, Adding
  <2>5. QED
    BY <1>2, <2>1, <2>3, <2>4, RecordKeepsInv DEF Place, BeforeCommit
<1>4. CASE PersistResult(f) /\ Added(f) = 0
  <2>1. pc[f] = "persist" /\ Proceed(f, "persisting", seen[f]) /\ clock' = clock
    BY <1>4 DEF PersistResult
  <2>2. CopyInv(f, "persisting", seen[f])
    BY <1>1, <1>4, <2>1 DEF CopyInv, Adding, Added
  <2>3. QED
    BY <1>1, <1>2, <2>1, <2>2, MoveKeepsInv DEF Place, BeforeCommit, FeedTypes
<1>5. CASE PersistResult(f) /\ Added(f) # 0
  <2> DEFINE copy == [seen[f] EXCEPT !.job.completed = @ + Added(f)]
  <2>1. pc[f] = "persist" /\ RecordEvent(f, "persisting", copy)
    BY <1>5 DEF PersistResult
  <2>2. Added(f) = 1 /\ f \notin seen[f].rows \ blurred
    BY <1>5 DEF Added
  <2>3. /\ copy \in Copy /\ copy.rows = seen[f].rows
        /\ copy.job.completed = seen[f].job.completed + 1
    BY <1>1, <2>2 DEF Copy, AnyJob
  <2> HIDE DEF copy
  <2>4. CopyInv(f, "persisting", copy)
    BY <1>1, <2>1, <2>2, <2>3 DEF CopyInv, Adding
  <2>5. QED
    BY <1>2, <2>1, <2>3, <2>4, RecordKeepsInv DEF Place, BeforeCommit
<1>6. CASE MarkReady(f)
  <2> DEFINE copy == [seen[f] EXCEPT !.job.status = "success"]
  <2>1. pc[f] = "conclude" /\ RecordEvent(f, "concluding", copy)
    BY <1>6 DEF MarkReady
  <2>2. copy \in Copy /\ copy.rows = seen[f].rows /\ copy.job.completed = seen[f].job.completed
    BY <1>1 DEF Copy, AnyJob, JobStatus
  <2> HIDE DEF copy
  <2>3. CopyInv(f, "concluding", copy)
    BY <1>1, <2>1, <2>2 DEF CopyInv, Adding
  <2>4. QED
    BY <1>2, <2>1, <2>2, <2>3, RecordKeepsInv DEF Place, BeforeCommit
<1>7. QED
  BY <1>3, <1>4, <1>5, <1>6

--------------------------------------------------------------------------------
(* The theorem *)

LEMMA InitFeedInv == Init => FeedInv
<1> SUFFICES ASSUME Init PROVE FeedInv
  OBVIOUS
<1>1. /\ blurred \subseteq Frame /\ stored = {} /\ rows = {} /\ events = {} /\ shown = NoEvent
      /\ job = NoEvent[1] /\ clock = 0 /\ lost = 0 /\ extracted = FALSE
      /\ pc = [f \in Frame |-> "load"] /\ seen = [f \in Frame |-> Unread]
  BY ProgressFeedAssumption DEF Init
<1>2. NoEvent[1] \in AnyJob /\ NoEvent[1].completed = 0 /\ JobOf(NoEvent).completed = 0
  BY DEF NoEvent, AnyJob, JobStatus, JobOf
<1>3. Unread \in Copy /\ Unread.rows = {} /\ Unread.job.completed = 0
  BY <1>2 DEF Unread, Copy
<1>4. FeedTypes
  <2>1. \A e \in events \cup {shown} : JobOf(e).completed \in Nat
    BY <1>1, <1>2
  <2>2. QED
    BY <2>1, <1>1, <1>2, <1>3 DEF FeedTypes, Place
<1>5. Owed = {} /\ Cardinality(Owed) = 0 /\ Cardinality(rows) = 0 /\ Extra = 0
  BY <1>1, FS_EmptySet DEF Owed, Extra
<1>6. Backing = 0
  BY <1>5 DEF Backing
<1>7. \A f \in Frame : CopyInv(f, pc[f], seen[f])
  BY <1>1, <1>3, <1>6 DEF CopyInv, Adding
<1>8. QED
  BY <1>1, <1>2, <1>4, <1>5, <1>6, <1>7 DEF FeedInv

\* The client, and the extraction, change nothing a count depends on.
LEMMA OtherStepsKeepInv ==
  ASSUME FeedInv,
         \/ ExtractionEnds \/ \E f \in Frame : StoreFrame(f)
         \/ \E e \in events : Push(e) \/ PushFails(e)
         \/ UNCHANGED vars
  PROVE  FeedInv'
<1>1. /\ UNCHANGED <<blurred, rows, job, clock, events, pc, seen, lost>>
      /\ shown' = shown \/ shown' \in events
      /\ stored' \subseteq Frame /\ extracted' \in BOOLEAN
  BY DEF ExtractionEnds, StoreFrame, Push, PushFails, pushing, writing, vars, FeedInv, FeedTypes
<1>2. FeedTypes'
  BY <1>1 DEF FeedInv, FeedTypes
<1>3. Owed' = Owed /\ Extra' = Extra
  BY <1>1 DEF Owed, Extra
<1>4. Backing' = Backing
  BY <1>1, <1>3 DEF Backing
<1>5. \A f \in Frame : CopyInv(f, pc[f], seen[f])'
  BY <1>1, <1>4 DEF FeedInv, CopyInv, Adding
<1>6. QED
  BY <1>1, <1>2, <1>3, <1>4, <1>5 DEF FeedInv

LEMMA FeedAlways == Spec => []FeedInv
<1>1. FeedInv /\ [Next]_vars => FeedInv'
  <2> SUFFICES ASSUME FeedInv, [Next]_vars PROVE FeedInv'
    OBVIOUS
  <2>1. ASSUME NEW f \in Frame, PersistFrame(f)
        PROVE  FeedInv'
    BY <2>1, ReadingSteps, RecordingSteps, CommitProcessingStep, CommitResultStep, CommitReadyStep
       DEF PersistFrame
  <2>2. QED
    BY <2>1, OtherStepsKeepInv DEF Next
<1>2. QED
  BY InitFeedInv, <1>1, PTL DEF Spec

\* No count is announced or shown that the rows do not bear out (persistResults,
\* MarkOCRProgress): a result is counted twice only if its answer was lost and it is failed.
THEOREM CountIsBackedTheorem == Spec => []CountIsBacked
<1>1. FeedInv => CountIsBacked
  <2> SUFFICES ASSUME FeedInv, NEW e \in events \cup {shown}
               PROVE  JobOf(e).completed <= Cardinality(rows) + (IF blurred = {} THEN 0 ELSE lost)
    BY DEF CountIsBacked
  <2>1. JobOf(e).completed <= Backing /\ JobOf(e).completed \in Nat
    BY DEF FeedInv, FeedTypes
  <2>2. QED
    BY <2>1, Sizes DEF FeedInv, Backing, Extra
<1>2. QED
  BY FeedAlways, <1>1, PTL

--------------------------------------------------------------------------------
(* The order of the stamps.  When the job succeeds every result has its row, *)
(* and a handler that comes back for a final one records nothing more: only  *)
(* a failed one whose answer was lost is recorded twice.                     *)

Repeatable == lost # 0 /\ blurred # {}

Succeeded(e) == JobOf(e).status = "success"

\* What a handler knows at a place.  Before its result is committed it works on a job
\* that is not concluded, and takes a stamp only for what is not stored yet; it concludes
\* a job whose extraction was over before it listed the frames.
HandlerInv(f, place, copy) ==
  /\ copy.extracted => extracted
  /\ copy.stamp # 0 => place \in {"marking", "persisting", "concluding"}
  /\ place = "list" => copy.job.status # "success" /\ (f \in rows => copy.job.status # "pending")
  /\ place \in {"mark", "marking"} => f \notin rows
  /\ place \in {"marking", "persist", "persisting", "check", "conclude"} =>
       copy.job.status = "processing"
  /\ place \in BeforeCommit /\ lost = 0 => f \notin rows
  /\ place = "persisting" /\ ~Repeatable /\ copy.stamp # 0 => f \notin rows
  /\ place \notin {"load", "job", "list"} /\ copy.extracted => copy.frames = Frame
  /\ place \in {"check", "conclude", "concluding"} => copy.extracted
  /\ place \in {"conclude", "concluding"} => rows = Frame
  /\ place = "concluding" => copy.job.status = "success"

\* Success is stamped after everything else.
StampOrder ==
  /\ \A a \in events : Succeeded(a) =>
       /\ rows = Frame
       /\ \A b \in events : ~Succeeded(b) => StampOf(b) < StampOf(a)
  /\ \A f \in Frame : pc[f] = "concluding" =>
       \A b \in events : ~Succeeded(b) => StampOf(b) < seen[f].stamp

OrderInv ==
  /\ shown \in events \cup {NoEvent}
  /\ extracted => stored = Frame
  /\ rows # {} => job.status # "pending"
  /\ \A f \in Frame : HandlerInv(f, pc[f], seen[f]) /\ seen[f].stamp <= clock
  /\ \A e \in events : StampOf(e) \in 1 .. clock
  /\ ~Repeatable => StampOrder

LEMMA InitOrder == Init => OrderInv
BY DEF Init, OrderInv, HandlerInv, StampOrder, Unread, NoEvent

\* A handler is undisturbed by what another does with another result.
LEMMA OthersUndisturbed ==
  ASSUME FeedInv, OrderInv, NEW f \in Frame, NEW g \in Frame \ {f},
         pc'[g] = pc[g], seen'[g] = seen[g], UNCHANGED <<blurred, extracted>>,
         rows' = rows \/ rows' = rows \cup {f}, clock' \in Nat, clock' >= clock,
         lost' = 0 => lost = 0
  PROVE  HandlerInv(g, pc[g], seen[g])' /\ seen'[g].stamp <= clock'
<1>1. HandlerInv(g, pc[g], seen[g]) /\ seen[g].stamp <= clock /\ rows \subseteq Frame
  BY DEF OrderInv, FeedInv, FeedTypes
<1>2. HandlerInv(g, pc[g], seen[g])'
  BY <1>1 DEF HandlerInv, Repeatable
<1>3. seen[g].stamp \in Nat /\ clock \in Nat
  BY DEF FeedInv, FeedTypes, Copy
<1>4. QED
  BY <1>1, <1>2, <1>3

\* The handler goes on and nothing is committed.
LEMMA MoveKeepsOrder ==
  ASSUME FeedInv, OrderInv, NEW f \in Frame, NEW place \in Place, NEW copy \in Copy,
         Proceed(f, place, copy), UNCHANGED <<blurred, stored, extracted, rows, job, events, lost, shown>>,
         clock' \in Nat, clock' >= clock,
         HandlerInv(f, place, copy), copy.stamp <= clock',
         place = "concluding" => copy.stamp > clock
  PROVE  OrderInv'
<1>1. /\ pc'[f] = place /\ seen'[f] = IF place \in {"load", "done"} THEN Unread ELSE copy
      /\ \A g \in Frame \ {f} : pc'[g] = pc[g] /\ seen'[g] = seen[g]
  BY ProceedTypes DEF FeedInv, FeedTypes
<1>2. ASSUME NEW g \in Frame PROVE HandlerInv(g, pc[g], seen[g])' /\ seen'[g].stamp <= clock'
  <2>1. CASE g # f
    BY <1>1, <2>1, OthersUndisturbed
  <2>2. CASE g = f /\ place \in {"load", "done"}
    BY <1>1, <2>2 DEF HandlerInv, Unread, Repeatable
  <2>3. CASE g = f /\ place \notin {"load", "done"}
    BY <1>1, <2>3 DEF HandlerInv, Repeatable
  <2>4. QED
    BY <2>1, <2>2, <2>3
<1>3. clock \in Nat
  BY DEF FeedInv, FeedTypes
<1>4. \A e \in events : StampOf(e) \in 1 .. clock'
  BY <1>3 DEF OrderInv
<1>5. ASSUME ~Repeatable PROVE StampOrder'
  <2>1. ASSUME NEW g \in Frame, pc'[g] = "concluding", NEW b \in events, ~Succeeded(b)
        PROVE  StampOf(b) < seen'[g].stamp
    <3>1. StampOf(b) \in 1 .. clock
      BY DEF OrderInv
    <3>2. CASE g = f
      BY <1>1, <1>3, <2>1, <3>1, <3>2 DEF Copy
    <3>3. CASE g # f
      BY <1>1, <1>5, <2>1, <3>3 DEF OrderInv, StampOrder
    <3>4. QED
      BY <3>2, <3>3
  <2>2. QED
    BY <1>5, <2>1 DEF OrderInv, StampOrder, Succeeded
<1>6. QED
  BY <1>2, <1>4, <1>5 DEF OrderInv, Repeatable

\* The event of a result that is not stored yet is committed before any success, the
\* event of a success after everything else.
LEMMA CommitKeepsOrder ==
  ASSUME FeedInv, OrderInv, NEW f \in Frame, NEW place \in {"persist", "check", "done"},
         Commit(f, place), pc[f] \in {"marking", "persisting", "concluding"},
         UNCHANGED <<blurred, stored, extracted, clock, shown>>,
         rows' = IF pc[f] = "persisting" THEN rows \cup {f} ELSE rows,
         place = "persist" => pc[f] = "marking",
         place = "check" => pc[f] = "persisting" /\ seen[f].extracted
  PROVE  OrderInv'
<1> DEFINE e == <<seen[f].job, seen[f].stamp>>
<1>1. FeedTypes /\ seen[f] \in Copy /\ HandlerInv(f, pc[f], seen[f]) /\ seen[f].stamp \in 0 .. clock
  BY DEF FeedInv, FeedTypes, OrderInv, Copy
<1>2. /\ job' = seen[f].job
      /\ events' = events \cup (IF seen[f].stamp = 0 THEN {} ELSE {e})
      /\ \/ Proceed(f, place, [seen[f] EXCEPT !.stamp = 0])
         \/ Proceed(f, "load", Unread)
  BY DEF Commit
<1>3. [seen[f] EXCEPT !.stamp = 0] \in Copy /\ Unread \in Copy
  BY <1>1 DEF Unread, NoEvent, Copy, AnyJob, JobStatus
<1>4. /\ \/ pc'[f] = place /\ place # "done" /\ seen'[f] = [seen[f] EXCEPT !.stamp = 0]
         \/ pc'[f] \in {"load", "done"} /\ seen'[f] = Unread
      /\ \A g \in Frame \ {f} : pc'[g] = pc[g] /\ seen'[g] = seen[g]
  <2>1. place \in Place /\ "load" \in Place
    BY DEF Place
  <2>2. CASE Proceed(f, place, [seen[f] EXCEPT !.stamp = 0])
    BY <2>1, <2>2, <1>1, <1>3, ProceedTypes
  <2>3. CASE Proceed(f, "load", Unread)
    BY <2>1, <2>3, <1>1, <1>3, ProceedTypes
  <2>4. QED
    BY <2>2, <2>3, <1>2
<1>5. job'.status # "pending" /\ StampOf(e) = seen[f].stamp /\ JobOf(e) = seen[f].job
  BY <1>1, <1>2 DEF HandlerInv, StampOf, JobOf
<1>0. /\ lost' = 0 => lost = 0
      /\ pc'[f] = "load" => lost' # 0
  <2>1. CASE Proceed(f, place, [seen[f] EXCEPT !.stamp = 0]) /\ UNCHANGED lost
    <3>1. pc'[f] = place
      BY <1>1, <2>1 DEF Proceed, FeedTypes
    <3>2. QED
      BY <2>1, <3>1
  <2>2. CASE lost' = lost + 1
    BY <1>1, <2>2 DEF FeedTypes
  <2>3. QED
    BY <2>1, <2>2 DEF Commit
<1> HIDE DEF e
<1>6. ASSUME NEW g \in Frame PROVE HandlerInv(g, pc[g], seen[g])' /\ seen'[g].stamp <= clock'
  <2>1. CASE g # f
    BY <1>0, <1>1, <1>4, <2>1, OthersUndisturbed DEF FeedTypes
  <2>2. CASE g = f /\ pc'[f] \in {"load", "done"} /\ seen'[f] = Unread
    BY <2>2, <1>0, <1>1 DEF HandlerInv, Unread, FeedTypes, BeforeCommit
  <2>3. CASE g = f /\ pc'[f] = place /\ place # "done" /\ seen'[f] = [seen[f] EXCEPT !.stamp = 0]
    <3>1. /\ seen'[f].stamp = 0 /\ seen'[f].job = seen[f].job
          /\ seen'[f].extracted = seen[f].extracted /\ seen'[f].frames = seen[f].frames
      BY <2>3, <1>1 DEF Copy
    <3>2. QED
      BY <2>3, <3>1, <1>0, <1>1 DEF HandlerInv, FeedTypes, BeforeCommit
  <2>4. QED
    BY <1>4, <2>1, <2>2, <2>3
<1>7. \A a \in events' : StampOf(a) \in 1 .. clock'
  BY <1>1, <1>2, <1>5 DEF OrderInv, FeedTypes
<1>8. ASSUME ~Repeatable' PROVE StampOrder'
  <2>0. StampOrder /\ ~Repeatable
    BY <1>0, <1>8 DEF OrderInv, Repeatable
  <2>1. CASE seen[f].stamp = 0
    <3>1. events' = events /\ rows' = rows \cup (IF pc[f] = "persisting" THEN {f} ELSE {})
      BY <1>2, <2>1
    <3>2. rows = Frame => rows' = Frame
      BY <3>1
    <3>3. \A g \in Frame : pc'[g] = "concluding" => pc[g] = "concluding" /\ seen'[g] = seen[g]
      BY <1>4
    <3>4. QED
      BY <2>0, <3>1, <3>2, <3>3 DEF StampOrder, Succeeded
  <2>2. CASE seen[f].stamp # 0 /\ pc[f] = "concluding"
    <3>1. rows = Frame /\ rows' = Frame /\ Succeeded(e) /\ events' = events \cup {e}
      BY <1>1, <1>2, <1>5, <2>2 DEF HandlerInv, Succeeded
    <3>2. \A b \in events : ~Succeeded(b) => StampOf(b) < StampOf(e)
      BY <1>5, <2>0, <2>2 DEF StampOrder
    <3>3. \A b \in events' : ~Succeeded(b) => b \in events
      BY <3>1
    <3>4. \A g \in Frame : pc'[g] = "concluding" => pc[g] = "concluding" /\ seen'[g] = seen[g]
      BY <1>4
    <3>5. QED
      BY <2>0, <3>1, <3>2, <3>3, <3>4 DEF StampOrder, Succeeded
  <2>3. CASE seen[f].stamp # 0 /\ pc[f] # "concluding"
    <3>1. f \notin rows /\ ~Succeeded(e) /\ events' = events \cup {e}
      BY <1>1, <1>2, <1>5, <2>0, <2>3 DEF HandlerInv, Succeeded
    <3>2. \A a \in events : ~Succeeded(a)
      BY <2>0, <3>1 DEF StampOrder
    <3>3. \A g \in Frame : pc[g] # "concluding"
      BY <3>1 DEF OrderInv, HandlerInv
    <3>4. \A g \in Frame : pc'[g] # "concluding"
      BY <1>4, <3>3
    <3>5. QED
      BY <3>1, <3>2, <3>4 DEF StampOrder, Succeeded
  <2>4. QED
    BY <2>1, <2>2, <2>3
<1>9. shown' \in events' \cup {NoEvent}
  BY <1>2 DEF OrderInv
<1>10. QED
  BY <1>5, <1>6, <1>7, <1>8, <1>9 DEF OrderInv

LEMMA ReadingOrder ==
  ASSUME FeedInv, OrderInv, NEW f \in Frame,
         LoadFrameJob(f) \/ LoadOCRJob(f) \/ ListRows(f) \/ CheckComplete(f)
  PROVE  OrderInv'
<1>1. /\ UNCHANGED <<blurred, stored, extracted, rows, job, clock, events, lost, shown>>
      /\ FeedTypes /\ seen[f] \in Copy /\ HandlerInv(f, pc[f], seen[f])
      /\ clock \in Nat /\ seen[f].stamp <= clock
      /\ stored \subseteq Frame /\ rows \subseteq Frame /\ job \in AnyJob /\ extracted \in BOOLEAN
  BY DEF LoadFrameJob, LoadOCRJob, ListRows, CheckComplete, pushing, FeedInv, FeedTypes, OrderInv
<1>2. CASE LoadFrameJob(f)
  <2> DEFINE copy == [seen[f] EXCEPT !.extracted = extracted]
  <2>1. copy \in Copy /\ copy.stamp = seen[f].stamp /\ copy.extracted = extracted
    BY <1>1 DEF Copy
  <2>2. Proceed(f, "job", copy) /\ pc[f] = "load" /\ "job" \in Place
    BY <1>2 DEF LoadFrameJob, Place
  <2> HIDE DEF copy
  <2>3. HandlerInv(f, "job", copy)
    BY <1>1, <2>1, <2>2 DEF HandlerInv, BeforeCommit
  <2>4. QED
    BY <1>1, <2>1, <2>2, <2>3, MoveKeepsOrder
<1>3. CASE LoadOCRJob(f)
  <2> DEFINE copy == [seen[f] EXCEPT !.job = job]
             place == IF job.status = "success" THEN "done" ELSE "list"
  <2>1. copy \in Copy /\ copy.stamp = seen[f].stamp /\ copy.extracted = seen[f].extracted
        /\ copy.job = job
    BY <1>1 DEF Copy
  <2>2. Proceed(f, place, copy) /\ pc[f] = "job"
    BY <1>3 DEF LoadOCRJob
  <2>3. CASE job.status = "success"
    <3>1. Proceed(f, "done", Unread)
      BY <2>2, <2>3 DEF Proceed
    <3>2. Unread \in Copy /\ HandlerInv(f, "done", Unread) /\ Unread.stamp = 0 /\ "done" \in Place
      BY DEF Unread, NoEvent, Copy, AnyJob, JobStatus, HandlerInv, Place, BeforeCommit
    <3>3. QED
      BY <1>1, <3>1, <3>2, MoveKeepsOrder
  <2>4. CASE job.status # "success"
    <3>1. Proceed(f, "list", copy) /\ "list" \in Place
      BY <2>2, <2>4 DEF Place
    <3> HIDE DEF copy
    <3>2. HandlerInv(f, "list", copy)
      BY <1>1, <2>1, <2>2, <2>4 DEF HandlerInv, BeforeCommit, OrderInv
    <3>3. QED
      BY <1>1, <2>1, <3>1, <3>2, MoveKeepsOrder
  <2>5. QED
    BY <2>3, <2>4
<1>4. CASE ListRows(f)
  <2> DEFINE copy == [seen[f] EXCEPT !.frames = stored, !.rows = rows]
             place == IF seen[f].job.status = "pending" THEN "mark" ELSE "persist"
  <2>1. /\ copy \in Copy /\ copy.stamp = seen[f].stamp /\ copy.extracted = seen[f].extracted
        /\ copy.job = seen[f].job /\ copy.frames = stored
    BY <1>1 DEF Copy
  <2>2. Proceed(f, place, copy) /\ pc[f] = "list" /\ place \in Place
    BY <1>4 DEF ListRows, Place
  <2>3. seen[f].job.status \in {"pending", "processing"}
    BY <1>1, <2>2 DEF HandlerInv, Copy, AnyJob, JobStatus
  <2>4. place = "mark" => f \notin rows
    BY <1>1, <2>2 DEF HandlerInv
  <2>5. place = "persist" => seen[f].job.status = "processing"
    BY <2>3
  <2>6. place \in {"mark", "persist"}
    OBVIOUS
  <2> HIDE DEF copy, place
  <2>7. HandlerInv(f, place, copy)
    BY <1>1, <2>1, <2>2, <2>4, <2>5, <2>6 DEF HandlerInv, BeforeCommit, OrderInv
  <2>8. QED
    BY <1>1, <2>1, <2>2, <2>6, <2>7, MoveKeepsOrder
<1>5. CASE CheckComplete(f)
  <2> DEFINE place == IF seen[f].frames \subseteq rows THEN "conclude" ELSE "done"
  <2>1. Proceed(f, place, seen[f]) /\ pc[f] = "check" /\ place \in Place
    BY <1>5 DEF CheckComplete, Place
  <2>2. seen[f].extracted /\ seen[f].frames = Frame
    BY <1>1, <2>1 DEF HandlerInv
  <2>3. place = "conclude" => rows = Frame
    BY <1>1, <2>2
  <2>4. place \in {"conclude", "done"}
    OBVIOUS
  <2> HIDE DEF place
  <2>5. HandlerInv(f, place, seen[f])
    BY <1>1, <2>1, <2>2, <2>3, <2>4 DEF HandlerInv, BeforeCommit
  <2>6. QED
    BY <1>1, <2>1, <2>4, <2>5, MoveKeepsOrder
<1>6. QED
  BY <1>2, <1>3, <1>4, <1>5

LEMMA RecordingOrder ==
  ASSUME FeedInv, OrderInv, NEW f \in Frame, MarkProcessing(f) \/ PersistResult(f) \/ MarkReady(f)
  PROVE  OrderInv'
<1>1. /\ UNCHANGED <<blurred, stored, extracted, rows, job, events, lost, shown>>
      /\ FeedTypes /\ seen[f] \in Copy /\ HandlerInv(f, pc[f], seen[f]) /\ CopyInv(f, pc[f], seen[f])
      /\ clock \in Nat /\ seen[f].stamp <= clock /\ rows \subseteq Frame
  BY DEF MarkProcessing, PersistResult, MarkReady, pushing, FeedInv, FeedTypes, OrderInv
<1>2. CASE MarkProcessing(f)
  <2> DEFINE counted == [status |-> "processing", completed |-> CountFinal(seen[f].rows)]
             marked == [seen[f] EXCEPT !.job = counted]
             copy == [marked EXCEPT !.stamp = clock + 1]
  <2>1. Proceed(f, "marking", copy) /\ clock' = clock + 1 /\ pc[f] = "mark"
    BY <1>2 DEF MarkProcessing, RecordEvent
  <2>2. counted \in AnyJob
    <3>1. IsFiniteSet(seen[f].rows \ blurred)
      BY <1>1, ProgressFeedAssumption, FS_Subset DEF Copy
    <3>2. QED
      BY <3>1, FS_CardinalityType DEF CountFinal, AnyJob, JobStatus
  <2>3. /\ copy \in Copy /\ copy.stamp = clock + 1 /\ copy.extracted = seen[f].extracted
        /\ copy.job.status = "processing" /\ copy.frames = seen[f].frames
    <3>1. /\ marked \in Copy /\ marked.extracted = seen[f].extracted
          /\ marked.job = counted /\ marked.frames = seen[f].frames
      <4> HIDE DEF counted
      <4>1. QED
        BY <1>1, <2>2 DEF Copy
    <3> HIDE DEF marked
    <3>2. QED
      BY <1>1, <3>1 DEF Copy
  <2> HIDE DEF copy
  <2>4. HandlerInv(f, "marking", copy)
    BY <1>1, <2>1, <2>3 DEF HandlerInv, BeforeCommit
  <2>5. QED
    BY <1>1, <2>1, <2>3, <2>4, MoveKeepsOrder DEF Place
<1>3. CASE PersistResult(f) /\ Added(f) = 0
  <2>1. Proceed(f, "persisting", seen[f]) /\ clock' = clock /\ pc[f] = "persist"
    BY <1>3 DEF PersistResult
  <2>2. HandlerInv(f, "persisting", seen[f])
    BY <1>1, <2>1 DEF HandlerInv, BeforeCommit
  <2>3. QED
    BY <1>1, <2>1, <2>2, MoveKeepsOrder DEF Place
<1>4. CASE PersistResult(f) /\ Added(f) # 0
  <2> DEFINE counted == [seen[f] EXCEPT !.job.completed = @ + Added(f)]
             copy == [counted EXCEPT !.stamp = clock + 1]
  <2>1. Proceed(f, "persisting", copy) /\ clock' = clock + 1 /\ pc[f] = "persist"
    BY <1>4 DEF PersistResult, RecordEvent
  <2>2. ~Repeatable => f \notin rows
    <3>1. CASE blurred = {}
      BY <1>1, <1>4, <2>1, <3>1 DEF Added, CopyInv
    <3>2. CASE lost = 0
      BY <1>1, <2>1, <3>2 DEF HandlerInv, BeforeCommit
    <3>3. QED
      BY <3>1, <3>2 DEF Repeatable
  <2>3. Added(f) = 1
    BY <1>4 DEF Added
  <2>4. /\ copy \in Copy /\ copy.stamp = clock + 1 /\ copy.extracted = seen[f].extracted
        /\ copy.job.status = seen[f].job.status /\ copy.frames = seen[f].frames
    <3>1. /\ counted \in Copy /\ counted.extracted = seen[f].extracted
          /\ counted.job.status = seen[f].job.status /\ counted.frames = seen[f].frames
      BY <1>1, <2>3 DEF Copy, AnyJob
    <3> HIDE DEF counted
    <3>2. QED
      BY <1>1, <3>1 DEF Copy
  <2> HIDE DEF copy
  <2>5. HandlerInv(f, "persisting", copy)
    BY <1>1, <2>1, <2>2, <2>4 DEF HandlerInv, BeforeCommit
  <2>6. QED
    BY <1>1, <2>1, <2>4, <2>5, MoveKeepsOrder DEF Place
<1>5. CASE MarkReady(f)
  <2> DEFINE ready == [seen[f] EXCEPT !.job.status = "success"]
             copy == [ready EXCEPT !.stamp = clock + 1]
  <2>1. Proceed(f, "concluding", copy) /\ clock' = clock + 1 /\ pc[f] = "conclude"
    BY <1>5 DEF MarkReady, RecordEvent
  <2>2. /\ copy \in Copy /\ copy.stamp = clock + 1 /\ copy.extracted = seen[f].extracted
        /\ copy.job.status = "success" /\ copy.frames = seen[f].frames
    <3>1. /\ ready \in Copy /\ ready.extracted = seen[f].extracted
          /\ ready.job.status = "success" /\ ready.frames = seen[f].frames
      BY <1>1 DEF Copy, AnyJob, JobStatus
    <3> HIDE DEF ready
    <3>2. QED
      BY <1>1, <3>1 DEF Copy
  <2> HIDE DEF copy
  <2>3. HandlerInv(f, "concluding", copy)
    BY <1>1, <2>1, <2>2 DEF HandlerInv, BeforeCommit
  <2>4. QED
    BY <1>1, <2>1, <2>2, <2>3, MoveKeepsOrder DEF Place
<1>6. QED
  BY <1>2, <1>3, <1>4, <1>5

LEMMA CommittingOrder ==
  ASSUME FeedInv, OrderInv, NEW f \in Frame,
         CommitProcessing(f) \/ CommitResult(f) \/ CommitReady(f)
  PROVE  OrderInv'
<1>1. UNCHANGED <<blurred, stored, extracted, clock, shown>>
  BY DEF CommitProcessing, CommitResult, CommitReady, pushing
<1>2. CASE CommitProcessing(f)
  BY <1>1, <1>2, CommitKeepsOrder DEF CommitProcessing
<1>3. CASE CommitResult(f)
  <2> DEFINE place == IF seen[f].extracted THEN "check" ELSE "done"
  <2>1. Commit(f, place) /\ pc[f] = "persisting" /\ rows' = rows \cup {f}
    BY <1>3 DEF CommitResult
  <2>2. place \in {"check", "done"} /\ (place = "check" => seen[f].extracted)
    OBVIOUS
  <2> HIDE DEF place
  <2>3. QED
    BY <1>1, <2>1, <2>2, CommitKeepsOrder
<1>4. CASE CommitReady(f)
  BY <1>1, <1>4, CommitKeepsOrder DEF CommitReady
<1>5. QED
  BY <1>2, <1>3, <1>4

LEMMA OtherStepsKeepOrder ==
  ASSUME FeedInv, OrderInv,
         \/ ExtractionEnds \/ \E f \in Frame : StoreFrame(f)
         \/ \E e \in events : Push(e) \/ PushFails(e)
         \/ UNCHANGED vars
  PROVE  OrderInv'
<1>1. /\ UNCHANGED <<blurred, rows, job, clock, events, pc, seen, lost>>
      /\ shown' = shown \/ shown' \in events
      /\ extracted => extracted' /\ stored' = stored
      /\ extracted' => stored' = Frame
  <2>1. CASE ExtractionEnds \/ UNCHANGED vars
    BY <2>1 DEF ExtractionEnds, pushing, writing, vars, OrderInv
  <2>2. CASE \E f \in Frame : StoreFrame(f)
    BY <2>2 DEF StoreFrame, pushing
  <2>3. CASE \E e \in events : Push(e) \/ PushFails(e)
    BY <2>3 DEF Push, PushFails, writing, OrderInv
  <2>4. QED
    BY <2>1, <2>2, <2>3
<1>2. ASSUME NEW f \in Frame PROVE HandlerInv(f, pc[f], seen[f])' /\ seen'[f].stamp <= clock'
  BY <1>1 DEF OrderInv, HandlerInv, Repeatable
<1>3. StampOrder => StampOrder'
  BY <1>1 DEF StampOrder, Succeeded
<1>4. QED
  BY <1>1, <1>2, <1>3 DEF OrderInv, Repeatable

LEMMA OrderStep ==
  ASSUME FeedInv, OrderInv, [Next]_vars
  PROVE  OrderInv'
<1>1. ASSUME NEW f \in Frame, PersistFrame(f) PROVE OrderInv'
  BY <1>1, ReadingOrder, RecordingOrder, CommittingOrder DEF PersistFrame
<1>2. QED
  BY <1>1, OtherStepsKeepOrder DEF Next

\* A client that saw the success of the job keeps it, in whatever order the worker pushes
\* what PersistFrame recorded: every other event carries an earlier occurredAt, unless a
\* failed result was persisted again after a lost answer.
THEOREM SuccessStaysShownTheorem == Spec => SuccessStaysShown
<1>1. FeedInv /\ OrderInv /\ [Next]_vars => OrderInv'
  BY OrderStep
<1>2. FeedInv /\ OrderInv /\ [Next]_vars =>
        [JobOf(shown).status = "success" /\ JobOf(shown').status # "success" =>
           lost > 0 /\ blurred # {}]_vars
  <2> SUFFICES ASSUME FeedInv, OrderInv, Next, JobOf(shown).status = "success", ~(lost > 0 /\ blurred # {})
               PROVE  JobOf(shown').status = "success"
    OBVIOUS
  <2>1. ~Repeatable
    BY DEF Repeatable, FeedInv, FeedTypes
  <2>2. ASSUME NEW e \in events, Push(e) PROVE JobOf(shown').status = "success"
    <3>1. shown \in events /\ Succeeded(shown)
      BY DEF OrderInv, NoEvent, JobOf, Succeeded
    <3>2. StampOf(e) > StampOf(shown) /\ shown' = e
      BY <2>2 DEF Push
    <3>3. StampOf(e) \in 1 .. clock /\ StampOf(shown) \in 1 .. clock
      BY <3>1 DEF OrderInv
    <3>4. Succeeded(e)
      BY <2>1, <3>1, <3>2, <3>3 DEF OrderInv, StampOrder
    <3>5. QED
      BY <3>2, <3>4 DEF Succeeded
  <2>3. CASE UNCHANGED shown
    BY <2>3
  <2>4. QED
    BY <2>2, <2>3 DEF Next, PersistFrame, ExtractionEnds, StoreFrame, LoadFrameJob, LoadOCRJob,
       ListRows, MarkProcessing, CommitProcessing, PersistResult, CommitResult, CheckComplete,
       MarkReady, CommitReady, PushFails, pushing
<1>3. QED
  BY FeedAlways, InitOrder, <1>1, <1>2, PTL DEF Spec, SuccessStaysShown

--------------------------------------------------------------------------------
(* The bounds: counts never exceed the results and the lost answers, and the stamps *)
(* never run out, for each attempt has at most three of them still to take.         *)

Due(place) ==
  CASE place \in {"load", "job", "list", "mark"} -> 3
    [] place \in {"marking", "persist"} -> 2
    [] place \in {"persisting", "check", "conclude"} -> 1
    [] OTHER -> 0

\* The sum of what is due, as the handlers that have one stamp to take, two and three.
Behind(k) == {f \in Frame : Due(pc[f]) >= k}
Dues == Cardinality(Behind(1)) + Cardinality(Behind(2)) + Cardinality(Behind(3))

BoundsInv ==
  /\ blurred \subseteq Blurrable
  /\ rows \subseteq stored
  /\ \A f \in Frame : pc[f] # "load" => f \in stored
  /\ lost \in 0 .. MaxLost
  /\ refused \in [Stamp -> 0 .. MaxRetries + 1]
  /\ events \subseteq AnyJob \X Nat
  /\ clock + Dues <= 3 * (Cardinality(Frame) + lost)

LEMMA BehindMoves ==
  ASSUME FeedTypes, NEW f \in Frame, NEW place \in Place, pc' = [pc EXCEPT ![f] = place],
         NEW k \in 1 .. 3
  PROVE  /\ Cardinality(Behind(k)) \in Nat
         /\ Cardinality(Behind(k)') = Cardinality(Behind(k)) - (IF Due(pc[f]) >= k THEN 1 ELSE 0)
                                                            + (IF Due(place) >= k THEN 1 ELSE 0)
<1>1. IsFiniteSet(Behind(k)) /\ Cardinality(Behind(k)) \in Nat
  BY ProgressFeedAssumption, FS_Subset, FS_CardinalityType DEF Behind
<1>2. f \in Behind(k) <=> Due(pc[f]) >= k
  BY DEF Behind
<1>3. CASE Due(place) >= k
  <2>1. Behind(k)' = Behind(k) \cup {f}
    BY <1>3 DEF Behind, FeedTypes
  <2>2. Cardinality(Behind(k)') = IF f \in Behind(k) THEN Cardinality(Behind(k)) ELSE Cardinality(Behind(k)) + 1
    BY <1>1, <2>1, FS_AddElement
  <2>3. QED
    BY <1>1, <1>2, <1>3, <2>2
<1>4. CASE ~(Due(place) >= k)
  <2>1. Behind(k)' = Behind(k) \ {f}
    BY <1>4 DEF Behind, FeedTypes
  <2>2. Cardinality(Behind(k)') = IF f \in Behind(k) THEN Cardinality(Behind(k)) - 1 ELSE Cardinality(Behind(k))
    BY <1>1, <2>1, FS_RemoveElement
  <2>3. QED
    BY <1>1, <1>2, <1>4, <2>2
<1>5. QED
  BY <1>1, <1>3, <1>4

LEMMA DuesMove ==
  ASSUME FeedTypes, NEW f \in Frame, NEW place \in Place, pc' = [pc EXCEPT ![f] = place]
  PROVE  Dues \in Nat /\ Dues' = Dues - Due(pc[f]) + Due(place)
<1>1. \A p \in Place : Due(p) \in 0 .. 3
  BY DEF Place, Due
<1>2. pc[f] \in Place
  BY DEF FeedTypes
<1>3. PICK a \in 0 .. 3, b \in 0 .. 3 : Due(pc[f]) = a /\ Due(place) = b
  BY <1>1, <1>2
<1>4. \A k \in 1 .. 3 :
        /\ Cardinality(Behind(k)) \in Nat
        /\ Cardinality(Behind(k)') = Cardinality(Behind(k)) - (IF a >= k THEN 1 ELSE 0) + (IF b >= k THEN 1 ELSE 0)
  BY <1>3, BehindMoves
<1>5. /\ Cardinality(Behind(1)) \in Nat /\ Cardinality(Behind(2)) \in Nat /\ Cardinality(Behind(3)) \in Nat
      /\ Cardinality(Behind(1)') = Cardinality(Behind(1)) - (IF a >= 1 THEN 1 ELSE 0) + (IF b >= 1 THEN 1 ELSE 0)
      /\ Cardinality(Behind(2)') = Cardinality(Behind(2)) - (IF a >= 2 THEN 1 ELSE 0) + (IF b >= 2 THEN 1 ELSE 0)
      /\ Cardinality(Behind(3)') = Cardinality(Behind(3)) - (IF a >= 3 THEN 1 ELSE 0) + (IF b >= 3 THEN 1 ELSE 0)
  BY <1>4
<1>6. /\ Dues = Cardinality(Behind(1)) + Cardinality(Behind(2)) + Cardinality(Behind(3))
      /\ Dues' = Cardinality(Behind(1)') + Cardinality(Behind(2)') + Cardinality(Behind(3)')
  BY DEF Dues
<1>7. QED
  BY <1>3, <1>5, <1>6

\* What a step of a handler does to the clock and to the answers lost: it takes a stamp
\* that was due, or loses an answer, and may have to take three once more.
LEMMA HandlerMoves ==
  ASSUME FeedInv, NEW f \in Frame, PersistFrame(f)
  PROVE  \E place \in Place :
           /\ pc' = [pc EXCEPT ![f] = place]
           /\ \/ clock' = clock /\ lost' = lost /\ Due(place) <= Due(pc[f])
              \/ clock' = clock + 1 /\ lost' = lost /\ Due(place) < Due(pc[f])
              \/ clock' = clock /\ lost < MaxLost /\ lost' = lost + 1
<1>1. CASE LoadFrameJob(f) \/ LoadOCRJob(f) \/ ListRows(f) \/ CheckComplete(f)
  BY <1>1 DEF LoadFrameJob, LoadOCRJob, ListRows, CheckComplete, Proceed, Place, Due
<1>2. CASE MarkProcessing(f) \/ PersistResult(f) \/ MarkReady(f)
  BY <1>2 DEF MarkProcessing, PersistResult, MarkReady, RecordEvent, Proceed, Place, Due
<1>3. CASE CommitProcessing(f)
  BY <1>3 DEF CommitProcessing, Commit, Proceed, Place, Due
<1>4. CASE CommitResult(f)
  BY <1>4 DEF CommitResult, Commit, Proceed, Place, Due
<1>5. CASE CommitReady(f)
  BY <1>5 DEF CommitReady, Commit, Proceed, Place, Due
<1>6. QED
  BY <1>1, <1>2, <1>3, <1>4, <1>5 DEF PersistFrame

LEMMA HandlerKeepsBounds ==
  ASSUME FeedInv, BoundsInv, NEW f \in Frame, PersistFrame(f)
  PROVE  BoundsInv'
<1>1. PICK place \in Place :
        /\ pc' = [pc EXCEPT ![f] = place]
        /\ \/ clock' = clock /\ lost' = lost /\ Due(place) <= Due(pc[f])
           \/ clock' = clock + 1 /\ lost' = lost /\ Due(place) < Due(pc[f])
           \/ clock' = clock /\ lost < MaxLost /\ lost' = lost + 1
  BY HandlerMoves
<1>2. FeedTypes /\ clock \in Nat /\ lost \in 0 .. MaxLost /\ Cardinality(Frame) \in Nat /\ MaxLost \in Nat
  BY ProgressFeedAssumption, FS_CardinalityType DEF FeedInv, FeedTypes, BoundsInv
<1>3. UNCHANGED <<blurred, stored, refused>> /\ f \in stored /\ (rows' = rows \/ rows' = rows \cup {f})
  BY DEF PersistFrame, LoadFrameJob, LoadOCRJob, ListRows, MarkProcessing, CommitProcessing, PersistResult,
     CommitResult, CheckComplete, MarkReady, CommitReady, pushing, BoundsInv
<1>4. events' \subseteq AnyJob \X Nat
  <2>1. <<seen[f].job, seen[f].stamp>> \in AnyJob \X Nat
    BY <1>2 DEF FeedTypes, Copy
  <2>2. events' \subseteq events \cup {<<seen[f].job, seen[f].stamp>>}
    BY DEF PersistFrame, LoadFrameJob, LoadOCRJob, ListRows, MarkProcessing, CommitProcessing, PersistResult,
       CommitResult, CheckComplete, MarkReady, CommitReady, Commit
  <2>3. QED
    BY <2>1, <2>2 DEF BoundsInv
<1>5. \A g \in Frame : pc'[g] # "load" => g \in stored
  BY <1>1, <1>2, <1>3 DEF BoundsInv, FeedTypes
<1>6. clock' + Dues' <= 3 * (Cardinality(Frame) + lost') /\ lost' \in 0 .. MaxLost
  <2>1. Dues \in Nat /\ Dues' = Dues - Due(pc[f]) + Due(place)
    BY <1>1, <1>2, DuesMove
  <2>2. Due(place) \in 0 .. 3 /\ Due(pc[f]) \in 0 .. 3
    BY <1>2 DEF Due, Place, FeedTypes
  <2>3. clock + Dues <= 3 * (Cardinality(Frame) + lost)
    BY DEF BoundsInv
  <2>4. QED
    BY <1>1, <1>2, <2>1, <2>2, <2>3
<1>7. QED
  BY <1>3, <1>4, <1>5, <1>6 DEF BoundsInv

LEMMA OtherStepsKeepBounds ==
  ASSUME FeedInv, BoundsInv,
         \/ ExtractionEnds \/ \E f \in Frame : StoreFrame(f)
         \/ \E e \in events : Push(e) \/ PushFails(e)
         \/ UNCHANGED vars
  PROVE  BoundsInv'
<1>1. /\ UNCHANGED <<blurred, rows, clock, events, pc, lost>>
      /\ stored \subseteq stored'
  BY DEF ExtractionEnds, StoreFrame, Push, PushFails, pushing, writing, vars
<1>2. refused' \in [Stamp -> 0 .. MaxRetries + 1]
  <2>1. CASE \E e \in events : PushFails(e)
    <3>1. PICK e \in events : PushFails(e)
      BY <2>1
    <3>2. refused' = [refused EXCEPT ![StampOf(e)] = @ + 1] /\ ~(refused[StampOf(e)] > MaxRetries)
      BY <3>1 DEF PushFails, DeadLettered
    <3>3. refused \in [Stamp -> 0 .. MaxRetries + 1] /\ MaxRetries \in Nat
      BY ProgressFeedAssumption DEF BoundsInv
    <3>4. CASE StampOf(e) \in Stamp
      <4>1. refused[StampOf(e)] \in 0 .. MaxRetries
        BY <3>2, <3>3, <3>4
      <4>2. refused[StampOf(e)] + 1 \in 0 .. MaxRetries + 1
        BY <3>3, <4>1
      <4>3. QED
        BY <3>2, <3>3, <4>2
    <3>5. CASE StampOf(e) \notin Stamp
      BY <3>2, <3>3, <3>5
    <3>6. QED
      BY <3>4, <3>5
  <2>2. CASE refused' = refused
    BY <2>2 DEF BoundsInv
  <2>3. QED
    BY <2>1, <2>2 DEF ExtractionEnds, StoreFrame, Push, pushing, vars
<1>3. Dues' = Dues
  BY <1>1 DEF Dues, Behind
<1>4. QED
  BY <1>1, <1>2, <1>3 DEF BoundsInv

LEMMA InitBounds == Init => BoundsInv
<1> SUFFICES ASSUME Init PROVE BoundsInv
  OBVIOUS
<1>1. Behind(1) = Frame /\ Behind(2) = Frame /\ Behind(3) = Frame
  BY DEF Init, Behind, Due
<1>2. Cardinality(Frame) \in Nat
  BY ProgressFeedAssumption, FS_CardinalityType
<1>3. clock + Dues <= 3 * (Cardinality(Frame) + lost)
  BY <1>1, <1>2 DEF Dues, Init
<1>4. refused \in [Stamp -> 0 .. MaxRetries + 1]
  BY ProgressFeedAssumption DEF Init
<1>5. QED
  BY <1>3, <1>4, ProgressFeedAssumption DEF Init, BoundsInv

LEMMA BoundsStep ==
  ASSUME FeedInv, BoundsInv, [Next]_vars
  PROVE  BoundsInv'
<1>1. ASSUME NEW f \in Frame, PersistFrame(f) PROVE BoundsInv'
  BY <1>1, HandlerKeepsBounds
<1>2. QED
  BY <1>1, OtherStepsKeepBounds DEF Next

\* What is backed, and what a handler is about to add to it, stays within the results and
\* the lost answers.
LEMMA BackingIsBounded ==
  ASSUME FeedInv, BoundsInv
  PROVE  /\ Cardinality(Frame) \in Nat /\ MaxLost \in Nat
         /\ Backing \in Int /\ Backing <= Cardinality(Frame) + MaxLost
         /\ \A f \in Frame : seen[f].job.completed <= Cardinality(Frame) + MaxLost
<1>1. /\ FeedTypes /\ IsFiniteSet(Frame) /\ Cardinality(Frame) \in Nat /\ MaxLost \in Nat
      /\ lost \in 0 .. MaxLost
  BY ProgressFeedAssumption, FS_CardinalityType DEF FeedInv, BoundsInv
<1>2. /\ Cardinality(rows) \in Nat /\ Cardinality(Owed) \in Nat /\ Extra \in 0 .. lost
      /\ Cardinality(Owed) <= Extra
  BY <1>1, Sizes DEF Extra, FeedInv
<1>3. Cardinality(rows) <= Cardinality(Frame)
  BY <1>1, FS_Subset DEF FeedTypes
<1>4. Backing \in Int /\ Backing <= Cardinality(Frame) + MaxLost
  BY <1>1, <1>2, <1>3 DEF Backing
<1>5. ASSUME NEW f \in Frame PROVE seen[f].job.completed <= Cardinality(Frame) + MaxLost
  <2>1. CopyInv(f, pc[f], seen[f]) /\ seen[f].job.completed \in Nat
    BY <1>1 DEF FeedInv, FeedTypes, Copy, AnyJob
  <2>2. CASE Adding(pc[f], seen[f], f) = 0
    BY <1>1, <1>4, <2>1, <2>2 DEF CopyInv
  <2>3. CASE Adding(pc[f], seen[f], f) # 0
    <3>1. pc[f] = "persisting" /\ f \notin seen[f].rows \ blurred /\ Adding(pc[f], seen[f], f) = 1
      BY <2>3 DEF Adding
    <3>2. f \notin rows \/ f \in Owed
      BY <2>1, <3>1 DEF CopyInv, Owed, BeforeCommit
    <3>3. CASE f \notin rows
      <4>1. Cardinality(rows \cup {f}) <= Cardinality(Frame)
        BY <1>1, FS_Subset DEF FeedTypes
      <4>2. Cardinality(rows \cup {f}) = Cardinality(rows) + 1
        BY <1>1, <3>3, OneMore
      <4>3. QED
        BY <1>1, <1>2, <2>1, <3>1, <4>1, <4>2 DEF CopyInv, Backing
    <3>4. CASE f \in Owed
      <4>1. Cardinality(Owed) # 0
        BY <1>1, <3>4, Sizes, FS_EmptySet
      <4>2. Backing + 1 <= Cardinality(rows) + Extra
        BY <1>2, <4>1 DEF Backing
      <4>3. seen[f].job.completed <= Backing + 1
        BY <2>1, <3>1 DEF CopyInv
      <4>4. QED
        BY <1>1, <1>2, <1>3, <1>4, <2>1, <4>2, <4>3
    <3>5. QED
      BY <3>2, <3>3, <3>4
  <2>4. QED
    BY <2>2, <2>3
<1>6. QED
  BY <1>1, <1>4, <1>5

\* The types with their bounds: there is room in Count for every count and in Stamp for
\* every stamp, for any number of frames, lost answers, retries and refusals.
THEOREM FeedTypeCorrect == Spec => []TypeOK
<1>1. FeedInv /\ OrderInv /\ BoundsInv => TypeOK
  <2> SUFFICES ASSUME FeedInv, OrderInv, BoundsInv PROVE TypeOK
    OBVIOUS
  <2>1. /\ FeedTypes /\ Backing \in Int /\ Backing <= Cardinality(Frame) + MaxLost
        /\ Cardinality(Frame) \in Nat /\ MaxLost \in Nat /\ lost \in 0 .. MaxLost
    BY BackingIsBounded DEF FeedInv, BoundsInv
  <2>2. \A j \in AnyJob : j.completed <= Cardinality(Frame) + MaxLost => j \in Job
    BY <2>1 DEF AnyJob, JobStatus, Job, Count
  <2>3. clock \in Nat /\ clock <= 3 * (Cardinality(Frame) + MaxLost)
    <3>1. Dues \in Nat
      <4>1. \A k \in 1 .. 3 : Cardinality(Behind(k)) \in Nat
        BY ProgressFeedAssumption, FS_Subset, FS_CardinalityType DEF Behind
      <4>2. QED
        BY <4>1 DEF Dues
    <3>2. clock \in Nat
      BY <2>1 DEF FeedTypes
    <3>3. QED
      BY <2>1, <3>1, <3>2 DEF BoundsInv
  <2>4. 1 .. clock \subseteq Stamp /\ 0 .. clock \subseteq Stamp \cup {0} /\ clock \in Stamp \cup {0}
    BY <2>1, <2>3 DEF Stamp
  <2>5. job \in Job
    <3>1. job \in AnyJob /\ job.completed \in Nat /\ job.completed <= Backing
      BY <2>1 DEF FeedInv, FeedTypes, AnyJob
    <3>2. QED
      BY <2>1, <2>2, <3>1
  <2>6. ASSUME NEW e \in events PROVE e \in Event
    <3>1. e = <<JobOf(e), StampOf(e)>> /\ JobOf(e) \in AnyJob
      BY DEF BoundsInv, JobOf, StampOf
    <3>2. JobOf(e).completed \in Nat /\ JobOf(e).completed <= Backing
      BY <3>1 DEF FeedInv, AnyJob
    <3>3. JobOf(e) \in Job
      BY <2>1, <2>2, <3>1, <3>2
    <3>4. StampOf(e) \in Stamp
      BY <2>4 DEF OrderInv
    <3>5. QED
      BY <3>1, <3>3, <3>4 DEF Event
  <2>7. ASSUME NEW f \in Frame
        PROVE  seen[f] \in [extracted : BOOLEAN, job : Job, frames : SUBSET Frame,
                            rows : SUBSET Frame, stamp : Stamp \cup {0}]
    <3>1. seen[f] \in Copy /\ seen[f].job \in AnyJob /\ seen[f].stamp \in 0 .. clock
      BY <2>1, <2>3 DEF FeedTypes, Copy, OrderInv
    <3>2. seen[f].job \in Job
      BY <2>2, <3>1, BackingIsBounded
    <3>3. seen[f].stamp \in Stamp \cup {0}
      BY <2>4, <3>1
    <3>4. QED
      BY <3>1, <3>2, <3>3 DEF Copy
  <2>8. shown \in Event \cup {NoEvent}
    BY <2>6 DEF OrderInv
  <2>9. seen \in [Frame -> [extracted : BOOLEAN, job : Job, frames : SUBSET Frame,
                            rows : SUBSET Frame, stamp : Stamp \cup {0}]]
    BY <2>1, <2>7 DEF FeedTypes
  <2>10. QED
    BY <2>1, <2>4, <2>5, <2>6, <2>8, <2>9 DEF TypeOK, FeedTypes, BoundsInv, Place
<1>2. FeedInv /\ BoundsInv /\ [Next]_vars => BoundsInv'
  BY BoundsStep
<1>3. FeedInv /\ OrderInv /\ [Next]_vars => OrderInv'
  BY OrderStep
<1>4. QED
  BY FeedAlways, InitOrder, InitBounds, <1>1, <1>2, <1>3, PTL DEF Spec
================================================================================
