----------------------------- MODULE ClientProofs -----------------------------
(***************************************************************************)
(* What the client of the API can count on: its upload is started once,    *)
(* for any videos, PUTs and retries (UploadLifecycle), and what it reads   *)
(* of its videos is not cut short, for any number of them, any page size   *)
(* and any course of the pipeline (VideoQueries).                          *)
(***************************************************************************)
EXTENDS UploadLifecycle, VideoQueries, FiniteSetTheorems, TLAPS

--------------------------------------------------------------------------------
(* UploadLifecycle *)

\* The inductive invariant: the properties, and why the ticker's stale list does no
\* worse than it does: who is on it exists, and has not expired yet.
UploadInv ==
  /\ TypeOK
  /\ StartedOnce
  /\ PendingIsFresh
  /\ ExpiredOnce
  /\ IngestSettles
  /\ \A v \in Video : ingest[v] # "none" => video[v] # "absent"
  /\ \A v \in Video : video[v] \in {"processing", "success"} => v \in segmentJob
  /\ \A v \in expiring : video[v] # "absent" /\ expired[v] = 0

LEMMA UploadInit == Init => UploadInv
BY UploadLifecycleAssumption
   DEF Init, UploadInv, TypeOK, StartedOnce, PendingIsFresh, ExpiredOnce, IngestSettles, Status

\* What the transaction of ConfirmUpload can do: start the video, or nothing but
\* find it started.
LEMMA ConfirmCases ==
  ASSUME TypeOK, NEW v \in Video, ConfirmUpload(v)
  PROVE  /\ video[v] # "absent"
         /\ segmentJob' = segmentJob \cup {v}
         /\ \/ /\ video[v] = "pending"
               /\ video' = [video EXCEPT ![v] = "processing"]
               /\ uploaded' = [uploaded EXCEPT ![v] = @ + 1]
            \/ /\ video[v] \in {"processing", "success"}
               /\ UNCHANGED <<video, uploaded>>
<1> DEFINE upload == MarkUploaded(video[v])
<1>1. /\ video[v] # "absent"
      /\ upload.ok
      /\ video' = [video EXCEPT ![v] = upload.status]
      /\ segmentJob' = segmentJob \cup {v}
      /\ uploaded' = IF upload.emits THEN [uploaded EXCEPT ![v] = @ + 1] ELSE uploaded
  BY DEF ConfirmUpload
<1>2. CASE video[v] = "pending"
  <2>1. upload.status = "processing" /\ upload.emits = TRUE
    BY <1>2 DEF MarkUploaded, Transition
  <2>2. QED
    BY <1>1, <1>2, <2>1
<1>3. CASE video[v] # "pending"
  <2>1. upload.status = video[v] /\ ~upload.emits
    BY <1>3 DEF MarkUploaded, Transition
  <2>2. upload.ok => video[v] \in {"processing", "success"}
    BY <1>3 DEF MarkUploaded, Transition
  <2>3. video' = video
    <3>1. video' = [video EXCEPT ![v] = video[v]]
      BY <1>1, <2>1
    <3>2. QED
      BY <3>1 DEF TypeOK
  <2>4. uploaded' = uploaded
    BY <1>1, <2>1
  <2>5. QED
    BY <1>1, <2>2, <2>3, <2>4
<1>4. QED
  BY <1>2, <1>3

LEMMA UploadStep == UploadInv /\ [Next]_vars => UploadInv'
<1> SUFFICES ASSUME UploadInv, [Next]_vars PROVE UploadInv'
  OBVIOUS
<1> USE UploadLifecycleAssumption
    DEF UploadInv, TypeOK, StartedOnce, PendingIsFresh, ExpiredOnce, IngestSettles,
        Status, clientVars, ingestVars
<1>1. ASSUME NEW v \in Video, Client(v) PROVE UploadInv'
  <2>1. CASE RequestUploadURL(v)
    BY <2>1 DEF RequestUploadURL
  <2>2. CASE RequestIngest(v)
    BY <2>2 DEF RequestIngest
  <2>3. CASE TTLPasses(v)
    BY <2>3 DEF TTLPasses
  <2>4. CASE ClientPut(v)
    BY <2>4 DEF ClientPut
  <2>5. QED
    BY <1>1, <2>1, <2>2, <2>3, <2>4 DEF Client
<1>2. ASSUME NEW v \in Video, ObjectCreated(v) PROVE UploadInv'
  <2>1. notes' \in [Video -> Nat]
    BY <1>2 DEF ObjectCreated, Notified
  <2>2. CASE ConfirmUpload(v)
    BY <1>2, <2>1, <2>2, ConfirmCases DEF ObjectCreated
  <2>3. CASE ConfirmRefused(v)
    BY <1>2, <2>1, <2>3 DEF ObjectCreated, ConfirmRefused
  <2>4. QED
    BY <1>2, <2>2, <2>3 DEF ObjectCreated
<1>3. ASSUME NEW v \in Video, ObjectTooLarge(v) PROVE UploadInv'
  BY <1>3 DEF ObjectTooLarge
<1>4. ASSUME NEW v \in Video, Ingest(v) PROVE UploadInv'
  <2>1. CASE IngestLoad(v)
    BY <2>1 DEF IngestLoad
  <2>2. CASE IngestRefused(v)
    BY <2>2 DEF IngestRefused
  <2>3. CASE IngestFetchFails(v)
    BY <2>3 DEF IngestFetchFails, IngestRetried
  <2>4. CASE IngestPut(v)
    BY <2>4 DEF IngestPut
  <2>5. CASE IngestConfirm(v)
    BY <2>5, ConfirmCases DEF IngestConfirm
  <2>6. CASE IngestConfirmFails(v)
    BY <2>6 DEF IngestConfirmFails, IngestRetried
  <2>7. CASE IngestCrash(v)
    BY <2>7 DEF IngestCrash
  <2>8. QED
    BY <1>4, <2>1, <2>2, <2>3, <2>4, <2>5, <2>6, <2>7 DEF Ingest
<1>5. ASSUME NEW v \in Video, Expiry(v) PROVE UploadInv'
  <2>1. CASE ExpireUpload(v)
    BY <2>1 DEF ExpireUpload, MarkUploadExpired, Transition
  <2>2. CASE ExpireFails(v)
    BY <2>2 DEF ExpireFails
  <2>3. QED
    BY <1>5, <2>1, <2>2 DEF Expiry
<1>6. ASSUME NEW v \in Video, PipelineMoves(v) PROVE UploadInv'
  BY <1>6 DEF PipelineMoves
<1>7. CASE ListExpiredPending
  BY <1>7 DEF ListExpiredPending
<1>8. CASE UNCHANGED vars
  BY <1>8 DEF vars
<1>9. QED
  BY <1>1, <1>2, <1>3, <1>4, <1>5, <1>6, <1>7, <1>8 DEF Next

LEMMA UploadInvariant == Spec => []UploadInv
BY UploadInit, UploadStep, PTL DEF Spec

\* The variables keep their types in every behaviour.
THEOREM UploadTypeCorrect == Spec => []TypeOK
<1>1. UploadInv => TypeOK
  BY DEF UploadInv
<1>2. QED
  BY <1>1, UploadInvariant, PTL

\* Webhook, ingest worker and expiry ticker together start the pipeline at most
\* once for a video, and never without its segment job.
THEOREM StartedOnceTheorem == Spec => []StartedOnce
<1>1. UploadInv => StartedOnce
  BY DEF UploadInv
<1>2. QED
  BY <1>1, UploadInvariant, PTL

\* The expiry ticker, whose list may be out of date, fails a video at most once.
THEOREM ExpiredOnceTheorem == Spec => []ExpiredOnce
<1>1. UploadInv => ExpiredOnce
  BY DEF UploadInv
<1>2. QED
  BY <1>1, UploadInvariant, PTL

\* A handled ingest event leaves no video waiting for its upload.
THEOREM IngestSettlesTheorem == Spec => []IngestSettles
<1>1. UploadInv => IngestSettles
  BY DEF UploadInv
<1>2. QED
  BY <1>1, UploadInvariant, PTL

\* No row comes back to pending once it was started or expired.
THEOREM PendingIsFreshTheorem == Spec => []PendingIsFresh
<1>1. UploadInv => PendingIsFresh
  BY DEF UploadInv
<1>2. QED
  BY <1>1, UploadInvariant, PTL

\* After an expiry no late notification and no retried ingest starts the pipeline:
\* the row is not pending any more, and MarkUploaded emits from pending only.
LEMMA UnstartedStep ==
  UploadInv /\ [Next]_vars =>
    \A v \in Video : expired[v] > 0 => uploaded'[v] = uploaded[v]
<1> SUFFICES ASSUME UploadInv, [Next]_vars, NEW v \in Video, expired[v] > 0
             PROVE  uploaded'[v] = uploaded[v]
  OBVIOUS
<1>1. video[v] # "pending"
  BY DEF UploadInv, PendingIsFresh, TypeOK
<1>2. ASSUME NEW u \in Video, ConfirmUpload(u) PROVE uploaded'[v] = uploaded[v]
  <2>1. CASE u = v
    BY <1>1, <1>2, <2>1, ConfirmCases DEF UploadInv
  <2>2. CASE u # v
    BY <1>2, <2>2, ConfirmCases DEF UploadInv, TypeOK
  <2>3. QED
    BY <2>1, <2>2
<1>3. ASSUME NEW u \in Video, ObjectCreated(u) \/ IngestConfirm(u)
      PROVE  uploaded'[v] = uploaded[v]
  BY <1>2, <1>3 DEF ObjectCreated, IngestConfirm, ConfirmRefused
<1>4. ASSUME NEW u \in Video,
             \/ Client(u) \/ ObjectTooLarge(u) \/ Expiry(u) \/ PipelineMoves(u)
             \/ Ingest(u) /\ ~IngestConfirm(u)
      PROVE  uploaded' = uploaded
  BY <1>4 DEF Client, RequestUploadURL, RequestIngest, TTLPasses, ClientPut, ObjectTooLarge,
     Expiry, ExpireUpload, ExpireFails, PipelineMoves, Ingest, IngestLoad, IngestRefused,
     IngestFetchFails, IngestPut, IngestConfirmFails, IngestCrash
<1>5. CASE ListExpiredPending \/ UNCHANGED vars
  BY <1>5 DEF ListExpiredPending, vars
<1>6. QED
  BY <1>3, <1>4, <1>5 DEF Next

\* A confirmation that arrives after the expiry ticker failed the upload does not start
\* the pipeline (ExpireStaleUploads, ConfirmUpload).
THEOREM ExpiredStaysUnstartedTheorem == Spec => ExpiredStaysUnstarted
<1>1. UploadInv /\ [Next]_vars =>
        [\A v \in Video : expired[v] > 0 => uploaded'[v] = uploaded[v]]_vars
  BY UnstartedStep
<1>2. QED
  BY <1>1, UploadInvariant, PTL DEF Spec, ExpiredStaysUnstarted

--------------------------------------------------------------------------------
(* VideoQueries: the list and the details *)

PageSize == Normalize(query.limit)
Passed == Offset(page, PageSize)

\* The place of a video in the order of the list, and who stands behind a place.
Position(v) == Cardinality(UpTo(v))
Behind(place) == {v \in videos : Position(v) > place}

\* Where the walk through the pages is: of the videos that were there at the beginning it
\* has been shown those that stand on the pages it has passed, be they where they were or
\* pushed on meanwhile; and the total it has read is short of what appeared since.
WalkInv ==
  /\ first \subseteq videos
  /\ counted # Unread => ~ended /\ Cardinality(videos) = counted + since
  /\ ~ended => \A v \in first : Position(v) <= Passed => v \in shown
  /\ NoneSkipped

\* What the pipeline keeps to once the video is in success, and what the first statement
\* of the details has found.
Finished == jobs["frame"] = "success" /\ recognised = frames

ViewInv ==
  /\ status = "success" => Finished
  /\ detail.is = "found" => detail.frameCount <= frames /\ (detail.status = "success" => Finished)
  /\ DetailNeverShort

LEMMA PageSizeType ==
  ASSUME QueriesTypeOK
  PROVE  PageSize \in Nat /\ PageSize >= 1
<1>1. query \in [limit : Limits \cup {0}, order : {"asc", "desc", "none"}, until : {"total", "short"}]
  BY DEF QueriesTypeOK, Query
<1>2. query.limit \in Int
  <2>1. PICK limit \in Limits \cup {0} : query.limit = limit
    BY <1>1
  <2>2. Limits \cup {0} \subseteq Int
    BY VideoQueriesAssumption
  <2>3. QED
    BY <2>1, <2>2
<1>3. QED
  BY <1>2, VideoQueriesAssumption DEF PageSize, Normalize

LEMMA PassedType ==
  ASSUME NEW number \in Nat, NEW limit \in Nat, number >= 1, limit >= 1
  PROVE  /\ Offset(number, limit) \in Nat
         /\ Offset(number + 1, limit) = Offset(number, limit) + limit
         /\ number <= Offset(number + 1, limit)
<1>1. PICK k \in Nat : k = number - 1
  OBVIOUS
<1>2. k * limit \in Nat /\ (k + 1) * limit = k * limit + limit /\ k <= k * limit
  OBVIOUS
<1>3. Offset(number, limit) = k * limit /\ Offset(number + 1, limit) = (k + 1) * limit
  BY <1>1 DEF Offset
<1>4. QED
  BY <1>1, <1>2, <1>3

\* The pages that are counted hold what is counted, and no page but the last is spared.
LEMMA PagesHoldTheTotal ==
  ASSUME NEW total \in Nat, NEW limit \in Nat, limit >= 1, NEW number \in Nat, number >= 1
  PROVE  IF number >= TotalPages(total, limit)
         THEN total <= Offset(number + 1, limit)
         ELSE Offset(number + 1, limit) < total
<1>1. PICK pages \in Nat : /\ pages = TotalPages(total, limit)
                           /\ pages * limit <= total + limit - 1
                           /\ total + limit - 1 < (pages + 1) * limit
  BY Z3 DEF TotalPages
<1>2. \A x, y \in Nat : x <= y => x * limit <= y * limit
  OBVIOUS
<1>3. number * limit = Offset(number + 1, limit) /\ number * limit \in Nat
  BY DEF Offset
<1>4. pages * limit \in Nat /\ (pages + 1) * limit = pages * limit + limit
  OBVIOUS
<1>5. CASE number >= pages
  <2>1. pages * limit <= number * limit
    BY <1>2, <1>5
  <2>2. QED
    BY <2>1, <1>1, <1>3, <1>4, <1>5
<1>6. CASE number < pages
  <2>1. (number + 1) * limit <= pages * limit /\ (number + 1) * limit = number * limit + limit
    BY <1>2, <1>6
  <2>2. QED
    BY <2>1, <1>1, <1>3, <1>4, <1>6
<1>7. QED
  BY <1>1, <1>5, <1>6

\* The videos are numbered by their positions: each has one, and no two the same.
LEMMA Positions ==
  ASSUME NEW n \in Nat, videos \subseteq 1 .. n
  PROVE  /\ IsFiniteSet(videos) /\ Cardinality(videos) \in Nat /\ Cardinality(videos) <= n
         /\ \A v \in videos : Position(v) \in 1 .. Cardinality(videos)
         /\ \A v, w \in videos : v # w => Position(v) # Position(w)
<1>1. /\ IsFiniteSet(videos) /\ Cardinality(videos) <= n
      /\ \A S \in SUBSET videos : /\ IsFiniteSet(S) /\ Cardinality(S) \in Nat
                                  /\ Cardinality(S) <= Cardinality(videos)
  <2>1. IsFiniteSet(1 .. n) /\ Cardinality(1 .. n) = n
    BY FS_Interval
  <2>2. videos \in SUBSET (1 .. n)
    OBVIOUS
  <2>3. IsFiniteSet(videos) /\ Cardinality(videos) <= n
    BY <2>1, <2>2, FS_Subset
  <2>4. QED
    BY <2>3, FS_Subset, FS_CardinalityType
<1>2. \A v \in videos : UpTo(v) \in SUBSET videos /\ v \in UpTo(v)
  BY DEF UpTo
<1>3. ASSUME NEW v \in videos PROVE Position(v) \in 1 .. Cardinality(videos)
  <2>1. Position(v) \in Nat /\ Position(v) <= Cardinality(videos) /\ Cardinality(videos) \in Nat
    BY <1>1, <1>2 DEF Position
  <2>2. Position(v) # 0
    <3>1. IsFiniteSet(UpTo(v)) /\ UpTo(v) # {}
      BY <1>1, <1>2
    <3>2. QED
      BY <3>1, FS_EmptySet DEF Position
  <2>3. QED
    BY <2>1, <2>2
<1>4. ASSUME NEW v \in videos, NEW w \in videos, w \notin UpTo(v)
      PROVE  Position(v) # Position(w)
  <2>1. UpTo(v) \in SUBSET UpTo(w) /\ w \in UpTo(w)
    <3>1. \A u \in videos : u \in Nat
      OBVIOUS
    <3>2. CASE Ascending
      <4>1. \A u \in videos : (u \in UpTo(v) <=> u <= v) /\ (u \in UpTo(w) <=> u <= w)
        BY <3>2 DEF UpTo
      <4>2. ASSUME NEW u \in UpTo(v) PROVE u \in UpTo(w)
        <5>1. u \in videos
          BY DEF UpTo
        <5>2. u <= v /\ v <= w
          BY <1>4, <3>1, <4>1, <5>1
        <5>3. QED
          BY <3>1, <4>1, <5>1, <5>2
      <4>3. w \in UpTo(w)
        BY <3>1, <4>1
      <4>4. QED
        BY <4>2, <4>3
    <3>3. CASE ~Ascending
      <4>1. \A u \in videos : (u \in UpTo(v) <=> u >= v) /\ (u \in UpTo(w) <=> u >= w)
        BY <3>3 DEF UpTo
      <4>2. ASSUME NEW u \in UpTo(v) PROVE u \in UpTo(w)
        <5>1. u \in videos
          BY DEF UpTo
        <5>2. u >= v /\ v >= w
          BY <1>4, <3>1, <4>1, <5>1
        <5>3. QED
          BY <3>1, <4>1, <5>1, <5>2
      <4>3. w \in UpTo(w)
        BY <3>1, <4>1
      <4>4. QED
        BY <4>2, <4>3
    <3>4. QED
      BY <3>2, <3>3
  <2>2. IsFiniteSet(UpTo(w))
    BY <1>1, <1>2
  <2>3. Cardinality(UpTo(w)) = Cardinality(UpTo(v)) => UpTo(w) = UpTo(v)
    BY <2>1, <2>2, FS_Subset
  <2>4. QED
    BY <1>4, <2>1, <2>3 DEF Position
<1>5. ASSUME NEW v \in videos, NEW w \in videos, v # w PROVE Position(v) # Position(w)
  <2>1. w \notin UpTo(v) \/ v \notin UpTo(w)
    BY <1>5 DEF UpTo
  <2>2. QED
    BY <1>4, <2>1
<1>6. QED
  BY <1>1, <1>3, <1>5

\* Between two places there are no more videos than places.
LEMMA PlacesHoldTheVideos ==
  ASSUME NEW n \in Nat, videos \subseteq 1 .. n,
         NEW a \in Nat, NEW b \in Nat, a <= b,
         NEW X \in SUBSET videos, \A v \in X : Position(v) \in a + 1 .. b
  PROVE  IsFiniteSet(X) /\ Cardinality(X) \in Nat /\ Cardinality(X) <= b - a
<1>1. IsFiniteSet(X) /\ Cardinality(X) \in Nat
  BY Positions, FS_Subset, FS_CardinalityType
<1>2. IsFiniteSet(a + 1 .. b) /\ Cardinality(a + 1 .. b) = b - a
  <2>1. PICK low \in Int : low = a + 1
    OBVIOUS
  <2>2. IsFiniteSet(low .. b) /\ Cardinality(low .. b) = IF low > b THEN 0 ELSE b - low + 1
    BY FS_Interval
  <2>3. QED
    BY <2>1, <2>2
<1>3. ASSUME Cardinality(X) > b - a PROVE FALSE
  <2> DEFINE place == [v \in X |-> Position(v)]
  <2>1. place \in [X -> a + 1 .. b]
    OBVIOUS
  <2>2. Cardinality(a + 1 .. b) < Cardinality(X)
    BY <1>1, <1>2, <1>3
  <2> HIDE DEF place
  <2>3. \E v, w \in X : v # w /\ place[v] = place[w]
    BY <1>1, <1>2, <2>1, <2>2, FS_PigeonHole
  <2>4. QED
    BY <2>3, Positions DEF place
<1>4. QED
  BY <1>1, <1>3

\* A page that is not full has nobody behind it, and behind any place there are no more
\* videos than the list is longer.
LEMMA PageOf ==
  ASSUME NEW n \in Nat, videos \subseteq 1 .. n,
         NEW number \in Nat, number >= 1, NEW limit \in Nat, limit >= 1
  PROVE  LET rows == Paginate(number, limit)
             next == Offset(number, limit) + limit
         IN /\ rows \subseteq videos
            /\ \A v \in videos : Offset(number, limit) < Position(v) /\ Position(v) <= next => v \in rows
            /\ Cardinality(rows) < limit => Behind(next) = {}
            /\ ~(Cardinality(rows) < limit) => next <= Cardinality(videos)
<1> DEFINE rows == Paginate(number, limit)
           skip == Offset(number, limit)
           next == skip + limit
           N == Cardinality(videos)
<1>1. skip \in Nat /\ next \in Nat
  BY PassedType
<1>2. rows = {v \in videos : Position(v) \in skip + 1 .. skip + limit}
  BY DEF Paginate, Position
<1>3. /\ IsFiniteSet(videos) /\ N \in Nat
      /\ \A v \in videos : Position(v) \in Nat /\ Position(v) >= 1 /\ Position(v) <= N
  BY Positions
<1>4. next = skip + limit
  OBVIOUS
<1> HIDE DEF rows, skip, N, next
<1>5. rows \in SUBSET videos /\ IsFiniteSet(rows) /\ Cardinality(rows) \in Nat
  BY <1>2, <1>3, FS_Subset, FS_CardinalityType
<1>6. \A v \in videos : skip < Position(v) /\ Position(v) <= next => v \in rows
  BY <1>1, <1>2, <1>3, <1>4
<1>7. ASSUME next < N PROVE Cardinality(rows) >= limit
  <2> DEFINE ahead == {v \in videos : Position(v) <= skip}
             behind == {v \in videos : Position(v) > next}
  <2>1. IsFiniteSet(ahead) /\ Cardinality(ahead) \in Nat /\ Cardinality(ahead) <= skip - 0
    <3>1. \A v \in ahead : Position(v) \in 0 + 1 .. skip
      BY <1>1, <1>3
    <3>2. ahead \in SUBSET videos
      OBVIOUS
    <3> HIDE DEF ahead
    <3>3. QED
      BY <1>1, <3>1, <3>2, PlacesHoldTheVideos
  <2>2. IsFiniteSet(behind) /\ Cardinality(behind) \in Nat /\ Cardinality(behind) <= N - next
    <3>1. \A v \in behind : Position(v) \in next + 1 .. N
      BY <1>1, <1>3
    <3>2. behind \in SUBSET videos
      OBVIOUS
    <3>3. next <= N
      BY <1>1, <1>3, <1>7
    <3> HIDE DEF behind
    <3>4. QED
      BY <1>1, <1>3, <3>1, <3>2, <3>3, PlacesHoldTheVideos
  <2>3. videos = (ahead \cup behind) \cup rows
    <3>1. \A v \in videos : v \in ahead \/ v \in behind \/ v \in rows
      BY <1>1, <1>3, <1>6
    <3>2. ahead \subseteq videos /\ behind \subseteq videos
      OBVIOUS
    <3> HIDE DEF ahead, behind
    <3>3. QED
      BY <1>5, <3>1, <3>2
  <2> HIDE DEF ahead, behind
  <2>4. /\ IsFiniteSet(ahead \cup behind) /\ Cardinality(ahead \cup behind) \in Nat
        /\ Cardinality(ahead \cup behind) <= Cardinality(ahead) + Cardinality(behind)
    <3>1. /\ IsFiniteSet(ahead \cup behind)
          /\ Cardinality(ahead \cup behind)
               = Cardinality(ahead) + Cardinality(behind) - Cardinality(ahead \cap behind)
      BY <2>1, <2>2, FS_Union
    <3>2. Cardinality(ahead \cap behind) \in Nat /\ Cardinality(ahead \cup behind) \in Nat
      <4>1. IsFiniteSet(ahead \cap behind)
        BY <2>1, FS_Intersection
      <4>2. QED
        BY <3>1, <4>1, FS_CardinalityType
    <3>3. QED
      BY <2>1, <2>2, <3>1, <3>2
  <2>5. N <= Cardinality(ahead \cup behind) + Cardinality(rows)
    <3>1. Cardinality((ahead \cup behind) \cup rows)
            = Cardinality(ahead \cup behind) + Cardinality(rows)
                - Cardinality((ahead \cup behind) \cap rows)
      BY <1>5, <2>4, FS_Union
    <3>2. Cardinality((ahead \cup behind) \cap rows) \in Nat
      BY <2>4, FS_Intersection, FS_CardinalityType
    <3>3. N = Cardinality((ahead \cup behind) \cup rows)
      BY <2>3 DEF N
    <3>4. QED
      BY <1>3, <1>5, <2>4, <3>1, <3>2, <3>3
  <2>6. QED
    BY <1>1, <1>3, <1>4, <1>5, <2>1, <2>2, <2>4, <2>5
<1>8. Cardinality(rows) < limit => Behind(next) = {}
  <2> SUFFICES ASSUME Cardinality(rows) < limit, NEW v \in Behind(next) PROVE FALSE
    OBVIOUS
  <2>1. N <= next
    BY <1>1, <1>3, <1>5, <1>7
  <2>2. v \in videos /\ Position(v) > next
    BY DEF Behind
  <2>3. QED
    BY <1>1, <1>3, <2>1, <2>2
<1>9. ~(Cardinality(rows) < limit) => next <= N
  <2> SUFFICES ASSUME ~(Cardinality(rows) < limit), ~(next <= N) PROVE FALSE
    OBVIOUS
  <2>1. CASE skip <= N
    <3>1. \A v \in rows : Position(v) \in skip + 1 .. N
      BY <1>1, <1>2, <1>3
    <3>2. Cardinality(rows) <= N - skip
      BY <1>1, <1>3, <1>5, <2>1, <3>1, PlacesHoldTheVideos
    <3>3. QED
      BY <1>1, <1>3, <1>4, <1>5, <3>2
  <2>2. CASE skip > N
    <3>1. rows = {}
      BY <1>1, <1>2, <1>3, <2>2
    <3>2. QED
      BY <3>1, FS_EmptySet
  <2>3. QED
    BY <1>1, <1>3, <2>1, <2>2
<1>10. QED
  BY <1>5, <1>6, <1>8, <1>9 DEF rows, skip, next, N

LEMMA NobodyFarBehind ==
  ASSUME NEW n \in Nat, videos \subseteq 1 .. n, NEW place \in Nat
  PROVE  /\ IsFiniteSet(Behind(place)) /\ Cardinality(Behind(place)) \in Nat
         /\ Cardinality(Behind(place)) <= IF place <= Cardinality(videos)
                                          THEN Cardinality(videos) - place ELSE 0
<1>1. /\ Cardinality(videos) \in Nat
      /\ \A v \in videos : Position(v) \in Nat /\ Position(v) <= Cardinality(videos)
  BY Positions
<1>2. Behind(place) \in SUBSET videos
  BY DEF Behind
<1>3. CASE place <= Cardinality(videos)
  <2>1. \A v \in Behind(place) : Position(v) \in place + 1 .. Cardinality(videos)
    BY <1>1 DEF Behind
  <2>2. QED
    BY <1>1, <1>2, <1>3, <2>1, PlacesHoldTheVideos
<1>4. CASE ~(place <= Cardinality(videos))
  <2>1. ASSUME NEW v \in Behind(place) PROVE FALSE
    <3>1. v \in videos /\ Position(v) > place
      BY DEF Behind
    <3>2. QED
      BY <1>1, <1>4, <3>1
  <2>2. Behind(place) = {}
    BY <2>1
  <2>3. QED
    BY <1>4, <2>2, FS_EmptySet
<1>5. QED
  BY <1>3, <1>4

\* A page that is listed is passed, or the last one, and then who is missing stands behind it.
LEMMA ListStep ==
  ASSUME QueriesTypeOK, WalkInv, List
  PROVE  QueriesTypeOK' /\ WalkInv'
<1> DEFINE rows == Paginate(page, PageSize)
           next == Passed + PageSize
           N == Cardinality(videos)
<1>1. /\ page \in Nat /\ page >= 1
      /\ PageSize \in Nat /\ PageSize >= 1
      /\ MaxVideos \in Nat /\ videos \subseteq 1 .. MaxVideos
      /\ query.until \in {"total", "short"}
  <2>1. query.until \in {"total", "short"}
    BY DEF QueriesTypeOK, Query
  <2>2. QED
    BY <2>1, PageSizeType, VideoQueriesAssumption DEF QueriesTypeOK
<1>2. /\ Passed \in Nat /\ next \in Nat
      /\ Offset(page + 1, PageSize) = next
      /\ page <= next
  BY <1>1, PassedType DEF Passed
<1>3. /\ counted # Unread
      /\ shown' = shown \cup rows
      /\ query.until = "total" => (ended' = (page >= TotalPages(counted, PageSize)))
      /\ query.until # "total" => (ended' = (Cardinality(rows) < PageSize))
      /\ page' = IF ended' THEN page ELSE page + 1
      /\ counted' = Unread
      /\ UNCHANGED <<asks, videos, query, since, first, status, jobs, frames, recognised, detail>>
  <2>1. counted # Unread /\ shown' = shown \cup rows
    BY DEF List, PageSize
  <2>2. ended' = IF query.until = "total" THEN page >= TotalPages(counted, PageSize)
                                          ELSE Cardinality(rows) < PageSize
    BY DEF List, PageSize
  <2>3. /\ page' = IF ended' THEN page ELSE page + 1
        /\ counted' = Unread
        /\ UNCHANGED <<asks, videos, query, since, first, status, jobs, frames, recognised, detail>>
    BY DEF List, pipeline
  <2> HIDE DEF rows
  <2>4. QED
    BY <2>1, <2>2, <2>3
<1>4. /\ ~ended /\ counted \in Nat /\ since \in Nat /\ N = counted + since
      /\ N \in Nat /\ N <= MaxVideos /\ first \subseteq videos
  <2>1. counted \in Nat /\ since \in Nat
    BY <1>1, <1>3 DEF QueriesTypeOK
  <2>2. N \in Nat /\ N <= MaxVideos
    BY <1>1, Positions
  <2>3. QED
    BY <1>3, <2>1, <2>2 DEF WalkInv
<1>5. /\ rows \subseteq videos
      /\ \A v \in videos : Passed < Position(v) /\ Position(v) <= next => v \in rows
      /\ Cardinality(rows) < PageSize => Behind(next) = {}
      /\ ~(Cardinality(rows) < PageSize) => next <= N
  BY <1>1, PageOf DEF Passed
<1>6. /\ IsFiniteSet(Behind(next)) /\ Cardinality(Behind(next)) \in Nat
      /\ Cardinality(Behind(next)) <= IF next <= N THEN N - next ELSE 0
  BY <1>1, <1>2, NobodyFarBehind
<1>7. \A v \in videos : Position(v) \in Nat
  BY <1>1, Positions
<1> HIDE DEF rows, next, N
<1>8. ended' \in BOOLEAN /\ PageSize' = PageSize
  <2>1. CASE query.until = "total"
    BY <1>3, <2>1 DEF PageSize
  <2>2. CASE query.until # "total"
    <3>1. ended' = (Cardinality(rows) < PageSize)
      BY <1>3, <2>2
    <3>2. QED
      BY <1>3, <3>1 DEF PageSize
  <2>3. QED
    BY <2>1, <2>2
<1>9. ~ended' => Passed' = next
  BY <1>1, <1>2, <1>3, <1>8 DEF Passed
<1>10. ~ended' => next <= N
  <2> SUFFICES ASSUME ~ended' PROVE next <= N
    OBVIOUS
  <2>1. CASE query.until = "total"
    <3>1. ~(page >= TotalPages(counted, PageSize))
      BY <1>3, <2>1
    <3>2. Offset(page + 1, PageSize) < counted
      BY <1>1, <1>4, <3>1, PagesHoldTheTotal
    <3>3. QED
      BY <1>2, <1>4, <3>2
  <2>2. CASE query.until # "total"
    BY <1>3, <1>5, <2>2
  <2>3. QED
    BY <2>1, <2>2
<1>11. ended' /\ query.until = "total" => counted <= next
  BY <1>1, <1>2, <1>3, <1>4, PagesHoldTheTotal
<1>12. QueriesTypeOK'
  <2>1. page' \in 1 .. MaxVideos + 1
    BY <1>1, <1>2, <1>3, <1>4, <1>8, <1>10 DEF QueriesTypeOK
  <2>2. shown' \subseteq 1 .. MaxVideos
    BY <1>1, <1>3, <1>5 DEF QueriesTypeOK
  <2>3. QED
    BY <1>3, <1>8, <2>1, <2>2 DEF QueriesTypeOK
<1>13. ASSUME NEW v \in first, v \notin shown' PROVE v \in Behind(next)
  <2>1. v \in videos /\ Position(v) \in Nat /\ v \notin shown /\ v \notin rows
    BY <1>3, <1>4, <1>7, <1>13
  <2>2. ~(Position(v) <= Passed)
    BY <1>4, <2>1 DEF WalkInv
  <2>3. Position(v) > next
    BY <1>2, <1>5, <2>1, <2>2
  <2>4. QED
    BY <2>1, <2>3 DEF Behind
<1>14. ~ended' => \A v \in first' : Position(v)' <= Passed' => v \in shown'
  <2> SUFFICES ASSUME ~ended', NEW v \in first, Position(v) <= next PROVE v \in shown'
    BY <1>3, <1>9 DEF Position, UpTo, Ascending
  <2>1. v \notin Behind(next)
    BY <1>2, <1>4, <1>7 DEF Behind
  <2>2. QED
    BY <1>13, <2>1
<1>15. NoneSkipped'
  <2>1. ASSUME ended', query.until = "short" PROVE first \subseteq shown'
    BY <1>3, <1>5, <1>13, <2>1
  <2>2. ASSUME ended', query.until = "total" PROVE Cardinality(first \ shown') <= since
    <3>1. (first \ shown') \in SUBSET Behind(next)
      BY <1>13
    <3>2. Cardinality(first \ shown') \in Nat /\ Cardinality(first \ shown') <= Cardinality(Behind(next))
      BY <1>6, <3>1, FS_Subset, FS_CardinalityType
    <3>3. Cardinality(Behind(next)) <= since
      BY <1>2, <1>4, <1>6, <1>11, <2>2
    <3>4. QED
      BY <1>4, <1>6, <3>2, <3>3
  <2>3. QED
    BY <1>3, <2>1, <2>2 DEF NoneSkipped
<1>16. QED
  BY <1>3, <1>4, <1>12, <1>14, <1>15 DEF WalkInv

\* A video that appears moves nobody forward, wherever it appears.
LEMMA AddVideoStep ==
  ASSUME QueriesTypeOK, WalkInv, AddVideo
  PROVE  QueriesTypeOK' /\ WalkInv'
<1>1. PICK created \in (1 .. MaxVideos) \ videos : videos' = videos \cup {created}
  BY DEF AddVideo
<1>2. /\ since' = IF counted = Unread THEN since ELSE since + 1
      /\ UNCHANGED <<asks, query, page, counted, first, shown, ended,
                     status, jobs, frames, recognised, detail>>
  BY DEF AddVideo, pipeline
<1>3. MaxVideos \in Nat /\ videos \subseteq 1 .. MaxVideos /\ videos' \subseteq 1 .. MaxVideos
  BY <1>1, VideoQueriesAssumption DEF QueriesTypeOK
<1>4. /\ IsFiniteSet(videos) /\ Cardinality(videos) \in Nat
      /\ Cardinality(videos') = Cardinality(videos) + 1 /\ IsFiniteSet(videos')
      /\ Cardinality(videos') <= MaxVideos
  <2>1. IsFiniteSet(videos) /\ Cardinality(videos) \in Nat
    BY <1>3, Positions
  <2>2. Cardinality(videos') = Cardinality(videos) + 1 /\ IsFiniteSet(videos')
    BY <1>1, <2>1, FS_AddElement
  <2>3. IsFiniteSet(1 .. MaxVideos) /\ Cardinality(1 .. MaxVideos) = MaxVideos
    BY <1>3, FS_Interval
  <2>4. Cardinality(videos') <= MaxVideos
    BY <1>3, <2>3, FS_Subset
  <2>5. QED
    BY <2>1, <2>2, <2>4
<1>5. QueriesTypeOK'
  <2>1. since' \in 0 .. MaxVideos
    <3>1. CASE counted = Unread
      BY <1>2, <3>1 DEF QueriesTypeOK
    <3>2. CASE counted # Unread
      <4>1. Cardinality(videos) = counted + since /\ counted \in Nat /\ since \in Nat
        BY <1>3, <3>2 DEF WalkInv, QueriesTypeOK
      <4>2. QED
        BY <1>2, <1>3, <1>4, <3>2, <4>1
    <3>3. QED
      BY <3>1, <3>2
  <2>2. QED
    BY <1>2, <1>3, <2>1 DEF QueriesTypeOK
<1>6. Passed' = Passed /\ Passed \in Nat
  <2>1. page \in Nat /\ page >= 1
    BY <1>3 DEF QueriesTypeOK
  <2>2. Passed \in Nat
    BY <2>1, PageSizeType, PassedType DEF Passed
  <2>3. QED
    BY <1>2, <2>2 DEF Passed, PageSize
<1>7. ASSUME NEW v \in first PROVE Position(v)' <= Passed' => Position(v) <= Passed
  <2>1. UpTo(v) \in SUBSET UpTo(v)' /\ UpTo(v)' \in SUBSET videos'
    BY <1>1, <1>2 DEF UpTo, Ascending
  <2>2. IsFiniteSet(UpTo(v)')
    BY <1>4, <2>1, FS_Subset
  <2>3. Cardinality(UpTo(v)) <= Cardinality(UpTo(v)') /\ IsFiniteSet(UpTo(v))
    BY <2>1, <2>2, FS_Subset
  <2>4. Cardinality(UpTo(v)) \in Nat /\ Cardinality(UpTo(v)') \in Nat
    BY <2>2, <2>3, FS_CardinalityType
  <2>5. QED
    BY <1>6, <2>3, <2>4 DEF Position
<1>8. counted # Unread => ~ended' /\ Cardinality(videos') = counted' + since'
  <2> SUFFICES ASSUME counted # Unread PROVE ~ended' /\ Cardinality(videos') = counted' + since'
    OBVIOUS
  <2>1. Cardinality(videos) = counted + since /\ ~ended /\ counted \in Nat /\ since \in Nat
    BY <1>3 DEF WalkInv, QueriesTypeOK
  <2>2. QED
    BY <1>2, <1>4, <2>1
<1>9. NoneSkipped'
  <2>1. CASE ended
    <3>1. since' = since
      BY <1>2, <2>1 DEF WalkInv
    <3>2. QED
      BY <1>2, <3>1 DEF WalkInv, NoneSkipped
  <2>2. CASE ~ended
    BY <1>2, <2>2 DEF NoneSkipped
  <2>3. QED
    BY <2>1, <2>2
<1>10. QED
  BY <1>1, <1>2, <1>5, <1>7, <1>8, <1>9 DEF WalkInv

LEMMA CountStep ==
  ASSUME QueriesTypeOK, WalkInv, Count
  PROVE  QueriesTypeOK' /\ WalkInv'
<1>1. /\ ~ended /\ counted' = Cardinality(videos) /\ since' = 0
      /\ UNCHANGED <<asks, videos, query, page, first, shown, ended,
                     status, jobs, frames, recognised, detail>>
  BY DEF Count, pipeline
<1>2. Passed' = Passed /\ \A v \in first : Position(v)' = Position(v)
  BY <1>1 DEF Passed, PageSize, Position, UpTo, Ascending
<1>3. Cardinality(videos) \in 0 .. MaxVideos /\ MaxVideos \in Nat
  <2>1. MaxVideos \in Nat /\ videos \subseteq 1 .. MaxVideos
    BY VideoQueriesAssumption DEF QueriesTypeOK
  <2>2. QED
    BY <2>1, Positions
<1>4. QueriesTypeOK'
  BY <1>1, <1>3 DEF QueriesTypeOK
<1>5. NoneSkipped'
  BY <1>1 DEF NoneSkipped
<1>6. QED
  BY <1>1, <1>2, <1>3, <1>4, <1>5 DEF WalkInv

\* Nothing of the walk moves in a step of the pipeline or of the details.
LEMMA WalkStays ==
  ASSUME WalkInv, UNCHANGED <<videos, query, page, counted, since, first, shown, ended>>
  PROVE  WalkInv'
<1>1. Passed' = Passed /\ \A v \in first : Position(v)' = Position(v)
  BY DEF Passed, PageSize, Position, UpTo, Ascending
<1>2. QED
  BY <1>1 DEF WalkInv, NoneSkipped

Pipeline ==
  \/ StoreFrame \/ Recognise \/ VideoMoves
  \/ \E type \in JobType : JobMoves(type)

Details == FindByID \/ ListFrames \/ Reload

\* The frames and their results only grow, up to the success of the frame job, and a
\* finished video stays finished: no frame is added to it.
LEMMA PipelineStep ==
  ASSUME QueriesTypeOK, WalkInv, ViewInv, Pipeline
  PROVE  QueriesTypeOK' /\ WalkInv' /\ ViewInv'
<1>1. UNCHANGED <<asks, videos, query, page, counted, since, first, shown, ended, detail>>
  BY DEF Pipeline, StoreFrame, Recognise, VideoMoves, JobMoves, walk
<1>2. /\ frames \in Nat /\ recognised \in Nat /\ recognised <= frames /\ frames <= MaxFrames
      /\ MaxFrames \in Nat /\ MaxVideos \in Nat /\ detail.frameCount \in Nat
      /\ jobs \in [JobType -> {"absent", "open", "success"}]
  BY VideoQueriesAssumption DEF QueriesTypeOK
<1>3. /\ status' \in Status
      /\ jobs' \in [JobType -> {"absent", "open", "success"}]
      /\ frames' \in frames .. MaxFrames /\ recognised' \in 0 .. frames'
      /\ Finished => Finished'
      /\ status' = "success" => Finished'
  <2>1. CASE StoreFrame
    BY <2>1, <1>2 DEF StoreFrame, QueriesTypeOK, ViewInv, Finished
  <2>2. CASE Recognise
    BY <2>2, <1>2 DEF Recognise, QueriesTypeOK, ViewInv, Finished
  <2>3. CASE VideoMoves
    BY <2>3, <1>2 DEF VideoMoves, QueriesTypeOK, Finished
  <2>4. ASSUME NEW type \in JobType, JobMoves(type)
        PROVE  /\ status' = status /\ frames' = frames /\ recognised' = recognised
               /\ jobs' \in [JobType -> {"absent", "open", "success"}]
               /\ jobs["frame"] = "success" => jobs'["frame"] = "success"
    <3>1. PICK to \in {"open", "success"} : jobs' = [jobs EXCEPT ![type] = to]
      BY <2>4 DEF JobMoves
    <3>2. ~(type = "frame" /\ jobs[type] = "success")
      BY <2>4 DEF JobMoves
    <3>3. UNCHANGED <<status, frames, recognised>>
      BY <2>4 DEF JobMoves
    <3>4. jobs' \in [JobType -> {"absent", "open", "success"}]
      BY <3>1, <1>2
    <3>5. jobs["frame"] = "success" => jobs'["frame"] = "success"
      BY <3>1, <3>2, <1>2
    <3>6. QED
      BY <3>3, <3>4, <3>5
  <2>5. CASE \E type \in JobType : JobMoves(type)
    BY <2>4, <2>5, <1>2 DEF QueriesTypeOK, ViewInv, Finished
  <2>6. QED
    BY <2>1, <2>2, <2>3, <2>5 DEF Pipeline
<1>4. QueriesTypeOK'
  <2>1. frames' \in 0 .. MaxFrames
    BY <1>2, <1>3
  <2>2. QED
    BY <1>1, <1>3, <2>1 DEF QueriesTypeOK
<1>5. WalkInv'
  BY <1>1, WalkStays
<1>6. ViewInv'
  BY <1>1, <1>2, <1>3 DEF ViewInv, DetailNeverShort
<1>7. QED
  BY <1>4, <1>5, <1>6

LEMMA DetailsStep ==
  ASSUME QueriesTypeOK, WalkInv, ViewInv, Details
  PROVE  QueriesTypeOK' /\ WalkInv' /\ ViewInv'
<1> DEFINE View == [is : {"none", "found", "listed"}, status : Status, current : JobType,
                    frameCount : 0 .. MaxFrames, listed : 0 .. MaxFrames, complete : BOOLEAN]
<1>1. UNCHANGED <<asks, videos, query, page, counted, since, first, shown, ended,
                  status, jobs, frames, recognised>>
  BY DEF Details, FindByID, ListFrames, Reload, walk, pipeline
<1>2. detail \in View /\ status \in Status /\ frames \in 0 .. MaxFrames /\ MaxFrames \in Nat
  BY VideoQueriesAssumption DEF QueriesTypeOK
<1>3. /\ detail' \in View
      /\ detail'.is = "found" => detail'.frameCount <= frames /\ (detail'.status = "success" => Finished)
      /\ detail'.is = "listed" => /\ detail'.frameCount <= detail'.listed
                                  /\ detail'.status = "success" => detail'.complete
  <2>1. CASE FindByID
    <3>1. PICK current \in JobType : current = CurrentJob(jobs)
      BY DEF JobType, CurrentJob
    <3>2. detail' = [detail EXCEPT !.is = "found", !.status = status,
                                   !.current = current, !.frameCount = frames]
      BY <2>1, <3>1 DEF FindByID
    <3>3. detail' \in View
      BY <1>2, <3>2
    <3>4. detail'.is = "found" /\ detail'.frameCount = frames /\ detail'.status = status
      BY <1>2, <3>2
    <3>5. QED
      BY <1>2, <3>3, <3>4 DEF ViewInv
  <2>2. CASE ListFrames
    <3>1. PICK complete \in BOOLEAN : complete <=> recognised = frames
      OBVIOUS
    <3>2. detail.is = "found" /\ detail' = [detail EXCEPT !.is = "listed", !.listed = frames,
                                                          !.complete = complete]
      BY <2>2, <3>1 DEF ListFrames
    <3>3. detail' \in View
      BY <1>2, <3>2
    <3>4. /\ detail'.is = "listed" /\ detail'.frameCount = detail.frameCount
          /\ detail'.status = detail.status /\ detail'.listed = frames /\ detail'.complete = complete
      BY <1>2, <3>2
    <3>5. QED
      BY <3>1, <3>2, <3>3, <3>4 DEF ViewInv, Finished
  <2>3. CASE Reload
    <3>1. detail' = NoView
      BY <2>3 DEF Reload
    <3>2. NoView \in View /\ NoView.is = "none"
      BY <1>2 DEF NoView, Status, JobType
    <3>3. QED
      BY <3>1, <3>2
  <2>4. QED
    BY <2>1, <2>2, <2>3 DEF Details
<1>4. QueriesTypeOK'
  BY <1>1, <1>3 DEF QueriesTypeOK
<1>5. WalkInv'
  BY <1>1, WalkStays
<1>6. ViewInv'
  BY <1>1, <1>3 DEF ViewInv, Finished, DetailNeverShort
<1>7. QED
  BY <1>4, <1>5, <1>6

QueriesInv == QueriesTypeOK /\ WalkInv /\ ViewInv

LEMMA QueriesStart == QueriesInit => QueriesInv
<1> SUFFICES ASSUME QueriesInit PROVE QueriesInv
  OBVIOUS
<1>1. /\ asks \in {"list", "details"} /\ videos \subseteq 1 .. MaxVideos
      /\ first = videos /\ page = 1 /\ counted = Unread /\ since = 0
      /\ shown = {} /\ ended = FALSE
      /\ MaxVideos \in Nat /\ MaxVideos >= 1
  <2>1. MaxVideos \in Nat /\ MaxVideos >= 1
    BY VideoQueriesAssumption
  <2>2. videos \subseteq 1 .. MaxVideos
    <3>1. CASE asks = "list"
      BY <3>1 DEF QueriesInit
    <3>2. CASE asks # "list"
      <4>1. videos = {1}
        BY <3>2 DEF QueriesInit
      <4>2. QED
        BY <2>1, <4>1
    <3>3. QED
      BY <3>1, <3>2
  <2>3. QED
    BY <2>1, <2>2 DEF QueriesInit
<1>2. QueriesTypeOK
  <2>1. query \in Query
    <3>1. CASE asks = "list"
      BY <3>1 DEF QueriesInit
    <3>2. CASE asks # "list"
      BY <3>2 DEF QueriesInit, Query
    <3>3. QED
      BY <3>1, <3>2
  <2>2. detail \in [is : {"none", "found", "listed"}, status : Status, current : JobType,
                    frameCount : 0 .. MaxFrames, listed : 0 .. MaxFrames, complete : BOOLEAN]
    BY VideoQueriesAssumption DEF QueriesInit, NoView, Status, JobType
  <2>3. status \in Status /\ frames \in 0 .. MaxFrames /\ recognised \in 0 .. frames
    BY VideoQueriesAssumption DEF QueriesInit, Status
  <2>4. jobs \in [JobType -> {"absent", "open", "success"}]
    BY DEF QueriesInit
  <2>5. page \in 1 .. MaxVideos + 1 /\ since \in 0 .. MaxVideos
    BY <1>1
  <2>6. first \subseteq 1 .. MaxVideos /\ ended \in BOOLEAN
    BY <1>1
  <2>7. counted \in {Unread} \cup (0 .. MaxVideos) /\ shown \subseteq 1 .. MaxVideos
    BY <1>1
  <2>8. QED
    BY <1>1, <2>1, <2>2, <2>3, <2>4, <2>5, <2>6, <2>7 DEF QueriesTypeOK
<1>3. PageSize \in Nat
  BY <1>2, PageSizeType
<1>4. Passed = 0
  BY <1>1, <1>3 DEF Passed, Offset
<1>5. WalkInv
  <2>1. \A v \in first : ~(Position(v) <= Passed)
    <3>1. \A v \in videos : Position(v) \in Nat /\ Position(v) >= 1
      BY <1>1, Positions
    <3>2. QED
      BY <1>1, <1>4, <3>1
  <2>2. QED
    BY <1>1, <2>1 DEF WalkInv, NoneSkipped
<1>6. ViewInv
  BY DEF QueriesInit, ViewInv, NoView, DetailNeverShort
<1>7. QED
  BY <1>2, <1>5, <1>6 DEF QueriesInv

LEMMA QueriesStep ==
  ASSUME QueriesInv, [QueriesNext]_queriesVars
  PROVE  QueriesInv'
<1>1. QueriesTypeOK /\ WalkInv /\ ViewInv
  BY DEF QueriesInv
<1>2. CASE AddVideo \/ Count \/ List
  <2>1. UNCHANGED <<status, jobs, frames, recognised, detail>>
    BY <1>2 DEF AddVideo, Count, List, pipeline
  <2>2. ViewInv'
    BY <1>1, <2>1 DEF ViewInv, Finished, DetailNeverShort
  <2>3. QED
    BY <1>1, <1>2, <2>2, AddVideoStep, CountStep, ListStep DEF QueriesInv
<1>3. CASE Pipeline
  BY <1>1, <1>3, PipelineStep DEF QueriesInv
<1>4. CASE Details
  BY <1>1, <1>4, DetailsStep DEF QueriesInv
<1>5. CASE UNCHANGED queriesVars
  <2>1. UNCHANGED <<asks, videos, query, page, counted, since, first, shown, ended,
                    status, jobs, frames, recognised, detail>>
    BY <1>5 DEF queriesVars, walk, pipeline
  <2>2. QueriesTypeOK'
    BY <1>1, <2>1 DEF QueriesTypeOK
  <2>3. WalkInv'
    BY <1>1, <2>1, WalkStays
  <2>4. ViewInv'
    BY <1>1, <2>1 DEF ViewInv, Finished, DetailNeverShort
  <2>5. QED
    BY <2>2, <2>3, <2>4 DEF QueriesInv
<1>6. QED
  BY <1>2, <1>3, <1>4, <1>5 DEF QueriesNext, Pipeline, Details

LEMMA QueriesInvariant == QueriesSpec => []QueriesInv
<1>1. QueriesInit => QueriesInv
  BY QueriesStart
<1>2. QueriesInv /\ [QueriesNext]_queriesVars => QueriesInv'
  BY QueriesStep
<1>3. QED
  BY <1>1, <1>2, PTL DEF QueriesSpec

\* The walk keeps its types; no page number runs past the videos there are.
THEOREM QueriesTypeCorrect == QueriesSpec => []QueriesTypeOK
<1>1. QueriesInv => QueriesTypeOK
  BY DEF QueriesInv
<1>2. QED
  BY <1>1, QueriesInvariant, PTL

\* Whoever follows the pages until one is not full has been shown every video that was
\* there when he began, for any number of videos that appear meanwhile, anywhere in the
\* order, any limit and either order; whoever stops at totalPages misses no more of them
\* than appeared between the two statements of his last request (Count, List, Paginate).
THEOREM NoneSkippedTheorem == QueriesSpec => []NoneSkipped
<1>1. QueriesInv => NoneSkipped
  BY DEF QueriesInv, WalkInv, NoneSkipped
<1>2. QED
  BY <1>1, QueriesInvariant, PTL

\* The two statements of the details never contradict each other in a way that takes
\* frames or results from the reader, whatever the pipeline does between them.
THEOREM DetailNeverShortTheorem == QueriesSpec => []DetailNeverShort
<1>1. QueriesInv => DetailNeverShort
  BY DEF QueriesInv, ViewInv
<1>2. QED
  BY <1>1, QueriesInvariant, PTL
================================================================================
