----------------------------- MODULE VideoQueries -----------------------------
(***************************************************************************)
(* What a user reads of the videos: the list, page by page, while videos   *)
(* are added, or the details of one video, in two statements, while its    *)
(* pipeline runs.  A video is its created_at, taken before the object is   *)
(* presigned and the row inserted: of two parallel uploads the older one   *)
(* may appear after the newer.                                             *)
(* The formulas every module has carry the name of this one, so that the   *)
(* proofs about the client can extend it beside UploadLifecycle.           *)
(***************************************************************************)
EXTENDS Integers, FiniteSets, VideoDomain

CONSTANTS MaxVideos,               \* videos the user may ever have
          MaxFrames,               \* frames of the video that is looked at
          Limits,                  \* what a client may ask for
          DefaultLimit, MaxLimit   \* 20 and 200 in the code

ASSUME VideoQueriesAssumption ==
  /\ MaxVideos \in Nat \ {0} /\ MaxFrames \in Nat
  /\ Limits \subseteq Int
  /\ MaxLimit \in Nat /\ DefaultLimit \in 1 .. MaxLimit

VARIABLES
  asks,       \* "list" or "details": the two read different tables
  videos,     \* videos of the user that are committed, by their created_at
  query,      \* limit and order the client lists with, and until when
  page,       \* page it is at
  counted,    \* the total its request has read, or Unread
  since,      \* videos that appeared since that total was read, up to the page
  first,      \* videos that were there when it began
  shown,      \* videos it was shown
  ended,      \* whether it has come to the last of the pages
  status,     \* of the video that is looked at
  jobs,       \* its jobs: "absent", "success", or "open" for any other status
  frames,     \* number of its frames
  recognised, \* frames with both an ocr and a classification row
  detail      \* the view that FindByID returned, with the frames once listed

walk == <<query, page, counted, since, first, shown, ended>>
pipeline == <<status, jobs, frames, recognised>>
queriesVars == <<asks, videos, walk, pipeline, detail>>

Unread == -1
JobType == {"segment", "frame", "ocr", "classify"}
Query == [limit : Limits \cup {0},               \* 0: it gives none
          order : {"asc", "desc", "none"},
          until : {"total", "short"}]            \* totalPages, or a page that is not full

--------------------------------------------------------------------------------
(* Pagination *)

Normalize(limit) ==
  IF limit <= 0 THEN DefaultLimit ELSE IF limit > MaxLimit THEN MaxLimit ELSE limit

\* Any order but "asc" is "desc" for the list.
Ascending == query.order = "asc"

\* Mutant: the limit as it was asked for, not as it was normalised.
OffsetOfQuery(number, limit) == (number - 1) * query.limit

Offset(number, limit) == (number - 1) * limit

\* The rows up to a video, by ORDER BY created_at: their number is its position.
UpTo(v) == {w \in videos : IF Ascending THEN w <= v ELSE w >= v}

\* The rows of a page, by LIMIT and OFFSET.
Paginate(number, limit) ==
  LET skip == Offset(number, limit)
  IN {v \in videos : Cardinality(UpTo(v)) \in skip + 1 .. skip + limit}

\* totalPages of the response, from the total that was counted: rounded up.
TotalPages(total, limit) == (total + limit - 1) \div limit

--------------------------------------------------------------------------------
(* The view of a video *)

\* The job whose id, status and failure reason the view shows as those of the video:
\* the first open one but that of the classification, or else the last there is.
CurrentJob(of) ==
  IF of["segment"] = "open" THEN "segment"
  ELSE IF of["frame"] = "open" THEN "frame"
  ELSE IF of["ocr"] = "open" THEN "ocr"
  ELSE IF of["classify"] # "absent" THEN "classify"
  ELSE IF of["ocr"] # "absent" THEN "ocr"
  ELSE IF of["frame"] # "absent" THEN "frame" ELSE "segment"

NoView == [is |-> "none", status |-> "pending", current |-> "segment",
           frameCount |-> 0, listed |-> 0, complete |-> FALSE]

QueriesTypeOK ==
  /\ asks \in {"list", "details"}
  /\ videos \subseteq 1 .. MaxVideos
  /\ query \in Query
  /\ page \in 1 .. MaxVideos + 1
  /\ counted \in {Unread} \cup 0 .. MaxVideos
  /\ since \in 0 .. MaxVideos
  /\ first \subseteq 1 .. MaxVideos
  /\ shown \subseteq 1 .. MaxVideos
  /\ ended \in BOOLEAN
  /\ status \in Status
  /\ jobs \in [JobType -> {"absent", "open", "success"}]
  /\ frames \in 0 .. MaxFrames /\ recognised \in 0 .. frames
  /\ detail \in [is : {"none", "found", "listed"}, status : Status, current : JobType,
                 frameCount : 0 .. MaxFrames, listed : 0 .. MaxFrames, complete : BOOLEAN]

QueriesInit ==
  /\ asks \in {"list", "details"}
  /\ videos \in IF asks = "list" THEN SUBSET (1 .. MaxVideos) ELSE {{1}}
  /\ query \in IF asks = "list" THEN Query ELSE [limit : {0}, order : {"none"}, until : {"total"}]
  /\ page = 1 /\ counted = Unread /\ since = 0
  /\ first = videos
  /\ shown = {} /\ ended = FALSE
  /\ status = "processing"
  /\ jobs = [type \in JobType |-> IF type = "segment" THEN "open" ELSE "absent"]
  /\ frames = 0 /\ recognised = 0
  /\ detail = NoView

--------------------------------------------------------------------------------
(* The list: GET /api/videos, page after page until one is the last *)

\* The INSERT of an upload commits: before or after those of others that took
\* their created_at earlier or later.
AddVideo ==
  /\ asks = "list"
  /\ \E created \in (1 .. MaxVideos) \ videos : videos' = videos \cup {created}
  /\ since' = IF counted = Unread THEN since ELSE since + 1
  /\ UNCHANGED <<asks, query, page, counted, first, shown, ended, pipeline, detail>>

\* The first statement of a request.
Count ==
  /\ asks = "list"
  /\ ~ended /\ counted = Unread
  /\ counted' = Cardinality(videos) /\ since' = 0
  /\ UNCHANGED <<asks, videos, query, page, first, shown, ended, pipeline, detail>>

\* The second one, in no transaction with the first.  The client goes on until the
\* page of that number is the last, or until one is not full.
List ==
  /\ counted # Unread
  /\ LET limit == Normalize(query.limit)
         rows == Paginate(page, limit)
     IN /\ shown' = shown \cup rows
        /\ ended' = IF query.until = "total" THEN page >= TotalPages(counted, limit)
                    ELSE Cardinality(rows) < limit
  /\ page' = IF ended' THEN page ELSE page + 1
  /\ counted' = Unread
  /\ UNCHANGED <<asks, videos, query, since, first, pipeline, detail>>

--------------------------------------------------------------------------------
(* The details: GET /api/videos/:id *)

\* The pipeline, as far as the modules of its stages promise: frames are stored
\* until the frame job succeeds, which is final; a video succeeds when each
\* frame has its result; anything else may be written back.
StoreFrame ==
  /\ asks = "details"
  /\ jobs["frame"] # "success" /\ frames < MaxFrames
  /\ frames' = frames + 1
  /\ UNCHANGED <<asks, videos, walk, status, jobs, recognised, detail>>

Recognise ==
  /\ asks = "details"
  /\ recognised < frames
  /\ recognised' = recognised + 1
  /\ UNCHANGED <<asks, videos, walk, status, jobs, frames, detail>>

Before(type) ==
  CASE type = "segment" -> {} [] type = "frame" -> {"segment"}
    [] type = "ocr" -> {"segment", "frame"} [] type = "classify" -> {"segment", "frame", "ocr"}

JobMoves(type) ==
  /\ asks = "details"
  /\ \A before \in Before(type) : jobs[before] # "absent"
  /\ ~(type \in {"segment", "frame"} /\ jobs[type] = "success")
  /\ \E to \in {"open", "success"} : jobs' = [jobs EXCEPT ![type] = to]
  /\ UNCHANGED <<asks, videos, walk, status, frames, recognised, detail>>

VideoMoves ==
  /\ asks = "details"
  /\ \E to \in Status :
       /\ to = "success" => jobs["frame"] = "success" /\ recognised = frames
       /\ status' = to
  /\ UNCHANGED <<asks, videos, walk, jobs, frames, recognised, detail>>

\* The first statement: the video, its jobs and the number of its frames.
FindByID ==
  /\ asks = "details" /\ detail.is = "none"
  /\ detail' = [detail EXCEPT !.is = "found", !.status = status,
                              !.current = CurrentJob(jobs), !.frameCount = frames]
  /\ UNCHANGED <<asks, videos, walk, pipeline>>

\* Mutant: frames without a result are joined away.
ListFramesJoined ==
  /\ detail.is = "found"
  /\ detail' = [detail EXCEPT !.is = "listed", !.listed = recognised, !.complete = recognised = frames]
  /\ UNCHANGED <<asks, videos, walk, pipeline>>

\* The second one: the frames with their results.
ListFrames ==
  /\ detail.is = "found"
  /\ detail' = [detail EXCEPT !.is = "listed", !.listed = frames, !.complete = recognised = frames]
  /\ UNCHANGED <<asks, videos, walk, pipeline>>

\* The page is looked at again.
Reload ==
  /\ detail.is = "listed"
  /\ detail' = NoView
  /\ UNCHANGED <<asks, videos, walk, pipeline>>

--------------------------------------------------------------------------------
QueriesNext ==
  \/ AddVideo \/ Count \/ List
  \/ StoreFrame \/ Recognise \/ VideoMoves
  \/ \E type \in JobType : JobMoves(type)
  \/ FindByID \/ ListFrames \/ Reload

QueriesSpec == QueriesInit /\ [][QueriesNext]_queriesVars

--------------------------------------------------------------------------------
(* Properties *)

\* Whoever follows the pages until one is not full has seen every video that was there
\* when he began, however many appear meanwhile and wherever in the order.  Whoever
\* stops at totalPages may miss some: no more than appeared between the two statements
\* of his last request (Count, List), which its total did not count.
NoneSkipped ==
  ended =>
    /\ query.until = "short" => first \subseteq shown
    /\ query.until = "total" => Cardinality(first \ shown) <= since

\* The details never list fewer frames than they count, and those of a video shown
\* as finished have all their results.
DetailNeverShort ==
  detail.is = "listed" =>
    /\ detail.frameCount <= detail.listed
    /\ detail.status = "success" => detail.complete
================================================================================
