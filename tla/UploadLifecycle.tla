---------------------------- MODULE UploadLifecycle ----------------------------
(***************************************************************************)
(* From the request for an upload to a video in processing: the two        *)
(* requests of the API, MinIO and its object-created webhook, the ingest   *)
(* worker that downloads a remote video, the confirmation both of them     *)
(* reach, and the ticker that expires uploads nobody confirmed.            *)
(***************************************************************************)
EXTENDS Integers, VideoDomain

CONSTANTS Video,        \* video ids
          MaxPuts,      \* bound: PUTs a client makes with one presigned URL
          MaxRetries    \* RABBITMQ_MAX_RETRIES, for the ingest event

ASSUME UploadLifecycleAssumption ==
  MaxPuts \in Nat /\ MaxRetries \in Nat

VARIABLES
  video,      \* status of each row, or absent
  stale,      \* videos created longer than UPLOAD_URL_TTL ago
  puts,       \* PUTs made with the presigned URL
  notes,      \* object-created notifications MinIO still has to deliver
  segmentJob, \* videos that have a segment job
  uploaded,   \* VideoUploaded events stored for the video
  expired,    \* VideoUploadExpired events stored for it
  ingest,     \* stage of the VideoIngestRequested event of the video
  tries,      \* its completed retries
  expiring    \* pending videos the expiry ticker listed, not yet written

vars == <<video, stale, puts, notes, segmentJob, uploaded, expired,
          ingest, tries, expiring>>

clientVars == <<stale, puts>>
ingestVars == <<ingest, tries>>

TypeOK ==
  /\ video \in [Video -> Status \cup {"absent"}]
  /\ stale \subseteq Video
  /\ puts \in [Video -> 0 .. MaxPuts]
  /\ notes \in [Video -> Nat]
  /\ segmentJob \subseteq Video
  /\ uploaded \in [Video -> Nat]
  /\ expired \in [Video -> Nat]
  /\ ingest \in [Video -> {"none", "queued", "loaded", "stored", "done", "dead"}]
  /\ tries \in [Video -> 0 .. MaxRetries]
  /\ expiring \subseteq Video

Init ==
  /\ video = [v \in Video |-> "absent"]
  /\ stale = {}
  /\ puts = [v \in Video |-> 0]
  /\ notes = [v \in Video |-> 0]
  /\ segmentJob = {}
  /\ uploaded = [v \in Video |-> 0]
  /\ expired = [v \in Video |-> 0]
  /\ ingest = [v \in Video |-> "none"]
  /\ tries = [v \in Video |-> 0]
  /\ expiring = {}

--------------------------------------------------------------------------------
(* The API *)

RequestUploadURL(v) ==
  /\ video[v] = "absent"
  /\ video' = [video EXCEPT ![v] = "pending"]
  /\ UNCHANGED <<clientVars, notes, segmentJob, uploaded, expired, ingestVars, expiring>>

\* Stores VideoIngestRequested next to VideoCreated.
RequestIngest(v) ==
  /\ video[v] = "absent"
  /\ video' = [video EXCEPT ![v] = "pending"]
  /\ ingest' = [ingest EXCEPT ![v] = "queued"]
  /\ UNCHANGED <<clientVars, notes, segmentJob, uploaded, expired, tries, expiring>>

TTLPasses(v) ==
  /\ video[v] # "absent" /\ v \notin stale
  /\ stale' = stale \cup {v}
  /\ UNCHANGED <<video, puts, notes, segmentJob, uploaded, expired, ingestVars, expiring>>

\* A PUT begun before the URL expired may end at any time after it.
ClientPut(v) ==
  /\ video[v] # "absent" /\ ingest[v] = "none"
  /\ puts[v] < MaxPuts
  /\ puts' = [puts EXCEPT ![v] = @ + 1]
  /\ notes' = [notes EXCEPT ![v] = @ + 1]
  /\ UNCHANGED <<video, stale, segmentJob, uploaded, expired, ingestVars, expiring>>

\* Mutant: the event is stored by every confirmation.
ConfirmAlwaysEmits(v) ==
  LET upload == MarkUploaded(video[v]) IN
    /\ video[v] # "absent"
    /\ upload.ok
    /\ video' = [video EXCEPT ![v] = upload.status]
    /\ segmentJob' = segmentJob \cup {v}
    /\ uploaded' = [uploaded EXCEPT ![v] = @ + 1]

\* ConfirmUpload in one transaction; the row is read FOR UPDATE, so two of them
\* do not overlap.
ConfirmUpload(v) ==
  LET upload == MarkUploaded(video[v]) IN
    /\ video[v] # "absent"
    /\ upload.ok
    /\ video' = [video EXCEPT ![v] = upload.status]
    /\ segmentJob' = segmentJob \cup {v}
    /\ uploaded' = IF upload.emits THEN [uploaded EXCEPT ![v] = @ + 1] ELSE uploaded

ConfirmRefused(v) ==
  /\ video[v] = "absent" \/ ~MarkUploaded(video[v]).ok
  /\ UNCHANGED <<video, segmentJob, uploaded>>

\* A notification of MinIO: delivered for good, or delivered again later (MinIO
\* retries on a 500, and may repeat what it delivered).  A refusal, or an object
\* over the size limit, is answered 200.
Notified(v) == notes' = [notes EXCEPT ![v] = @ - 1] \/ UNCHANGED notes

ObjectCreated(v) ==
  /\ notes[v] > 0
  /\ Notified(v)
  /\ ConfirmUpload(v) \/ ConfirmRefused(v)
  /\ UNCHANGED <<clientVars, expired, ingestVars, expiring>>

ObjectTooLarge(v) ==
  /\ notes[v] > 0
  /\ notes' = [notes EXCEPT ![v] = @ - 1]
  /\ UNCHANGED <<video, clientVars, segmentJob, uploaded, expired, ingestVars, expiring>>

--------------------------------------------------------------------------------
(* The ingest worker: one delivery at a time for the event of a video *)

IngestLoad(v) ==
  /\ ingest[v] = "queued"
  /\ ingest' = [ingest EXCEPT ![v] = IF video[v] = "pending" THEN "loaded" ELSE "done"]
  /\ UNCHANGED <<video, clientVars, notes, segmentJob, uploaded, expired, tries, expiring>>

\* A retryable failure goes round the retry queue, or to the dead letter queue.
IngestRetried(v) ==
  IF tries[v] < MaxRetries
  THEN ingest' = [ingest EXCEPT ![v] = "queued"] /\ tries' = [tries EXCEPT ![v] = @ + 1]
  ELSE ingest' = [ingest EXCEPT ![v] = "dead"] /\ UNCHANGED tries

\* A forbidden host, or a body over the limit.
IngestRefused(v) ==
  /\ ingest[v] = "loaded"
  /\ ingest' = [ingest EXCEPT ![v] = "dead"]
  /\ UNCHANGED <<video, clientVars, notes, segmentJob, uploaded, expired, tries, expiring>>

IngestFetchFails(v) ==
  /\ ingest[v] \in {"queued", "loaded"}
  /\ IngestRetried(v)
  /\ UNCHANGED <<video, clientVars, notes, segmentJob, uploaded, expired, expiring>>

\* The download is stored, which makes MinIO notify as for any other object.
IngestPut(v) ==
  /\ ingest[v] = "loaded"
  /\ ingest' = [ingest EXCEPT ![v] = "stored"]
  /\ notes' = [notes EXCEPT ![v] = @ + 1]
  /\ UNCHANGED <<video, clientVars, segmentJob, uploaded, expired, tries, expiring>>

IngestConfirm(v) ==
  /\ ingest[v] = "stored"
  /\ ConfirmUpload(v)
  /\ ingest' = [ingest EXCEPT ![v] = "done"]
  /\ UNCHANGED <<clientVars, notes, expired, tries, expiring>>

\* Mutant: the error of the confirmation is logged and dropped.
IngestConfirmErrorIgnored(v) ==
  /\ ingest[v] = "stored"
  /\ ingest' = [ingest EXCEPT ![v] = "done"]
  /\ UNCHANGED <<video, clientVars, notes, segmentJob, uploaded, expired, tries, expiring>>

\* Every error of the confirmation is retryable here, a refusal included.
IngestConfirmFails(v) ==
  /\ ingest[v] = "stored"
  /\ IngestRetried(v)
  /\ UNCHANGED <<video, clientVars, notes, segmentJob, uploaded, expired, expiring>>

\* The worker dies: the mark of the event stays, so its redelivery is skipped.
IngestCrash(v) ==
  /\ ingest[v] \in {"loaded", "stored"}
  /\ ingest' = [ingest EXCEPT ![v] = "dead"]
  /\ UNCHANGED <<video, clientVars, notes, segmentJob, uploaded, expired, tries, expiring>>

--------------------------------------------------------------------------------
(* The expiry ticker of the main worker *)

\* Mutant: the age is compared the wrong way round.
ListFreshPending ==
  /\ expiring = {}
  /\ \E v \in Video \ stale : video[v] = "pending"
  /\ expiring' = {v \in Video \ stale : video[v] = "pending"}
  /\ UNCHANGED <<video, clientVars, notes, segmentJob, uploaded, expired, ingestVars>>

ListExpiredPending ==
  /\ expiring = {}
  /\ \E v \in Video : v \in stale /\ video[v] = "pending"
  /\ expiring' = {v \in stale : video[v] = "pending"}
  /\ UNCHANGED <<video, clientVars, notes, segmentJob, uploaded, expired, ingestVars>>

\* The row listed as pending is written whole, whatever it has become.
ExpireUpload(v) ==
  LET expiry == MarkUploadExpired("pending") IN
    /\ v \in expiring
    /\ expiring' = expiring \ {v}
    /\ video' = [video EXCEPT ![v] = expiry.status]
    /\ expired' = [expired EXCEPT ![v] = @ + 1]
    /\ UNCHANGED <<clientVars, notes, segmentJob, uploaded, ingestVars>>

\* The transaction fails: logged, and left to the next tick.
ExpireFails(v) ==
  /\ v \in expiring
  /\ expiring' = expiring \ {v}
  /\ UNCHANGED <<video, clientVars, notes, segmentJob, uploaded, expired, ingestVars>>

\* What the stages behind VideoUploaded do to the row.
PipelineMoves(v) ==
  /\ uploaded[v] > 0
  /\ \E status \in Status \ {"pending", video[v]} : video' = [video EXCEPT ![v] = status]
  /\ UNCHANGED <<clientVars, notes, segmentJob, uploaded, expired, ingestVars, expiring>>

--------------------------------------------------------------------------------
Client(v) == RequestUploadURL(v) \/ RequestIngest(v) \/ TTLPasses(v) \/ ClientPut(v)

Ingest(v) ==
  IngestLoad(v) \/ IngestRefused(v) \/ IngestFetchFails(v) \/ IngestPut(v)
    \/ IngestConfirm(v) \/ IngestConfirmFails(v) \/ IngestCrash(v)

Expiry(v) == ExpireUpload(v) \/ ExpireFails(v)

Next ==
  \/ \E v \in Video :
       Client(v) \/ ObjectCreated(v) \/ ObjectTooLarge(v) \/ Ingest(v)
         \/ Expiry(v) \/ PipelineMoves(v)
  \/ ListExpiredPending

Spec == Init /\ [][Next]_vars

\* Time passes, the ticker ticks, and its transactions do not all fail.
Fairness ==
  /\ \A v \in Video : WF_vars(TTLPasses(v))
  /\ WF_vars(ListExpiredPending)
  /\ \A v \in Video : SF_vars(ExpireUpload(v)) /\ WF_vars(Ingest(v))

FairSpec == Spec /\ Fairness

--------------------------------------------------------------------------------
(* Properties *)

\* However often MinIO notifies, and whoever of the webhook and the ingest worker
\* is first, the pipeline is started at most once for a video, with its job.
StartedOnce ==
  \A v \in Video : uploaded[v] = IF v \in segmentJob THEN 1 ELSE 0

\* Nothing brings back a video to pending: the ticker cannot expire it twice, nor
\* a late notification start it after it expired unconfirmed.
PendingIsFresh ==
  \A v \in Video : video[v] \in {"absent", "pending"} => uploaded[v] = 0 /\ expired[v] = 0

ExpiredOnce == \A v \in Video : expired[v] <= 1

ExpiredStaysUnstarted ==
  [][\A v \in Video : expired[v] > 0 => uploaded'[v] = uploaded[v]]_vars

\* An ingest event the worker acknowledged as handled left a video that is
\* confirmed or failed, never one that still waits for its upload.
IngestSettles == \A v \in Video : ingest[v] = "done" => video[v] # "pending"

\* No upload waits for ever: it is confirmed, or the ticker fails it.
PendingEnds == \A v \in Video : (video[v] = "pending") ~> (video[v] # "pending")
================================================================================
