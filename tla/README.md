# leakcut-api: TLA+ specifications

Leakcut takes a video, cuts it into segments, extracts the frames of each,
reads the text on them (OCR) and classifies that text. The API and five worker
binaries share one PostgreSQL database and one RabbitMQ exchange, and most of
what can go wrong is in the space between them: events that are published
twice, handlers that are retried after they committed, rows that are written
back from copies, and stages that end when "the last one" says so. That space is
what these modules describe, together with two smaller ones at the edge: the rows
of users, written by webhooks and requests, and what a client reads.

Paths below are relative to the repository. `PROJECT.json` holds the same
information for tools: the map from definitions to lines, the runs, the mutants
of the code each property must catch, the hazards and the theorems.

## 1. The system

| component | code | state it keeps | operations |
|---|---|---|---|
| Outbox and relay | `internal/infrastructure/persistence/outbox` | `outbox_events` rows, unpublished or published | `StoreEvents` in the transaction of the aggregate; a tick of the relay (only in `cmd/worker`): fetch a batch, publish in order, stop at the first error, mark what was sent |
| RabbitMQ adapter | `internal/infrastructure/messaging/rabbitmq` | main, retry (TTL) and dead letter queue per worker, `x-death` counts | deliver, ack, nack to the retry queue, publish to the DLQ; one goroutine per delivery, up to the prefetch |
| Registry and dedup | `internal/application/registry`, `.../event/dedup` | `processed_events` (event, handler) | handlers of an event in order, each behind `dedup.With`: insert the mark, call, delete the mark on a retryable error |
| Video entity | `internal/domain/video/entity.go` | status `pending`, `processing`, `success`, `failed` | one `Mark…` method per transition, each with the statuses it accepts, keeps or refuses |
| Upload, ingest, expiry | `internal/application/command/video/{request_*,confirm_upload,ingest_remote,expire_stale_uploads}.go` | the video row, its segment job | presigned URL, MinIO notification, download of a remote URL, ticker that fails stale uploads |
| Segment stage | `.../segment_video.go`, `internal/domain/segment/plan.go` | segment rows, segment job, frame job | split, store the slices, commit segments + frame job + one event per segment |
| Frame extraction | `.../extract_frames.go` | segment and frame rows, frame job with a counter, ocr job, slices in MinIO | one handler per segment; per-frame upsert and OCR request; the last segment ends the extraction |
| OCR fan-in | `.../ocr_frames.go` | ocr rows, ocr job | one handler per result; whoever finds all rows ends the stage |
| Classification fan-in | `.../classify_frames.go` | classification rows, classify job | one handler per result and one for the end of OCR; whoever finds all rows makes the video a success |
| OCR worker | `cmd/ocr` (python) | its connection, the messages buffered on it | read a frame, publish a result of a fresh id, acknowledge; nack what cannot be parsed; reconnect |
| Realtime | `.../event/video/publish_realtime.go`, `internal/application/realtime`, `internal/infrastructure/centrifugo` | none | forwards events to Centrifugo with the time they were recorded; a refused push is retried by the consumer |
| Users, auth | `internal/interfaces/http/{handler/user_webhook_handler.go,middleware}`, `internal/application/command/{user,auth}` | user rows, `clerk_id` unique | create, update and delete by Clerk's webhooks; the first request of a user creates the row too |
| Queries | `internal/infrastructure/persistence/read`, `internal/domain/paginate` | none | the list of videos page by page, a count and a read each; the details of a video, a view and its frames |
| Classifiers | `internal/infrastructure/classify` | none | two engines, the Jev gateway over HTTP or local patterns, score a text; the threshold decides |
| HTTP, config, CLI, migrations | `cmd`, `internal/interfaces/http` | none of their own | |

Components call each other in two ways only. Inside a process a command handler
calls repositories, some of its calls grouped in a transaction (READ COMMITTED,
`FOR UPDATE` on the reads a transaction makes of a video). Between processes there are
only events: a transaction stores them in the outbox, and every effect of
another worker follows from the delivery of one.

What is hard about it:

- **Delivery.** At-least-once from the relay to the queue, a mark that is
  committed before the handler runs, retries counted by the broker, crashes that
  leave the mark behind.
- **Copies.** Every handler loads video and job outside a transaction, works for
  seconds or minutes, and writes the whole rows back (`Update` sets every
  column but the counter).
- **Fan-in.** The end of three stages is found by counting rows, from handlers
  that run at the same time.
- **Lost answers.** A transaction commits and the handler sees an error: it is
  retried on its own effects.
- **Two roads to one row.** A user is created by whichever of the webhook and the
  first request comes first, after a look-up outside any transaction.
- **Progress.** A counter incremented on copies, events stamped before their transaction and pushed
  in any order, to a client that ignores the older ones.
- **Reads in two statements.** A page and its total, a video and its frames, are
  read at different times.

What each component must keep:

| component | correct when |
|---|---|
| Outbox, broker, registry | a handler is never called twice at once, nor after it returned nil; what is stored is handled or dead-lettered |
| Upload, ingest, expiry | the pipeline of a video starts at most once, never after its expiry; nothing stays pending |
| Segment stage | the slices are announced all together or not at all, and are stored by then |
| Frame extraction | the counter is the number of finished segments, the end is concluded and announced once, and success means that all frames are there |
| Frame selection | the kept frames, once stored, cover whatever was on the screen, also when it drifts |
| OCR and classification | no stage ends on a part of the frames, each row comes with its request, late results still conclude, no secret that was read is dismissed |
| Classifiers | a number that is not a card for a slip, and a coordinate, are not flagged |
| Realtime | no result is counted twice, and the success arrives and stays, failed results set apart |
| OCR worker | every request is answered, and again only after a loss |
| Users | one identity per account, no user that was never announced, the last revision in the end unless an older one was handled after it |
| Queries | a full walk skips no video, details never list less than they count |

The properties are named in section 3, the hazards with their lines are in `PROJECT.json`.

## 2. The modules

```
HandlerOnce  <── implemented by ── EventDelivery ── MCEventDelivery
                                        └── EventDeliveryProofs

VideoDomain (the status machine, EXTENDed by the five below)
   ├── UploadLifecycle ── ClientProofs
   ├── SegmentStage (EXTENDS SegmentPlan) ── MCSegmentStage, SegmentStageProofs
   ├── FrameExtraction ── FrameExtractionProofs
   │        ├── implements ── ExtractionPhase
   │        └── SegmentCoverage (EXTENDS FrameSelection) ── MCFrameExtraction
   ├── FrameRecognition (EXTENDS Classifier) ── MCFrameRecognition, FrameRecognitionProofs
   │        └── INSTANCEs ─── ExtractionPhase
   └── VideoQueries ── ClientProofs (EXTENDS both)

ProgressFeed ── ProgressFeedProofs
OCRWorker ── OCRWorkerProofs
UserSync ── MCUserSync, UserSyncProofs
```

The layers are tied by refinement. `HandlerOnce` is what the event machinery
promises to one handler: never two calls at once, none after one returned nil.
`EventDelivery` is shown to implement it, and the modules of the pipeline model
a delivery as just that: one attempt at a time, at most `MaxRetries` retries, no call
after a success, none after a crash. Likewise `FrameExtraction` implements
`ExtractionPhase`, and `FrameRecognition` runs over `ExtractionPhase` instead of
over the segments. That the calls of `SegmentStage`, `FrameExtraction` and
`FrameRecognition` are in turn such as `HandlerOnce` allows is a theorem of each (section 4).

**HandlerOnce** (abstract). `running`, `done`, `dropped` pairs of an event and a
handler; `Claim`, `Finish`, `Release`, `Drop`.

**EventDelivery.** `outbox`, `batch`, `sent` are the relay's tick; `where`,
`attempts`, `dlq` the broker's view of each copy of a message; `pc`, `msg`,
`hnd`, `owns`, `outcome` a consumer goroutine inside `handleDelivery` →
`Dispatch` → `dedup.With`; `processed` the marks; `succeeded` a history of the
calls that returned nil. Each statement that another process can observe is an
action: the insert of the mark, the call, the delete of the mark, the publication
to the DLQ, the acknowledgement. `Faults` names what may go wrong: relay stops
between publishing and marking, lost publication, crash or SIGTERM of a consumer,
closed channel, unclassified handler error, lost answer of the mark's insert,
failing delete of the mark, failing DLQ publication, operator replay. `dlq` also remembers a dead letter
whose publication failed and was only logged.

**VideoDomain.** Every `Mark…` and `Record…` method of the entity that something
calls, as a function of the status it finds: is it refused, the new status, does
it record an event.

**UploadLifecycle.** Per video the row (`video`), the notifications MinIO still owes
(`notes`), the segment job, the numbers of `VideoUploaded` and `VideoUploadExpired`
events stored, the ingest event with its retries, and the ticker's list
(`expiring`). `ConfirmUpload` is one step since its transaction reads the row
`FOR UPDATE`; `ListExpiredPending` and `ExpireUpload` are two, since the ticker
lists outside and writes back the row as listed. What later stages do to the row
is `PipelineMoves`: any status but `pending`.

**SegmentPlan.** `PlanSegments` and `NormalizePlanConfig` in milliseconds, and `CutsOf`, the
numbers of files ffmpeg may make of a plan: it cuts a copied stream at key frames.

**SegmentStage.** The handler of `video.uploaded.v1` for one video: its three loads, the road
it takes (`ListSegments`), `markExtracting`, the upload of each slice, `markFailed` and
`commitSegments`, each transaction a step with an answer that may be lost. `ready`,
`extracting`, `failures` count stored events; `seenVideo` and `seenJob` are the copies of the attempt.
An error of `commitSegments` is not classified, so it leads to `skipped`: the consumer redelivers,
the mark stops the call. `ExpireUpload` is the write of a ticker that listed the video before
it was confirmed. The body of `republishPending` is left out, since `NeverRepublishes` holds.

**ExtractionPhase** (abstract). Frames appear one by one; once the extraction is
announced as done, every frame is there and the set is final.

**FrameExtraction.** The handlers of all segments of one video. `video`, `job`,
`segment`, `frames`, `ocrJob`, `requested` are rows and stored events;
`seenVideo`, `seenJob`, `seenOCRJob` what the current attempt loaded; `progress` what its pool
of goroutines did with each frame. `load` is three steps, each upsert, request
and look-up a step of its own, `completeSegment`, `failSegment` and
`maybeFinalize` one transaction each, whose commit may be followed by a lost
answer. Which rows are written from the copy and which from the database follows the code:
`CompleteRows` takes the counter from the atomic increment and the video from the
copy, `FailSegment` takes both from the copy.

**FrameSelection.** The loop of `ExtractFrames` over the candidates ffmpeg decodes: a hash is a
set of bits, the distance the number of bits that differ, timestamps are rounded as in the code.
`Kept` are the candidates that are handed over; a broken one ends the loop with an error.
**SegmentCoverage** joins it with the handlers. A frame is a kept candidate under its index (`IndexOf`); the handlers
do not know what the slice shows, so the property asks for every slice with as many frames to keep: the ones that have a
row and a request to the OCR worker, `Read(s)`, must be a set of indexes that covers it (`Covering`).

**Classifier.** `EvaluateFrame` is what `client.go` makes of an HTTP reply: an error of the call or a
status 429 or 5xx makes no row, any other a row; the score of an answer is its probability or its noul.
`LocalEvaluate` is what `local.go` makes of what its patterns found. The patterns themselves are left out:
`Findings` lists what they find in a text with a secret and in one without, among it every
number that differs from a card by one slip. `Classify` is called by `ClassifyFrame`.

**FrameRecognition.** A task is a call of `PersistFrame` ("ocr"), `HandleFrame`
("classify") or `Finalize` ("finalize"). `ocr`, `cls`, `job`, `video` are rows,
`events` the calls whose event was stored, `seen` the copy of the attempt. A task
goes through the reads and writes of its handler one by one (`pc`). A segment that
ends writes the video back as `processing` (`SegmentEnds`), as `CompleteRows` does. A result is a text
with a secret or without one, one below the minimal confidence, no text, or a failure; `cls` holds what the engine of
`Classifier` made of it.

**ProgressFeed.** The counter the owner of a video watches. `job` is the ocr job with its completed count,
written back whole from the copies in `seen`; each event takes its stamp from `clock` when it is
recorded, and is in `events` when its transaction commits. `Push` is the realtime handler, Centrifugo and
the client of `docs/realtime.md` together; `PushFails` a push that is refused, retried by the
consumer until it is dead-lettered. Only stamps within one stage are compared, so one stage is enough: the others
use the same road.

**OCRWorker.** `main`, `retry`, `unacked` are the broker's queues and what each
connection holds; `inbox`, `task`, `wire`, `link` a replica: delivered and waiting, under work,
sent and not yet handled, and whether its connection is up, lost without its
knowledge, or down. `OnMessage` is the head of `on_message`, `ProcessFrame` its rest: what it sends goes
over the wire in the order of the code, the result before the acknowledgement. A connection that
drops takes the wire with it, and the broker puts back what was not acknowledged.

**UserSync.** One Clerk account (`clerk`: per revision whether it is banned; `gone`), the
webhooks Svix still delivers (`hooks`, any number of updates at once, handled in any order), the row with the revision
its columns hold, and the ids of the `UserCreated` and `UserDeleted` events stored. A webhook handler is two steps, the
look-up and the write; a request three: look-up, fetch from Clerk, insert.
`InsertUser` fails on a row that came in between (`clerk_id` is unique); `UpdateUser` is GORM's
`Save`, which inserts a row it does not find and asks nothing of the revision it overwrites; `DeleteUser` deletes by
the id it looked up. `newest` and `overtaken` are history: the newest revision the row ever held, and whether the last update saved was older.

**VideoQueries.** A client that walks the list (`Count` and `List` are the two statements of
a request) while videos are added, or one that reads details (`FindByID`,
`ListFrames`) while the pipeline moves as the other modules promise: frames are added
until the frame job succeeds, a video succeeds with all its results, everything else may be
written back. A video of the list is its `created_at`, which Go takes (`entity.go:37`) before the object is presigned and the row
inserted (`request_upload_url.go:49-63`). Parallel uploads may commit in another order, so `AddVideo` lets any stamp not
yet used appear, among older and newer ones; the position of a row is the number of rows up to it (`UpTo`). Two
videos are assumed never to have the same stamp: the code orders by nothing else, and between two pages PostgreSQL
may exchange rows that are equal. A client stops at `totalPages` or at the first page that is not full (`query.until`);
`since` counts what appeared after the total of its request.

## 3. The runs

Every run finishes within about a minute and a half on two cores. Each property of a
passing run has a mutant, a version of one definition with a plausible bug
in it, under which TLC finds the property violated. Mutants stand beside the
definition they replace, and begin with "Mutant:".

| run | instance | shows |
|---|---|---|
| `delivery_faults` | 1 event, 2 handlers, 2 goroutines, up to 2 publications, 1 retry, all faults | `OneCallAtATime`; `NeverCalledAgain`; `ImplementsHandlerOnce` |
| `delivery_live` | the same with the faults that leave a trace (relay stops, plain errors, lost answers of marks, failing releases, failing dead letters, replays) | `NoSilentLoss`: what is marked published is handled, on its way, or has left a dead letter, its log line or the mark of an abandoned call; `EventuallySettled`: every stored event ends that way |
| `upload_races` | 2 videos, 1 PUT each, 1 retry | `StartedOnce`, `ExpiredStaysUnstarted`, `IngestSettles`, `PendingEnds` |
| `segment_stage` | durations on both sides of each threshold, at most 3 slices, 2 retries, all faults | `FanOutIsWhole`, `AnnouncedIsStored`, `AttemptsAnnounced`, `PlanCovers` |
| `extract` | 2 segments with 2 and 1 frames, 1 retry, all faults but truncation; up to 5 candidates with hashes of 2 bits, at 2 rates | `CounterIsExact`, `AnnouncedOnce`, `SuccessIsComplete`, `CompleteIsConcluded`, `SliceStillThere`, `JobDecidedOnce`, `ImplementsExtractionPhase`; `SelectionCovers`: whatever the slice of a segment in success shows, the frames stored and sent to the OCR worker cover it; `ExtractionDecided`: the job is decided unless a handler has given up on its segment |
| `recognition_live` | 2 frames, a result with or without a secret each, the local engine, 1 retry, no faults | `SuccessIsComplete`, `JobSuccessIsComplete`, `FlaggedShowsSecret`; `LateResultsConclude` |
| `recognition_faults` | 1 frame, any result, the Jev engine with any reply, 2 retries, all faults | `ChainUnbroken`: an ocr row always comes with its request to classify; `NoLeakDismissed`: a frame that was read as a secret is never skipped nor cleared |
| `progress_feed` | 2 results, one of which may be a failed one; 1 lost answer, 1 event that Centrifugo refuses, 1 retry | `CountIsBacked`; `SuccessStaysShown`: a success that is shown stays, unless a failed result may be persisted again after a lost answer; `SuccessReachesClient` |
| `ocr_worker` | 2 replicas, prefetch 2; a readable or unreadable, a blank, an incomplete and an unparsable message; one loss, one outage | `NoRequestLost`, `AnsweredAgainOnlyAfterDrop`, `EveryRequestAnswered` |
| `user_sync` | 2 webhook handlers, 2 requests, 2 updates, 1 lost answer, 3 inserts, failing statements | `IdentityIsStable`, `RemovalIsAnnounced`, `ServedAsStored`; `SyncedWhenSettled`: the row has held the last revision and holds it still, unless an older update was saved after a newer one |
| `video_queries` | up to 4 videos, limits below, at and above the maximum; 2 frames | `NoneSkipped`: a client that goes on to a page that is not full was shown every video that was there when it began, one that stops at `totalPages` misses no more than appeared between the two statements of its last request; `DetailNeverShort` |

The type invariants of the modules, and `PendingIsFresh` and `ExpiredOnce` of `UploadLifecycle`,
`NeverRepublishes` of `SegmentStage`, are theorems (section 4) and not checked by the runs again.

One run checks what a document of the repository says, and TLC refutes it:
`recognition_stuck`. `docs/ocr.md:11` has the end of OCR announced "when extract done + all OCR
rows". In the code, a handler that loaded a running frame job returns without
looking again (`ocr_frames.go:82`); when the last result falls in that window nobody
looks again, and the video stays in processing.

**Bounds.** `MaxRetries` is 1 or 2 (3 in production): one retry already gives an
attempt that runs on the effects of an earlier one, the second one adds a retry of
a retry. `MaxPublishes = 2` is a republication after a stop of the relay.
Two goroutines, segments or videos are enough for every race the code has, since no
step relates three of them; two frames in one segment and one in another let
a segment be between its frames while the other ends. `MaxPuts = 1` with
notifications that MinIO may repeat without bound gives any number of confirmations.
For the same reason `OCRWorker` has two replicas with a buffer of two, so that a request can wait
behind another one when the connection drops. `MaxUsers = 3` inserts are a row, the one after a
deletion, and one more; symmetry between the handlers, and between the requests, is sound since
no property tells them apart. `VideoQueries` has limits that divide the number of videos and
limits that do not. Hashes of two bits have distances on both sides of the thresholds 1 and 2, and five candidates
let a picture drift past the threshold, and the interval pass, one after the other. The cards of `Classifier`
have an even and an odd length, as the digits that count double begin at the end. Two results are enough for
`ProgressFeed`: a lost increment, an event that overtakes another and a conclusion need two. The theorems of section 4 remove the bounds for the safety
properties.

**Fairness.** `EventDelivery`: weak fairness of a goroutine, of the retry TTL and
of the fetch by the relay's ticker; strong fairness of the publication of a
row, of marking and of the delivery of a copy, which other steps
may disable again and again but no permanent outage does. It is assumed only in
`delivery_live`, with the relay's stops bounded by `MaxPublishes`. `UploadLifecycle`:
time passes, the ticker is a `time.Ticker` that outlives the failure of a
single pass (`ExpireFails` is logged), hence strong fairness of the write. Nothing
is assumed of clients, of MinIO, or of the ingest. `FrameExtraction`,
`FrameRecognition` and `ProgressFeed`: a handler that was given a message goes on (each call has a timeout
in the code), for `recognition_live` the extraction comes to an end, and for `progress_feed` some event that waits
is pushed. `OCRWorker`: the broker
and the replicas keep going, the TTL passes, and a replica that died is started again (`restart:
unless-stopped`); losses are bounded by `MaxDrops` and nothing is fair about them. `SegmentStage`,
`UserSync` and `VideoQueries` have safety properties only.

**Faults.** `delivery_live` leaves out a closed channel and a lost publication, which lose an event
without a trace (section 5), and a crash, which may come again for ever; `NoSilentLoss` is proved for crashes too.
Truncation by ffmpeg is left out of `extract`, since `SuccessIsComplete` and `SelectionCovers` are false with it (section 5);
the theorems about the counter hold with it.

**Deadlock** is not checked: a pipeline that has run, and a system without
requests, stop.

## 4. What is proved

Eight modules hold theorems, for every value of the constants that satisfies the `ASSUME` of the
module: `EventDeliveryProofs`, `ClientProofs` (about `UploadLifecycle` and `VideoQueries`), `SegmentStageProofs`,
`FrameExtractionProofs`, `FrameRecognitionProofs`, `OCRWorkerProofs`, `ProgressFeedProofs` and `UserSyncProofs`.
Every safety property of a passing run, and the type invariant of every module that has one, is stated by one
of them. Hypotheses beyond the `ASSUME`s are written in the theorems and named below.

*EventDelivery.* `TypeCorrect` needs a strengthening: a copy that waits in the retry
queue has been there fewer than `MaxRetries` times, since the count is only
incremented when the TTL expires (`RetryLeft`). `OneCallAtATime` and
`NeverCalledAgain` are inductive together with "whoever is in a call holds the mark, and
what succeeded keeps it" (`MarkInv`). All steps fall in six kinds as far as marks and calls are
concerned (`StepKinds`); that lemma is used again for the refinement,
`DeliveryImplementsHandlerOnce`, where `running` is the set of pairs somebody is in a
call of, and `dropped` the marks nobody will ever release. `NoSilentLoss` is proved for all faults
but a closed channel and a lost publication. It is not inductive: a goroutine that skips a marked handler
relies on the one inside it. `TraceInv` says it one handler at a time (the handler has succeeded, some copy
may still reach it, or a trace is left), over `HeldInv`: a delivery is held by one goroutine.

*UploadLifecycle.* `StartedOnce` follows from: a pending video has neither started nor
expired, and no started video is absent. `IngestSettles`, `ExpiredOnce` and
`ExpiredStaysUnstarted` need that what the ticker listed and has not written has
not expired yet, which is where the single ticker of `cmd/worker` matters.

*VideoQueries.* `ClientProofs` extends it beside `UploadLifecycle`, for which its specification, initial predicate and
type invariant have names of their own (`QueriesSpec`, `QueriesInit`, `QueriesTypeOK`). `NoneSkipped` is inductive as `WalkInv`: rows never leave the list, so whatever appears, and wherever, can only move a
video further on; what was there at the beginning has been shown if it stands on a page already passed, as it stood no
further when that page was read. `Positions` says how positions move, `PageOf` that a page holds what stands on its places.
A page that is not full is followed by nothing. At `totalPages` the pages hold the counted total (`PagesHoldTheTotal`, the
rounding in `Paginate`), and no more rows can stand behind them than appeared since that total was read (`NobodyFarBehind`).
`DetailNeverShort` needs what the first statement found (`ViewInv`): frames are only added, and a video
in success has all its results, so the second statement cannot find less. The type invariant was false
for `MaxVideos = 0` and for the query of a client that reads details, which has no limit; the module now says
`MaxVideos \in Nat \ {0}` and gives that query its place in `Query`.

*SegmentStage.* `StageInv` joins the properties with what an attempt relies on: its copy of
the job is the row, since nobody else writes it (`AttemptInv`), nothing is committed
while it is at work, and slices are stored from the first on (`SliceInv`). The video row is
written by the expiry ticker too, and no property needs more than its type. `PlanCovers` is
arithmetic on the initial state: `CeilDivCovers` and `CeilDivAtMost` say what rounding up gives, and no
step changes the file.

*FrameExtraction.* The counter is proved exact through `CountInv`: the statuses the rows and
copies can have (`StatusInv`), what a handler past its load knows (`WorkingInv`: its own segment
is unfinished, its copy of the job is undecided), and a counter that never exceeds the
finished segments (`CounterInv`). Types, `CounterIsExact`, `AnnouncedOnce`,
`CompleteIsConcluded` and `JobDecidedOnce` are proved for any faults. `SuccessIsComplete` and the
refinement of `ExtractionPhase` also need `DataInv` (what the pool reports is in the tables) and the
hypothesis that ffmpeg does not truncate: with a truncated segment, frames are missing
and the job succeeds all the same. `SliceStillThere` follows from `SliceInv`, under every fault: a slice that is gone
belongs to a finished segment, who is about to delete its own has finished it, and who is about to delete them all has
seen them all finished.

*FrameSelection.* `KeptCovers` holds for slices of any length, any hashes and any parameters. What is kept is defined by a
recursive function (`LastKept`), so the proof first shows that the recursion has a solution (`RecursionExists`,
`LastKeptDef`) and then goes by induction over the candidates, as the absence of a least candidate for which
the claim fails (`LeastNumber`). It turns on the comparison being with the last kept frame: then "differs by less
than the threshold, and less than the interval ago" is what not being kept means. `SelectionCovers` joins it with
`DataInv`: a segment in success has all its frames stored and requested, so their indexes are those of all the kept candidates
(`AllIndexesCover`). It has the hypothesis of `SuccessIsComplete`, that ffmpeg does not truncate.

*FrameRecognition.* Rows only grow (`RowsGrow`), so a copy never shows more than there is, and whoever
counts rows after it saw the extraction done counts all frames. That is `TaskInv`, together with: a
call past its loads has not seen a success, and one about to conclude has found everything there.
`RequestInv` says that a request exists only with its row. Types, `SuccessIsComplete`,
`JobSuccessIsComplete` and `ChainUnbroken` follow for any faults and both engines. `NoLeakDismissed` also
needs `EffectiveThreshold <= 93`, the score the model gives a certain answer: above it
an engine dismisses what it found. The step that matters is that the text is read after the
row whose request made the call (`LeakTask`), so no late copy turns it into a missing one.

`FlaggedShowsSecret` is the other direction. `FlagInv` says that a row with a secret, a copy of one that is being classified, and
a leak are all of a frame that shows a secret in some reading. It rests on what the engines answer for a text without one.
For the local engine that is the check digit: `SlipIsNoticed` proves for numbers of any
length that `LuhnValid` fails on every misread digit and on every exchange of neighbours but 0 and 9, from how
far the change moves the sum (`LuhnSum`, a recursive function, by the same induction as above), and the texts of
the model are slips of valid cards, short numbers and coordinates. The gateway may report two per cent for a text without a
secret, so the theorem has the hypothesis `Engine = "local" \/ EffectiveThreshold > 2`; a deployment that
lowers the threshold to 1 or 2 would flag such answers (0 and less mean the default of 70).

*OCRWorker.* An acknowledgement on the wire is behind a result of its request, or the broker has one
(`AckBacked`). What a connection loses is the whole wire, which keeps that; sending the result first
is what establishes it.
`AnsweredAgainOnlyAfterDrop` and the types follow from `PlaceInv`: each request is in one place only (`Apart`: the queues and what each
connection has outstanding are disjoint and without repetition), what a connection has is delivered, in work or answered on the wire but
not both (`ConnectionInv`), and a request has at most one result more than there were losses, none more while it is still to be
answered (`AnswerInv`). A loss returns what was out to the queue and is itself the one more that is allowed.

*ProgressFeed.* `CountIsBacked` is inductive only with what failed results still owe: a failed row whose handler is
yet to persist it took a lost answer, and may be counted once more (`Owed`, `Backing`). A copy
never holds more than `Backing`, and `Backing` never falls.
`SuccessStaysShown` rests on `OrderInv`: until a failed result may be repeated, the success is stamped after every
other event there is and, since all rows are there by then, after every one there will be (`StampOrder`); whoever is
about to write a result has no row yet. The exception is in the property: a failed result is persisted again
after a lost answer, stamped after the success. It takes both, a video with a failed result and a lost answer (`Repeatable`).
The types include the bounds of the model: `BoundsInv` counts the stamps every handler has
still to take (`Dues`) and shows that they never exceed what `Stamp` has left, so no property holds only because
a number ran out.

*UserSync.* `UserInv` adds to the properties that whoever holds a row holds one that was announced
(`IdInv`), that a request past its look-up has fetched a revision there is (`RequestInv`), and that
nobody has a webhook of a deletion before the deletion (`DeletionInv`), which is why a row can only
go when the account is gone. `TableStep` states what a step of any handler does to the
table; `IdentityIsStable` follows from it. `SyncedWhenSettled` needs a second invariant, `SyncInv`: while the account exists,
the row has held the last revision or a webhook that will bring it is still to come (`RowInv`), for an update is only answered with a 2xx
when it was saved; a row that is behind what it has held got there by an update that was overtaken (`HeldInv`); the row a
handler has loaded is still there (`SeenInv`), and nothing a handler or a request holds is newer than the account
(`SentInv`, `FetchedInv`). With updates handled in any order no more can be promised: the property names the one exception.

*The promise of HandlerOnce, used.* `SegmentImplementsHandlerOnce`, `ExtractionImplementsHandlerOnce` and
`RecognitionImplementsHandlerOnce` close the circle of section 2: with the calls in progress, returned and given up as `running`, `done`
and `dropped`, every step of these modules is a step of `HandlerOnce` or a stutter, so they assume no call that
`EventDelivery` was not shown to allow. A crash, and an error that leaves the mark behind, end in `done` or `dropped`, for
the mark has the event skipped. The modules use this much of the promise and no more: that a call is ever made is left to
their fairness, and that one is possible at all is `EventuallySettled`.

**Only model-checked.** The liveness properties, since the proof system reaches neither weak and strong fairness
(`ENABLED`) nor the well-founded arguments over them: `EventuallySettled`, `PendingEnds`, `ExtractionDecided`,
`LateResultsConclude`, `EveryRequestAnswered`, `SuccessReachesClient`; and `EndOfOCRAnnounced`, which the code violates.

## 5. Known differences without a run of their own

Met while modelling. The behaviour is in the modules unless a line says otherwise; the
disagreement is not checked.

Delivery:

- The mark is committed before the handler runs (`with_dedup.go:34`), so a crash in between makes
  the redelivery a no-op and the event is lost; `.cursor/rules/architecture.mdc:214` asks for
  the mark in the transaction of the side effect (`Crash`, `AlreadyProcessed`).
- An unclassified error (`commitSegments` in `segment_video.go`; the transaction of `maybeFinalize`,
  `extract_frames.go:482`, which never runs, as `NothingToFinalize` in `FrameExtractionProofs` shows) is retried by the
  consumer with its mark kept, so the retry does nothing; `with_dedup.go:23` says the mark is released (`HandlerFails` with `plain`).
- When the channel closes under a handler, the broker redelivers; the copy finds the mark and is
  acknowledged, and if the first call then fails its error has nowhere to go: the event is lost
  without a trace (`Disconnect`).
- A failed publication to the DLQ is logged and the message acknowledged
  (`consumer.go:142`, `SendToDLQ` with `dlq_publish`): the log line is the only trace.
- A dead letter that is put back is skipped by the handler that failed without a
  retryable error: its mark is kept (`Replay`, `AlreadyProcessed`).

The video and its stages:

- The expiry ticker writes the whole row as it listed it, so a video that was confirmed in between
  becomes failed while its pipeline runs; `docs/frame.md:42` says failed means "Any job
  failed, or upload expired", and `MarkUploadExpired` (`entity.go:490`) refuses a video that is
  not pending (`ExpireUpload`).
- When the transaction of `commitSegments` fails, its error is not classified
  (`segment_video.go:266`): the retry is skipped and the video stays in processing, where
  `docs/frame.md:80` promises a failure and the DLQ.
- `segment.expected_segment_count` is the number of files ffmpeg made; `docs/segment.md:61` calls it the
  number of slices planned.
- A segment that completes writes the video as its attempt loaded it (`extract_frames.go:433`),
  over a failure another segment recorded: the frame job is failed, the video in processing, though
  `docs/frame.md:42` says failed when any job failed (`CompleteRows`).
- `markProcessing` (`ocr_frames.go:142`) writes the video as loaded and can take it back from success;
  `docs/frame.md:35` has no way out of success.
- Retries that run out on a retryable error leave the frame job in `pending` and the
  video in `processing`; `docs/frame.md:80-81` promises `extraction_failed`.
- The frame job goes from `pending` to `success`; `docs/frame.md:35` has
  `processing` in between.
- An ffmpeg that dies after the first kept frame goes unnoticed: the segment succeeds with what there is
  (`truncate`). When that happens on a retry whose earlier attempt stored more frames, one of those has a row
  without a request to the OCR worker, and the video cannot end.
- After a candidate that does not decode, the extractor waits for ffmpeg without reading the rest of
  its output (`extractor.go`); ffmpeg may block on the full pipe until the timeout of the stage (not modelled: time
  inside one attempt).
- `docs/frame.md:66` has OCR start at the end of the extraction, `docs/ocr.md:14` and the
  code with each frame.
- `completeSegment` locks the job row before the video row, `failSegment` the other way
  round; the database aborts one of them (`fail_tx`), and the error of `failSegment` is dropped.

OCR, classification, progress:

- A frame whose first result held no text stays `skipped` when a second
  result (the OCR worker answers a redelivered request with a new event id) holds some.
- A row of a leak can be overwritten by the `failed` row of a concurrent call for the same frame, and
  by `unanswered` when the gateway replies 200 without answers (`ClassifyFrame`).
- A reply of status 200 without any answer makes a success of probability 0, not a failure (`EvaluateFrame`).
- A hit of the local engine scores 0.95 (`LocalHitScore`), so it flags nothing under a `CLASSIFY_THRESHOLD`
  above that; and a word of geography anywhere in a text masks its phone and card numbers (`HasPhoneNumber`,
  `HasLuhnNumber`).
- `ocrCompletedCount` is incremented on a copy: concurrent results lose increments, `markProcessing` starts
  the count again with the rows it listed, and a failed result that is persisted again after a lost answer is counted twice
  (`CountIsBacked` bounds it). No decision depends on the count.
- `expectedFrameCount` is written with the first result and not again while the extraction goes on, though
  `docs/realtime.md:42` shows it as the denominator of the progress (left out of `ProgressFeed`).
- Stamps are taken before the transactions commit, so an event with an earlier stamp may hold what
  was written later (`RecordEvent`); the client of `docs/realtime.md` keeps the later stamp.
- A failed result that is persisted again after a lost answer is announced after the success of the job, and a client
  that was shown the success goes back to the progress (`SuccessStaysShown` sets the case apart).
- `docs/realtime.md:38` lists a `job.updated` with the success of the segment job; no code stores an
  event for it, and nothing pushes an expired upload (not modelled).

The OCR worker:

- A message that cannot be parsed goes round the retry queue without a limit, and the queue
  `ocr.dlq` (`worker.py:31`) is declared and never written (`OnMessage`, `Handle`).
- An outage of the storage, of the decoder or of an engine is answered as the final result
  `failed`; nothing reads that frame again (`OCRFrame`).
- A request without a frame id or storage key is acknowledged and never answered.

Users and queries:

- The webhook that loses the race against the first request answers 500, and a request that loses it
  answers 401; `docs/webhooks.md:28` says that creation is skipped if the id exists. Svix's next
  delivery, and the client's next request, succeed (`CreateUser`, `CreateRequester`).
- `Save` of a user that was deleted since its look-up inserts the row again; so do a late
  `user.created` and a request with a token that is still valid while Clerk still knows the account (`UpdateUser`).
- Of two updates that overtake each other the one handled last stays, whatever its age: a ban can be lost until
  the next update (`Save`; `SyncedWhenSettled` sets the case apart). Two handlers may both store `UserDeleted`.
- A client that stops at `totalPages` can miss videos that were there when it began: the total is counted before the
  rows are read, and a video that appears in between, older or newer by its stamp, pushes others past the last page (`NoneSkipped` bounds
  how many). A video may also be shown on two pages.

## 6. Not modelled

The HTTP layer (routing, validation, presentation), configuration, wiring, the CLI and migrations: they keep no state
of their own. Of the modelled parts, what no property tells apart is left out: payloads and
failure reasons, the regular expressions of the local engine and the text of the questions to the gateway, lines, boxes and
categories of a result, thumbnails and the measured length of slices, the decoding of images, the tokens and
channels of Centrifugo, the progress of the stages other than OCR (they use the same road), the
search and the other sort columns of the list, the queries of users, the columns of a profile, the
unique e-mail and `UserUpdated` events, the signature of webhooks.

## 7. Plan

1. Done: the component modules, the two abstract specifications, the classifiers and the selection of frames
   as operators joined with the handlers that call them, and the proofs above.
2. Done: the safety properties the runs check, as theorems.
3. Left: the calls of `ProgressFeed` and `UploadLifecycle` as refinements of `HandlerOnce` too, and lemmas that
   liveness would rest on (a handler that is not done has a step).
4. The composition of `SegmentStage` with the start of `FrameExtraction`, through an abstract fan-out that
   the former implements; duplicated answers of `OCRWorker` feeding `FrameRecognition`.
