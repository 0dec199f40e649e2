# Tapetum: a verification of the recorder

Tapetum is a network video recorder: one daemon (`src/cmd/tapetumd`) pulls RTSP
streams from cameras, cuts them into segments, indexes the segments in
PostgreSQL, moves old ones to S3, deletes expired ones, detects motion, and
serves live view, playback, export and notifications over HTTP.

This directory holds TLA+ models of the daemon's components, wherever goroutines,
requests, time or failures make them hard, the TLC configurations that check them
on small instances, and TLAPS proofs of their main invariants for all instances.
Paths below are relative to the repository.

    tlc -config ArchiveFaults.cfg ArchiveProofs     # a run: module and cfg as in PROJECT.json
    tlapm ArchiveProofs.tla                         # a proof module

`PROJECT.json` lists the runs, the line ranges each definition stands for, the
mutations of the code each property detects, the hazards and the theorems.

## 1. The system

| Component (source) | State it keeps | Operations | Talks to |
|---|---|---|---|
| Ingest supervisor (`ingest/ingest.go`) | `workers`: camera to worker, under a mutex | Start, Sync, Remove | camera store, workers |
| Camera worker (`ingest/worker.go`) | session loop position, back-off, `up`, last status | RTSP session, health tick, gap and status writes | recorder, live hub, index, camera store |
| Segment recorder (`record/recorder.go`) | open segment, samples, motion ring, `motionActive`, sequence number; under a mutex | WriteVideo, MotionActive, Close | storage, segment index |
| Segment index (`record/store.go`) | rows of `recording_segments`, `recording_gaps` | insert, delete, mark tiered, protect, listings | PostgreSQL |
| Retention janitor (`record/janitor.go`) | its own listing of rows to evict | age pass, size pass | index, storage |
| S3 tierer (`record/tiering.go`) | its own listing of rows to tier | upload, verify, mark, unlink | index, both storage tiers |
| Storage backends (`storage/`) | files, objects; a cache of S3 backends | Put, Open, Stat, Delete | disk, S3 |
| Event bus (`events/bus.go`) | per topic, the subscribers' buffered channels | Subscribe, lossy Publish | everybody |
| Events manager (`events/manager.go`, `events/store.go`) | `open`: camera to open event | motion start and end, clip, pins, snapshot | bus, index, WebSocket hub, notifications |
| Recorder bridge (`cmd/tapetumd/main.go`) | two subscriptions | passes motion on to the recorder | bus, recorder |
| Motion detection (`detect/`) | per camera: score, active, post-roll, cooldown | start, sample, end; supervised | bus |
| ONVIF pull client (`onvif/pullpoint.go`) | per camera: subscription, `active` | pull loop, Sync | camera, bus |
| Live hub (`live/`) | per stream: GOP ring, subscribers, codec parameters | Begin, Offer, Subscribe | worker, HTTP handlers |
| WebSocket hub (`ws/hub.go`) | copy-on-write set of clients | add, remove, Broadcast | HTTP handlers |
| Transcode cache (`transcode/`) | in-flight builds, cached files | Segment, build, evict | ffmpeg, storage |
| Camera pictures (`ingest/snapshot.go`) | newest key frame and picture per stream, the decode in flight | picture, decode, fail | worker, ffmpeg, HTTP handlers |
| Clip export (`export/`) | rows of `exports` | create, process, time out | storage, ffmpeg |
| Notifications (`notify/`) | cooldown per rule, delivery log | match, deliver, retry | bus, mail, webhooks |
| Users, sessions, tokens, rate limits (`auth/`, `api/{auth,users,setup,tokens}_handlers.go`) | database rows; attempts and probes in memory | set up, log in, change and delete accounts, in several statements each | database |
| Cameras, settings (`camera/`, `settings/`, `notify/store.go`) | database rows | read-merge-write updates | ONVIF device, S3 |
| Timeline, playlists, event feed (`api/playback_handlers.go`, `events/store.go`) | none; they read the index and the events | windows, pages, delete | browser |
| HTTP shell, audit log, configuration, web UI (`api/`, `audit/`, `config/`, `web/`) | none the daemon reads back | | all of the above |

How a frame becomes a recording: the camera's worker decodes access units from
RTSP and hands them to its recorder, which cuts a segment at a key frame and
flushes it (put the file, then insert the row) in a goroutine of its own. From
then on the segment belongs to the archive: janitor, tierer, camera deletion and
the pinning of events change its row and its file without any lock in common.
How motion becomes an event: a detector or pull client publishes on the bus, the
events manager writes the row, and the bridge opens the recorder's window.

What is hard about it, and what makes each part correct:

* **Archive.** Five actors, two stores (database and object storage) without a
  transaction across them, any call may fail or time out after it took effect,
  the daemon may die between any two calls. Correct means: what the index
  promises can be played, pins are honoured, the disk holds nothing nobody knows
  of, and retention and tiering make progress.
* **Recorder.** Three goroutines under a mutex, asynchronous flushes, time stamps
  from two clocks. Correct means: no frame of a recording is lost, none appears
  twice or out of order, segments decode on their own and are cut in time, and the
  pre-roll ring is as long as promised and no longer.
* **Motion to events.** Two detectors, one lossy bus with a channel per topic, two
  subscribers that each `select` over two channels, database calls that fail,
  restarts. Correct means: one row per window, a closed window is never touched
  again, and an event that ended is closed.
* **Ingest.** API calls overlap, the registry's lock is not held over the read of
  the camera row, a stopped worker ends in its own time. Correct means: every
  running worker is known, the right one runs, gaps and status tell the truth.
* **Streams to viewers.** A slow viewer, one that is gone, a session that ends
  under it. Correct means: what a viewer receives can be decoded, and everything
  that served it ends. For browsers on the WebSocket: they are registered.
* **Detection.** Frames, schedule, cooldown and API calls drive one small state
  machine. Correct means: starts and ends pair up and every event ends.
* **Jobs.** Exports, transcoded fragments, notifications: waiters on a shared
  build, deadlines, retries, restarts. Correct means: what is reported as done is
  whole, it is done once, and everybody is answered.
* **Requests.** Handlers of several statements without a transaction. Correct means:
  the instance keeps an administrator, sessions end with what they were opened
  for, a row is what requests made it, secrets survive edits that omit them.
* **Views.** Answers computed from tables that change meanwhile. Correct means: all
  of it, nothing twice, and never back in time.

## 2. The modules

| Module | Models | Go it stands for |
|---|---|---|
| `Archive`, `ArchiveProofs` | segment index, local files, S3 objects of one camera; flush, janitor, tierer, camera delete, pins, crash | `record/{janitor,tiering,store,recorder}.go`, `storage/`, `api/` handlers |
| `Recorder`, `RecorderProofs` | one camera's recorder in each record mode | `record/recorder.go`, time stamps of `ingest/worker.go` |
| `EventLog` | abstract: what the events table promises | |
| `MotionEvents`, `MotionEventsProofs` | detectors' signals, bus, events manager, bridge, restart; it refines `EventLog` | `events/`, `cmd/tapetumd/main.go`, signals of `detect/` and `onvif/` |
| `Ingest`, `IngestProofs` | supervisor and workers of one camera, API calls, gaps, status | `ingest/`, `api/camera_handlers.go`, `camera/` |
| `LiveHub`, `StreamingProofs` | GOP ring, viewers' channels, forwarding goroutines, ingest sessions | `live/`, `api/live_handlers.go` |
| `Detect`, `StreamingProofs` | detector supervisor, engines, their state machine per analysed frame | `detect/{supervisor,engine}.go` |
| `Schedule`, `ApiProofs` | evaluation of a schedule, by its two readers | `detect/config.go`, `notify/worker.go` |
| `Export`, `JobsProofs` | export requests and jobs, slots, deadline, restart | `export/`, `api/export_handlers.go` |
| `Transcode`, `JobsProofs` | the cache of one fragment and its shared build | `transcode/` |
| `Notify`, `JobsProofs` | rules, cooldowns, deliveries with retries, log | `notify/` |
| `PullPoint`, `JobsProofs` | ONVIF pull clients of one camera and their supervisor | `onvif/pullpoint.go` |
| `Access`, `AccessProofs` | accounts, sessions and tokens under concurrent requests | `auth/`, `api/{auth,users,setup,tokens}_handlers.go` |
| `Sessions`, `AccessProofs` | the life of one session | `auth/sessions.go` |
| `LoginLimit`, `AccessProofs` | the two rate limiters | `auth/ratelimit.go`, `api/camera_handlers.go` |
| `CameraRow`, `ApiProofs` | read-merge-write of one camera row, ONVIF sync | `camera/`, `api/{camera,onvif}_handlers.go` |
| `Settings`, `ApiProofs` | S3 settings, channel secrets, the backend built from them | `settings/`, `api/system_handlers.go`, `storage/s3.go`, `notify/store.go` |
| `Playback`, `ApiProofs` | timeline, density and playlists over the growing index | `api/playback_handlers.go`, `record/store.go` |
| `EventFeed`, `ApiProofs` | cursor pages, acknowledgement, deletion, snapshot files | `events/store.go`, `events/manager.go`, `api/event_handlers.go` |
| `Snapshot`, `ApiProofs` | pictures decoded on demand | `ingest/snapshot.go`, `ingest/ingest.go` |
| `WsHub` | the copy-on-write set of WebSocket clients | `ws/hub.go` |
| `MCStreaming`, `MCJobs`, `MCApi` | bundles of modules for TLC, see below | |
| `MCRecorder` | `Recorder` with cameras whose clock is behind the server's, right or ahead of it | |

A definition followed or preceded by the comment "Mutant" is a plausible error in
the definition next to it. No specification uses it; `PROJECT.json` pairs it
with the property that detects it.

### Archive

One action is one SQL statement or one storage call, so every window between two
calls is open to all the other actors. A segment is its start time, one per
tick of `now`, and every segment counts one unit of bytes.

| State | Code |
|---|---|
| `storage`, `pinned` | columns `storage` and `protected` of `recording_segments`; "none" is no row |
| `localFiles`, `s3Objects` | what the two backends hold |
| `flush[s]` | where `marshalAndFlush` of `s` is: put, insert, roll back |
| `janPc`, `janPass`, `janListed`, `janOver` | the janitor's sweep: its pass, and *its copy* of the listing with the tier it read |
| `tierPc`, `tierTodo` | `tierOne` for each listed row, oldest first |
| `camPc`, `camListed` | `deleteCamera`, with and without `delete_recordings` |
| `removed`, `crashes` | history variables: objects deliberately deleted; crashes so far |

`LocalOutcome` and `RemoteOutcome` are the ways a call may end: it works; it fails
without effect; or, over the network, it takes effect and reports an error
("lost"). `Deletable`, `Faults` and `MaxCrashes` switch the hazards on and off, so
that a property can be stated under exactly the conditions under which it holds.

### Recorder

`WriteVideo` is one action (the code holds the mutex throughout) with one
disjunct per way through it. `log` records every delivered access unit with its
circumstances, and a segment is a sequence of positions in it. `flushing` holds
the cuts whose goroutine has not finished; `Close` and `MotionActive` wait for
theirs, which blocks their caller but nobody else. The wall-clock time of an
access unit is the arrival time until the first sender report and the camera's
clock afterwards (`worker.go:393-394`); `Skews` are the errors a camera's clock may
have, one of which (`skew`) the camera has throughout, and `Apart` is how far that
is from the server's clock. A ring outlives sessions, so it holds times of either
clock, in any order.

### MotionEvents

`queue[s][t]` is the buffered channel of subscriber `s` for topic `t`. `Publish`
drops a message for a full channel and for a subscriber that has not subscribed
yet: the detectors start before the subscribers do, and the model starts there.
The manager is a sequential process with a control point (`handler`); each database call is
a step that may fail. `Restart` loses all memory and runs `CloseAllOpen`, which
may fail too. `orphaned` collects the rows that a failed call, or a stop between
`Close` and `SetClip`, has left with no-one responsible for them. Time is the
number of signals published.

`Windows` maps the table to the variable of `EventLog`: per camera a sequence of
windows of which only the last can be open and the closed ones never change. A window
is lost when its row is `orphaned`: `EventLog` allows it to stay open beside its
successors, to be closed late, and nothing else. So what a failed call costs is the
one row it was about.

### Ingest

API calls are processes: write the row, detach the registered worker under the
lock, stop it, read the row without the lock, attach a new worker under the lock
if the slot is still free. Any of a call's statements may fail, and a change of the row
may be made and its answer lost; the call then ends where it stands (`ingest.go:81`,
`camera_handlers.go:213`), and `failed` remembers how the last call went wrong. The
gap statements may fail, too, and their errors are dropped as the code drops them
(`gapFailed`). Each worker has a session loop (`dial`, `played`,
`marked`, `wait`, `failed`, `down`, `backoff`) and a health ticker. `gap` is the open
row of `recording_gaps`. `ver` counts edits of the row, so that a worker can be
told to run an old configuration. `overlapped` is a history variable: has a call
ever begun while another was in progress?

### LiveHub, Detect, PullPoint

`viewer[v]` follows one subscriber through its two channels: `raw`, which the hub
fills and closes, and `out`, which its forwarding goroutine fills and the handler
reads. Each channel operation is a step; `Offer`, `Begin`, `SetParams` and `Subscribe`
hold the lock and are one. Parameter sets are named by the session they are of. A session of `InBand`
(H.265 without sets in its description) learns them from a key frame: `SetParams`
then puts them in force without a new `Begin`, and viewers that have joined keep what
they were given. Packet callbacks run from Play on, so frames and sets may come
before the session's `Begin`. In `Detect`, `engine[e].s` is the local state of `process` and
one `Frame` is one analysed frame, above the threshold or not, on hours or
not, resized or not; the supervisor's calls detach under the lock, stop outside of it
and wait. `PullPoint` has the same calls without the wait, with statements that fail as in
`Ingest` (`pullFailed`); a client whose password cannot be decrypted ends at once and
stays in the map (`Started`). A client's `inbox` is the subscription's queue at the
camera, and a change between two subscriptions is missed.

### Export, Transcode, Notify

Every statement, file operation and send is a step that may fail; the insert of an
export may also be made and its answer lost, which leaves a pending row that no job
sees. `excused`, `unlogged` and `raced` are history: what a failed write, a deadline or a restart
cut off, which users overlapped two requests. Builds of other segments fill
`Transcode`'s pool, so `BuildFails` is always possible. A delivery's attempt may
arrive without being acknowledged.

### Access, Sessions, LoginLimit, CameraRow, Settings

A request is a process: authenticated once, then one statement after the other
(`req[r].pc`, `edit[e].pc`, `put[r].pc`), any other request's between two of
them. `HangUp` cancels the statements left. Data is reduced to what the
properties tell apart: a password is its version, a camera column the number
of the request that wrote it, a configuration its tag and its secret. A notification
channel's type is named by the one key its secret is under, and its row has a
secret or none under every key: `UpdateChannel` starts from the row with the secret of
its type masked and may ask for another type, `MergeSecret` restores the secret of the
requested type only. `erased` is history: the keys whose secret a change of type has
overwritten with its mask. `races`,
`crossed` and `mixed` are history variables that name the overlaps the code does
not guard against, so that a property says precisely when it holds.

### Playback, Schedule, EventFeed, Snapshot

`Playback` and `Schedule` are operators over an index, or a schedule, that
actions build up; their properties compare the code's algorithm with a reference
on every window of `Times`, or minute. Segments follow one another at any of
`Pauses`, also negative ones, and have any of `Lengths`, also negative ones: the clock
of their access units may step. In `Schedule` the value of a key is a list of
windows or anything else, and a window may be a list longer than two. `EventFeed` has a reader that pages with
the `(ts, id)` cursor while rows come, go and are acknowledged. In `Snapshot` the
leader of a decode is `inflight`, and everyone else waits for its channel.

### WsHub

The hub's pointer is modelled with the *address* of the map it points to, because
that is what `CompareAndSwap` compares.

### The bundles

`MCStreaming`, `MCJobs` and `MCApi` extend modules whose components share no state.
A variable `focus` says which of them moves; the others stay in their first
state. The reachable states are therefore the sum, not the product, of the
components', and all behaviours of each component are among the bundle's.

## 3. The runs

Sizes are distinct states. Deadlock is checked for `Archive`, where only the
daemon's end could stop it; the other modules' behaviours end when a bound (signals,
connections, ticks) is used up, and their configurations say so.

| Run | Module, cfg | Checks | States |
|---|---|---|---|
| `archive_faults` | ArchiveProofs, ArchiveFaults | RowsBacked, PinHolds | 314 k |
| `archive_live` | Archive, ArchiveLive | LocalFilesOwned, ExpiredEvicted, TieringHappens | 13 k |
| `archive_pin_race` | Archive, ArchivePinRace | ProtectedNeverEvicted (violated) | |
| `recorder` | MCRecorder, Recorder | FramesKept, SegmentsPlayable, RingCovers, CutOnAge | 1.5 M |
| `motion` | MotionEvents, Motion | ImplementsEventLog, RowsTracked, EventsClose | 137 k |
| `ingest_sync` | Ingest, IngestSync | TypeOK, NoWorkerForgotten, SequentialCallsMatch, GapsFollowTheStream | 2.3 M |
| `ingest_stop` | Ingest, IngestStop | StoppedWorkersEnd (violated) | |
| `streaming` | MCStreaming, Streaming | LiveSafe, LiveEnds, DetectSafe, DetectThreeInARow, DetectProgress | 378 k |
| `jobs` | MCJobs, Jobs | ExportSafe, ExportEnds, TranscodeSafe, TranscodeWaiterAnswered, NotifySafe, NotifyAccounted, PullSafe | 197 k |
| `api` | MCApi, Api | AccessSafe, SessSafe, SessEnds, LimitOvershoot, ProbesExact, CamSafe, SettingsSafe, PlaybackSafe, ScheduleSafe, FeedSafe, SnapSafe, NeverBack | 544 k |
| `settings_type` | Settings, SettingsType | ChannelSecretKept (violated) | |
| `ws_register` | WsHub, WsRegister | WsRegistered (violated) | |

A property named `...Safe` is the conjunction of the type invariant and the named
invariants of its module; each conjunct has a mutant of its own in `PROJECT.json`.
`FramesKept` is that of `Recorder`. The type invariants of `Archive` and
`MotionEvents` are proved and not run.

What they show:

* **RowsBacked** — the archive's central promise. With failing calls, lost answers,
  a crash and a camera delete, an indexed segment whose flush reported success and
  that nobody set out to delete can be read from the tier its row names. It depends on
  the order of every pair of steps (file before row, upload before flip, flip before
  unlink); ignoring the error of `MarkTiered` breaks it.
* **PinHolds** — a pinned segment that is not on the janitor's list stays off it
  and keeps its row and object. Together with `archive_pin_race` it says exactly
  how far a pin can be relied on: from the next listing on, not before.
* **LocalFilesOwned** — as long as calls work and until the first crash, no file is left on the local disk that no
  row, flush or tierer owns, although janitor and tierer work on the same segments
  from listings taken at different times.
* **ExpiredEvicted, TieringHappens** — retention and tiering are carried out, across
  a crash and with listings that return one row at a time.
* **FramesKept (NoFrameLost, InOrder), SegmentsPlayable** — the recorder, in
  every mode, with cuts, motion windows, reconnects and flushes in any order. In
  `NoFrameLost` the frames between the end of a motion window and the next key
  frame are the only gap; `SegmentsPlayable` is about continuous mode, because
  motion mode does not have it (`StartsWithKey`, below).
* **RingCovers, CutOnAge** — with a camera whose clock is behind, right or ahead, and that starts to
  tell it in the middle of a segment or of the motion ring, both give or take what the
  clocks are apart. The ring is the latest run of access units, reaches back to the
  pre-roll and keeps no key frame it could have started with. A key frame cuts when the
  segment has lasted its duration *and as long as the clocks are apart*, no other frame
  does, and none cuts earlier than its duration less that. Neither bound can be had
  without the clocks' difference (`SegmentsCutAtAge`, below), which
  `docs/05-ingest-streaming.md:34` does not mention. (The hard cap of ten seconds in the
  same line is not in the code: a segment without a further key frame goes on.)
* **ImplementsEventLog** — the table refines `EventLog`: windows of a camera follow
  one another and closed ones do not change, with two detectors, dropped and
  reordered signals, cancelled pull clients, restarts and failing database calls, of
  which each loses at most the window it was about.
* **RowsTracked, EventsClose** — an open row is always the
  manager's, or was left by a failed call, and an end that has been queued closes it
  unless a call fails.
* **NoWorkerForgotten, SequentialCallsMatch, GapsFollowTheStream** — overlapping API
  calls never leave a worker running that nobody can stop; calls that do not
  overlap leave the worker the row asks for, and one that failed half-way leaves none
  (an outdated one only if it changed the row and was not told), until the next
  call gets through; gap rows follow the stream of a
  camera that nobody edits, but for the last gap statement having failed.
* **LiveSafe, LiveEnds** — a viewer gets an unbroken run of frames offered after one
  `Begin` and has its parameter sets, up to those that come in band; the ring it
  starts with is of one group of pictures, from a key frame, from the first frame
  after `Begin`, or cut off by its limit (`live.go:168` says always from a key frame:
  `LiveRingStartsWithKey`, below); nobody sends on a
  closed channel; a viewer that is dropped sees its stream end, and the goroutine
  of one that left ends if its last frames fit the output channel.
* **DetectSafe, DetectThreeInARow, DetectProgress** — starts and ends pair up across
  sessions, schedules and API calls; an event takes three frames in a row and a
  cooldown that is over; in a scene at rest every event ends; `Stop` returns.
* **ExportSafe, ExportEnds** — what can be downloaded is complete, a user has one
  active export, a job ends; except for what `excused` and `raced` name.
* **TranscodeSafe, TranscodeWaiterAnswered** — one build at a time, success only for
  a whole fragment, and a waiter that is alone on its build is answered.
* **NotifySafe, NotifyAccounted** — the log holds at most one entry per delivery, its
  outcome, and the entry is true (`docs/07-detection-notifications.md:123` promises one per
  attempt: `NotifyAttemptsLogged`, below); a notification arrives twice only
  after a lost acknowledgement, and a delivery that runs to its end is logged.
* **PullSafe** — the client of a camera is the one the row asks for unless a call failed
  half-way or two overlapped; it can be stopped,
  and after a reconnect knows the motion state it was told.
* **AccessSafe** — the last administrator stays, setup happens once, and sessions
  end with a password change or a disabled account, except under the three
  races `races` names. **SessSafe, SessEnds** — a session slides, and ends on its
  limits for good. **LimitOvershoot, ProbesExact** — how far the login limiter can be
  exceeded by concurrent logins, and that the probe limiter cannot be.
* **CamSafe, SettingsSafe** — updates that do not overlap lose nothing but the secret
  of a type that a notification channel is changed from; status and
  enabled are safe even from those that do; an enabled configuration was verified.
* **PlaybackSafe, ScheduleSafe** — the algorithms agree with their references:
  coverage, discontinuities and windows on the circle of a day. The density of a
  bucket is what each segment with motion has in it: never less than the motion
  covers, and exactly that where no two of them share a part of the bucket. The two
  copies of the schedule code agree on every schedule but in two cases: a window
  whose list is longer than two, say `["08:00", "18:00", "x"]`, is open for
  detection and never for a notification rule (`notify/worker.go:244-247`), and an
  "everyday" that is there and not a list closes detection and leaves the rule
  to the day (`worker.go:235`).
* **FeedSafe, SnapSafe, NeverBack** — pages miss nothing that was there all along,
  pictures named are there, waiters of a decode are woken, and camera
  deletion, live playlist and pictures never go back.

### What the code does not do

Four runs state what a comment or a document of the repository says and show a
behaviour of the code that contradicts it; `PROJECT.json` quotes both sides.

| Run | Statement | What happens |
|---|---|---|
| `archive_pin_race` | "protected segments are never evicted" (`janitor.go:14`) | the sweep deletes from its listing; a segment pinned after the listing goes |
| `ingest_stop` | teardown "happens asynchronously" (`ingest.go:67`) | `c.Wait()` does not watch the context: a stopped worker ends only when the camera's connection does |
| `settings_type` | "empty secret fields keep the previously stored values" (`notify/store.go:136`) | a request that changes a channel's type restores the secrets of the new type only; the old type's is overwritten with its mask, and gone if the type is changed back |
| `ws_register` | "Hub tracks connected clients" (`ws/hub.go:30`) | `add` compares the stored pointer with the address of its own local variable, which it never is: the loop does not end and nobody is registered |

More statements are in the modules without a run. The first five are sentences of the
repository that the code does not keep; named as an
INVARIANT in the configuration of its module's run, each is violated:

| Property | Module | The repository says | What happens |
|---|---|---|---|
| `SegmentsCutAtAge` | Recorder | "close + cut when (`age >= 6s`) AND (next frame is IDR)" (`docs/05-ingest-streaming.md:34`; 1s in the code) | the age is the difference of times of two clocks; when the camera's is behind and the first sender report arrives, due key frames do not cut (`worker.go:393-394`) |
| `LiveRingStartsWithKey` | LiveHub | "The first ring frame is always a keyframe" (`live.go:168`) | the ring takes any frame after `Begin`, and loses its head when the group is longer than the ring (`live.go:126-128`) |
| `NotifyAttemptsLogged` | Notify | "every attempt logged to `notification_log`" (`docs/07-detection-notifications.md:123`) | one entry, the outcome of the last attempt (`worker.go:104`, 135, 139) |
| `BackendFollowsConfig` | Settings | "config changes take effect without a restart" (`storage/s3.go:110`) | the fingerprint omits the secret: a new one takes no effect until something else changes |
| `DensityIsFraction` | Playback | "fraction of each bucket covered by has_motion segments" (`playback_handlers.go:92`) | what two overlapping segments with motion share is counted twice; segments overlap when the clock of their access units has stepped back |

Each of the others is the unconditional form
of a property that is checked, or what a comment or document says; the code
satisfies none of them, for the reason given:

| Property | Module | Why not |
|---|---|---|
| `OrphansReconciled` | Archive | an S3 object whose row went during the upload, or with a crash, stays |
| `RetentionPerTier` | Archive | the size pass measures one tier and evicts from both |
| `StartsWithKey` | Recorder | after a window that ended inside a GOP the ring has no key frame at its head, and the next window records it |
| `IndexedInOrder` | Recorder | flushes overtake one another |
| `EndsWhenQuiet` | MotionEvents | the first detector's end closes the event while the other still sees motion (`manager.go:123`) |
| `QuietMeansClosed`, `RecorderStops` | MotionEvents | an end may be taken before its start |
| `RegistryMatchesRow` | Ingest | a call that read the row before another changed it registers a worker for the old row; a call whose read or delete of the row fails after it removed the worker leaves none |
| `LiveParamsFresh` | LiveHub | sets that come in band reach later viewers only (`live.go:212`) |
| `LiveForwardersEnd` | LiveHub | a full output channel without a reader holds the goroutine for ever (`live.go:193`) |
| `ExportAlwaysEnds` | Export | a row left by a restart, a failed write or an insert whose answer was lost stays active and blocks its user (`export.go:76`) |
| `TranscodeAllAnswered` | Transcode | one result is sent, however many wait (`transcode.go:88`) |
| `NotifyCoolsAfterSuccess` | Notify | the cooldown starts before the first attempt |
| `PullNoneForgotten` | PullPoint | two overlapping Syncs: the second overwrites the first one's client |
| `LimitExact` | LoginLimit | attempts are counted after the password check |
| `CamEditsKept` | CameraRow | an overlapping update writes back what it read |
| `CamTokenOfDevice` | CameraRow | the imaging token is kept when the endpoint changes |
| `SettingsSecretKept` | Settings | an overlapping request restores the older secret |
| `LiveNumbersStable` | Playback | a segment's number depends on the first one listed (`record/store.go:26`) |
| `TimelineAnswered` | Playback | a span shorter than the bucket count makes buckets of no length, and a division by zero |
| `SchedulesAlwaysAgree`, `NightsGoOn` | Schedule | a window of more than two, an `everyday` that is not a list; hours after midnight are looked up under the next day |
| `FeedNoOrphans`, `FeedDeleteAnswered` | EventFeed | an event deleted before its snapshot was attached; two deletes of one event |
| `SnapFullSize` | Snapshot | the cache does not know the size of its picture |

`EvictionJustified` (Archive, for a camera that does not tier) and `StatusConverges`
(Ingest, under `FairSpec`) are expected to hold and have no run.

### Bounds, and why they are enough

* **Archive**: two or three segments, three to five ticks. The properties speak of
  one segment; a second is needed for listings to have an order and a limit, a third
  for a budget to be exceeded while one segment is at another actor. Retention, tiering
  age and budget are one or two units, so that a segment can be old
  enough for tierer, age pass and size pass at the same time. One crash: after it
  all control points are initial, and the stores it leaves are those another crash
  would find. `ListLimit` is 1 in `archive_live`, so that the pass must come back.
* **Recorder**: four ticks with segments of two and a pre-roll of two: long enough for two
  cuts, a window, and a ring that is trimmed. Two sessions: one reconnect, which takes the
  time stamps back to the server's clock. Clocks one tick apart: a segment of two ticks
  is due, one too early and one too late (the proofs are for any times and any errors).
* **MotionEvents**: one camera (the manager handles cameras independently, but for
  sharing its goroutine and channels; the proofs are for any number), channels of two messages
  so that they fill up, three signals: two overlapping
  motions, or an event, its end and the next event; one failure, one restart, one
  cancelled pull client.
* **Ingest**: two concurrent calls of four kinds on one camera, hence up to three
  workers, and two connection attempts; any statement may fail. Cameras share nothing but the lock.
* **LiveHub**: one viewer (viewers share nothing but the ring they are given), channels
  and ring of two, so that both fill up; four frames in two sessions: a viewer is
  dropped, catches up, and outlives a session; the second one learns its sets in band. **Detect**, **PullPoint**: two calls,
  hence up to three engines or clients; post-roll of one and cooldown of two frames.
* **Export**: two requests for one slot, of one user or two; two troubles: a deadline
  or failed write and a restart. **Transcode**: three callers, the least with
  two waiters on one build. **Notify**: two events for one rule and channel, the
  second one inside the cooldown; a mailbox of one; two mishaps.
* **Access**: two users, two concurrent requests and three in all, two sessions and
  two password versions: every pair of operations overlaps, and a third observes.
  **Sessions**: TTL 6, renewal 2, absolute 11 of 13 days keep the order of the real
  limits. **LoginLimit**: three logins of a limit of three.
* **CameraRow**, **Settings**: two overlapping requests, two in all, over two secrets and
  tags, two types of channel, or the presence and absence of a device.
* **Playback**: three segments that touch, overlap or leave a hole, so that merge,
  median and discontinuity each have a case: lengths of minus one, three and five,
  pauses of minus five (a step back over a whole segment, or to its very start), none and seven (the proof is for
  any lengths and pauses); five window ends give ten
  windows; three buckets. **Schedule**: two days of three minutes, two windows,
  including midnight, times that do not parse, lists longer than two and keys that hold no list. **EventFeed**: three events on two
  time stamps, one per page, so that ties and page limits coincide. **Snapshot**: two
  watchers, one slot.

Every number above is a constant; the bounds that are not the code's own
(`N`, `Horizon`, `Times`, `MaxCrashes`, `MaxSessions`, `MaxSignals`, `MaxErrors`,
`MaxRestarts`, `MaxCancels`, `MaxConnects`) are marked "bound" where they are declared.

### Fairness

* `Archive!FairSpec`: time passes; each flush, the janitor, the tierer and a
  camera deletion that was begun go on. They are goroutines driven by tickers or by their
  own loops, and in the liveness run calls return. Nothing obliges a user to
  pin or delete, a camera to deliver, or the daemon to crash.
* `MotionEvents!FairSpec`: a database call returns (weak fairness); the manager
  takes from each of its two channels again and again if messages are there again
  and again (strong fairness). The second is Go's `select`, which chooses
  at random among the ready cases: a channel that is ready in infinitely many
  turns is chosen in infinitely many of them with probability one. Detectors and
  failures have no fairness.
* `Ingest!FairSpec`: every goroutine runs on, and a stopped worker's `select` in
  the back-off takes the cancelled context sooner or later (strong fairness, as
  above). The end of a connection has no fairness: it is the camera's decision.
* `MCStreaming!Spec`: forwarding goroutines and handlers that can proceed do; an
  engine proceeds (connects, waits, and gets frames, which a live stream delivers),
  and its session ends once its context is cancelled; API calls go on. No
  viewer need come or leave and no session need fail.
* `MCJobs!Spec`: the goroutine of an export job, a build, a waiter that can receive or
  was cancelled, and a delivery run on (each of their calls has a time-out). No
  request has to hang up.
* `WsHub!WsSpec`: every goroutine that can run runs; `ws_register` is violated all the
  same.

## 4. What is proved

TLAPS checks these for every value of the constants that satisfies the modules'
assumptions, which are these and no more: counts, bounds and limits are natural
numbers, those that are divided by or must admit something at least one; sets whose
elements are counted are finite, and sets of alternatives (modes, faults, detectors)
hold the alternatives the code has; the names for "nobody" (`NoOne`, `Nobody`, `None`,
`NoSecret`) belong to nobody; there is a tag and a secret key; times, and the lengths and
pauses of segments and the errors of clocks, are integers, negative ones included.
Two relate constants of the code: `RenewAfter` is in `1 .. TTL` (a day of thirty,
`sessions.go:20-25`), and `RingMax` in `1 .. ChanBuf` (the ring of 120 frames that a new
viewer is given fits its channel of 256, `live.go`). None relies on the size of a bound. TLC evaluates the
assumptions on every run and checks the properties of the second column on the small
instances.

| Theorem | Says | Argument |
|---|---|---|
| `ArchiveProofs!TypeCorrect` | `Spec => []TypeOK` | one lemma per actor |
| `ArchiveProofs!RowsAreBacked` | `Spec => []RowsBacked` | `IInv == TypeOK /\ Links` |
| `ArchiveProofs!PinsAreHonoured` | `Spec => PinHolds` | from `TypeOK`: a listing of evictable rows holds no pinned one |
| `ArchiveProofs!FilesAreOwned` | `Quiet => (Spec => []LocalFilesOwned)` | `IInv` and `OwnLinks`, before the first crash |
| `RecorderProofs!FramesAreKept` | `Spec => []FramesKept` | `IInv == Types /\ Owned /\ Ordered`, then `Lossless` |
| `RecorderProofs!SegmentsArePlayable` | `Spec => []SegmentsPlayable` | `Playable` under `IInv` |
| `RecorderProofs!RingIsKept` | `Spec => []RingCovers`, for any clock errors | `Stamps` and `RingInv` under `IInv` |
| `RecorderProofs!CutsOnTime` | `Spec => CutOnAge`, for any clock errors | `Stamps` |
| `MotionEventsProofs!TypeCorrect` | `Spec => []TypeOK` | channel bound by the guard of `Publish`, references by `rows` only growing |
| `MotionEventsProofs!RowsAreTracked` | `Spec => []RowsTracked` | `IInv == TypeOK /\ RowsTracked /\ Handled /\ Orphans` |
| `MotionEventsProofs!LogImplemented` | `Spec => ImplementsEventLog` | step simulation under `IInv` |
| `IngestProofs!WellTyped` | `Spec => []TypeOK` | `TypeInv`: `Versions` bounds what has been read, `InSession` ties `up` to the position in the loop |
| `IngestProofs!WorkersRemembered` | `Spec => []NoWorkerForgotten` | inductive over `Types` |
| `IngestProofs!SequentialCalls` | `Spec => []SequentialCallsMatch` | `SeqInv` |
| `IngestProofs!GapsAreKept` | `Spec => []GapsFollowTheStream` | `GapInv` |
| `StreamingProofs!LiveIsSafe` | `LiveSpec => []LiveSafe` | `LiveInv`, `SetsInv`, `StartInv` |
| `StreamingProofs!DetectIsSafe` | `DetSpec => []DetectSafe` | `DetInv` |
| `StreamingProofs!ThreeInARow` | `DetSpec => DetectThreeInARow` | from `DetInv` |
| `JobsProofs!TranscodeIsSafe` | `TranscodeSpec => []TranscodeSafe` | `TranscodeInv` |
| `JobsProofs!PullIsSafe` | `PullSpec => []PullSafe` | `PullInv` |
| `JobsProofs!ExportIsSafe` | `ExportSpec => []ExportSafe` | `ExportInv` |
| `JobsProofs!NotifyIsSafe` | `NotifySpec => []NotifySafe` | `NotifyInv` |
| `AccessProofs!OvershootBounded` | `LimitSpec => []LimitOvershoot` | counts the attempts under way when the limit is reached |
| `AccessProofs!ProbesCounted` | `LimitSpec => []ProbesExact` | `Remembered` |
| `AccessProofs!SessionsEnd` | `SessSpec => SessEnds` | `Bounded`: no renewal under way is younger than the last use |
| `AccessProofs!SessionsSlide` | `SessSpec => []SessSafe` | `SessInv` with `RenewedInTime` |
| `AccessProofs!AccountsAreSafe` | `AccessSpec => []AccessSafe` | `AccInv == AccTypes /\ AdminInv /\ SetupInv /\ SessionInv` |
| `ApiProofs!SnapIsSafe` | `SnapSpec => []SnapSafe` | `SnapInv` |
| `ApiProofs!SettingsAreSafe` | `SettingsSpec => []SettingsSafe` | `SettingsInv` |
| `ApiProofs!CamerasKeepEdits` | `CamSpec => []CamSafe` | `CamInv` |
| `ApiProofs!FeedIsSafe` | `FeedSpec => []FeedSafe` | `TableInv`, `FeedReader` |
| `ApiProofs!ScheduleIsSafe` | `ScheduleSpec => []ScheduleSafe` | `SchedInv`; the windows one by one |
| `ApiProofs!PlaybackIsSafe` | `PlaybackSpec => []PlaybackSafe` | `PbInv`; the loops step by step |
| `ApiProofs!PictureNeverBack`, `CameraGoneForGood`, `LivePlaylistNeverBack` | the three parts of `NeverBack`, each of its own specification | from `SnapInv`, the guards of the edits, `PbInv` |

### Archive, MotionEvents, Ingest

**RowsBacked** says nothing of the moment before a row appears or changes tier. `Links`
adds what each actor relies on there: a flush about to insert has written its file
(`FileFirst`); rows, and what the tierer lists, come from flushes past the insert
(`RowsFlushed`, `TodoFlushed`), so that a row never turns local again; a tierer about
to update the row has its object in the bucket (`Verified`), and one about to unlink
has a row that is no longer local (`Flipped`). All of it is modulo `removed`.

**LocalFilesOwned** needs the janitor's listing tied to what it will find: a segment
listed as local whose object was deleted has no file left, and one listed as `s3`
cannot be local again. `Quiet` (no faults, no camera delete) and the condition
`crashes = 0` are necessary: a crash between `MarkTiered` and the local delete leaves a file nobody owns.

**RowsTracked** is not inductive either: when the manager goes to the database it has
already forgotten the camera. `Handled` says that the row it is closing is open, that
the camera it inserts for has no open event, and that the row whose clip it sets ends
where it says; `Orphans` says that orphaned rows exist. With these, `LogStep` maps an insert to `Open`, a close, a restart or a failure
that costs a row to `CloseSome`, and everything else to a stutter.

**SequentialCalls**: while no call has overlapped another, at most one is in progress. It
finds what the last one left (`Settled`): registry and row match if that one went
through, the registry is empty if it failed after detaching (`failed`). From the moment it has
detached the worker the registry is empty, and it attaches for the row as it still is
(`Progress`). **GapsAreKept**: while
worker 1 is registered it is alone and uncancelled, no call is past detaching it,
and every write to the gap rows is its own; unless the last of these failed
(`gapFailed`), a gap is open in the back-off and closed while it streams.

### Recorder

`Owned` says who the samples belong to (an open segment while recording, the ring
while not), `Ordered` that they are the latest access units and that every segment is
a run of earlier ones, the segments in their order. From these `InOrder` follows.
**NoFrameLost** asks for the successor of a kept frame, so it is proved together with
`Ended`: when no segment is open, the last one ended with its session or its motion window.
**SegmentsPlayable** needs of the segment being written what it says of the finished ones
(`Playable`). **RingCovers** and **CutOnAge** compare time stamps of two clocks. `Stamps` says that
each is the time of arrival or off by `skew`, that arrivals ascend, and that the
recorder's copies are those of its samples; `StampsCompared` turns a comparison of two
stamps into one of arrivals and back, at the cost of `Apart`. `RingHeadIsNewest` is what
the trimming loop finds, and `RingStarts` says why an empty ring is no loss. No condition on the
clocks is left.

### What follows the stream

**LiveSafe**: `InFlight` is what a viewer has been sent, still holds, or has buffered in its two
channels; `Orderly` says of it that it is a run without a hole, that the part the
forwarding goroutine has rebased counts from the viewer's zero, and that parameter sets
are those of its era; `Current` that the run ends with the frame offered last, as long as the viewer is
registered. `SetsInv` says which parameter sets can be in force, or in a viewer's hands, in an era
(`SetsUnder`: its own, none while they are still to come in band, or those of a later session
that sends its sets before its `Begin`), and `StartInv` how a ring can start.
**DetectSafe**: engines are created in order, one per call
(`Created`); while calls do not overlap, the one running is registered or in the hands of the
call that stops it (`Alone`); `Consistent` describes the state machine of a session.

### Jobs

**TranscodeSafe**: the caller named by `inflight` is the one that builds, and it alone
has the temporary file (`BuilderInflight`); whoever was told "ok" came after the rename
(`OkCached`). **PullSafe**: `OneAtWork` is the argument of `SequentialCalls`, failures included; `ToldLast`
says that the end of a client's inbox, or its `active` when that is empty, is the state
of the camera. **ExportSafe**: a user whose requests never overlapped has one between
count and insert, or one active row, and never both (`OneAtATimePerUser`). **NotifySafe**:
events are taken in the order of creation, each once (`InboxInOrder`, `NotBegun`), so a
delivery starts once; `Course` bounds arrivals by attempts, `Exactly` says that without
a lost acknowledgement what is still being sent has not arrived.

### Access

**SessEnds**: renewals may be written late and out of order, so the expiry alone is
not bounded by an invariant; `Bounded` adds that every pending renewal carries a
day not after the last use. **SessSlides** is the other side: the expiry is far enough
from the last use or the renewal it called for is under way (`RenewedInTime`).
**LimitOvershoot**: once the count has reached the limit
no login is let in, so what is still under way was let in before; at most all but
one of the logins can be. **ProbesExact**: a probe that the limiter has forgotten is too
old for any window that reaches the present (`Remembered`). **AccessSafe**: after its
guard, a request that takes an administrator away has seen another, and being the only
one of its kind can rely on it (`AdminInv`); a setup request that found no account
is the only one that has (`SetupInv`); a user is *paid up* when his sessions, and the logins
about to open one, are of his present password and he is not disabled, or else a
request under way still has to delete them (`SessionInv`). Each part is conditional on
the race that `races` names.

### Rows, feeds and views

**SnapSafe**: the leader of a stream is where a decode is, its key is between the one shown
and the newest, and whoever waits has a leader (`SnapInv`); for at most `DecodeSlots` the
decoding watchers are counted. **SettingsSafe**: a configuration is verified on its way
(`Carries`), and a request that is alone carries the secret the row still has
(`CarriesAlone`; for a channel, `RowAlone`: every key but that of the requested type is as
the row has it, masked under the old one). `EnteredOrErased` then says that a key's secret
is the one entered last, or none once a change of type has erased it. **CamSafe**: without overlap, what an edit is about to write is
what it was given, merged into what the row still holds (`UpToDate`).
**FeedSafe**: a path is set only where the file is, and a delete that found one
finds the attaching done (`AttachedOnce`); every event that was there all along is given
or still below the cursor (`FeedReader`). That the code's lists hold each row in its
place rests on `EachPlace`: in a finite strict total order every place is taken once.

**PlaybackSafe** is about algorithms. `Orderly` is all that the queries give: a list ascends by
the start of its segments, which may end anywhere, before they start or after the next one has; every
list of the index inherits it (`ListIs`). `MergeRanges` and `Total` are loops, written as
recursive functions. That such a function has a value (`Loop`), and that what holds at one turn holds at all
(`UpTo`), is shown with the least turn at which it would not, because the library's
induction theorems cannot be instantiated here. With these, `MergedUpTo` is the invariant of the
merge, `DensityOfList` counts the motion per bucket (`DensityCounts`), `MedianIs` finds
the median among the durations, and `HolesOfList` ties a discontinuity to a hole in the
coverage (`Hole`: every earlier segment has ended). The live list is the `Newest` of rows whose starts tell
them apart (`ToldApart`), so its first number never goes back.

### Model-checked only

Liveness (`ExpiredEvicted`, `TieringHappens`, `EventsClose`, `LiveEnds`,
`DetectProgress`, `ExportEnds`, `TranscodeWaiterAnswered`, `NotifyAccounted`) is
TLC's alone: fairness and ENABLED are outside the prover's reach. `NeverBack` is checked
for the bundle; the three statements it consists of are proved of their components. Every other
property of a passing run is the subject of a theorem. The properties of the
violated runs, and those of the list in section 3, are not theorems, for they are false.
No module declares a RECURSIVE operator.

## 5. What is not modelled

In the modelled components, left out because no other actor reads it: formatting,
muxing and logging; the WebSocket broadcasts made by the events manager;
`has_motion` marks; table partitions. `MotionEvents` leaves snapshot, listing and
acknowledgement of events to `EventFeed`. Audio follows the cuts of the video. Segment
sizes are one unit each. Time stamps are small integers, and `ntp` and `pts` of one
session are taken to agree.

In the other modules: image arithmetic, box layouts, addresses and file names, the
permission matrix beyond the right to write users, CSRF, hashing and encryption
(a bijection); camera groups and access lists; the transcode cache's shared
initialisation segment, which concurrent builds of one camera write under the
same temporary name (`transcode.go:196`); a client's re-subscription when its
subscription expires is a reconnect (`pullpoint.go:156`); last-login times and the
audit log, which nothing reads back.

Not modelled because there is no state, or no protocol, of their own:
the ONVIF SOAP envelope and discovery, PTZ and presets (one exchange each), probing,
configuration, migrations, system statistics, routing, static files and the web UI.

PostgreSQL, S3, the file system, FFmpeg, the RTSP library and cameras are outside the
repository. They are modelled by what the code in `src/` relies on: a statement or
call is atomic, may fail, and, over the network, may fail after it took effect.

## 6. Plan

What is left, in order:

1. `EventClips`, composing `MotionEvents` and `Archive`: the pins that an event sets, and
   the segments that are still being recorded or flushed when it ends and so
   escape `ProtectRange` (`manager.go:150`); clip range against pre- and
   post-roll (`docs/07-detection-notifications.md:83`).
2. Abstract specifications: `SegmentArchive` (a segment is recorded, may be pinned, is
   evicted; where its bytes lie is invisible), refined by `Archive`; `OneWorker`, refined
   by `Ingest` for calls that do not overlap; the detector part of `MotionEvents`
   (`Start`, `End`), refined by `Detect`.
3. The shared initialisation segment of `Transcode`; a liveness run of `Ingest` for
   `StatusConverges`.

Observations kept for those steps: the motion ring may span two RTSP sessions,
whose time stamps have different origins; a worker that was just cancelled can open a
gap after its successor began to stream, and nothing closes it until the next
reconnect; motion signals published before the subscribers have subscribed are lost
(`main.go:130`); `Close` does not guard against an end before the start as
`CloseAllOpen` does with `GREATEST`; `Hub.remove` (`live.go:234`) has no caller, so the
streams of deleted cameras stay; once clients could register, `close(send)` after
`drop` would race a `Broadcast` that still holds the old map.
