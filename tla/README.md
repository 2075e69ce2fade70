# A TLA+ model of GENesis-Voice

GENesis-Voice records meetings on a phone, mirrors the recordings to an edge
host, and runs a set of voice bridges beside it (a realtime voice assistant, an
ambient listener, an OMI bridge, a Codex voice bridge, the firmware of a voice
device). This directory holds TLA+ specifications of the parts whose
correctness depends on the order of concurrent or failing steps, TLC
configurations that check them on small instances, and TLAPS proofs of the
results that matter most.

Paths below are relative to the repository. `K/` stands for
`clients/android-mic/app/src/main/java/com/genesis/meetingmic/`, `A/`, `M/`, `O/`,
`C/` and `S/` for `bridges/ambient_bridge/`, `bridges/meeting_bridge/`,
`bridges/omi_bridge/`, `bridges/codex_voice/` and `bridges/s2s_bridge/app/`.

## 1. The system

| Part | Code | State it keeps | Operations | Hard parts |
|---|---|---|---|---|
| Edge upload store | `M/upload_store.py`, upload routes of `M/server.py` | audio, sidecar, proof and temp files of a day directory | store, verify, sweep, quarantine | crash between any two file-system calls, fsync order, cancelled requests, two writers |
| Upload name lock | `M/server.py` `_name_lock` | table name -> (lock, users) | enter, wake, leave, cancel | cancellation at an await, dropping an entry in use |
| Phone sync | `K/SegmentSync.kt`, `K/SyncWorker.kt` | the recordings folder, credentials, retry times | pass, re-check, register an endpoint | lost answers, process death, retention at the same time |
| Retention | `K/RetentionPolicy.kt`, `purgeDir` in `K/LocalRecorder.kt` | none of its own | list, sweep, count | works from a stale listing on two threads |
| Local recorder | `K/LocalRecorder.kt`, `K/LocalBackupMonitor.kt` | bounded frame queue, open segment, backup state | offer, finish, writer loop | overflow, writer hand-over, storage and encoder failure |
| Capture delivery | `K/CaptureDeliveryController.kt`, `K/DeliveryReceiptTracker.kt`, `K/MicStreamService.kt` | run and attempt ids, phase, receipts | socket callbacks, tick, start, stop | callbacks of dead attempts, timers against late answers |
| Meeting session | `M/server.py`, `session.py`, `vad.py`, `asr_status.py` | WebSocket, cloud session, gate, pre-roll | frames, markers, closes, finish | closes, re-arms and late results in one loop |
| Realtime voice session | `S/main.py`, `websocket_handler.py`, `evicting_transport.py`, `session_manager.py` | the single client, the OpenAI session | connect, evict, disconnect, rotate | handlers of the old client finishing after the new one came |
| Idle and disconnect | `S/session_idle_manager.py`, `disconnect_tool.py`, `ws_control.py` | timers, speaking flags | speech events, ticks, hang-up | a session without a listener that looks busy |
| Genesis tool service | `S/genesis_tool_service.py` | base and length of the conversation | sync, retry, spool | a retry of what was stored, overlapping posts |
| Voice audio path | `S/noise_gate.py`, `interrupt_relay.py`, `audio_recording_service.py`, ... | gate state, relay state | frames, interrupts | numeric |
| Ambient server | `A/server.py`, `active_session.py`, `connection_stats.py` | modes, the active session, telemetry, diarization queue and pool | frames, modes, diarization, enrolment, health | half-open connections, pool failure |
| Ambient pipeline and store | `A/pipeline.py`, `store.py` | rolling buffer, window, rows | feed, cut, insert, label, purge | positions after a cap, ids after a purge |
| Speaker identification | `A/speaker_id.py`, `enroll.py`, `diar_subprocess.py` | voiceprints, request and result files | enrol, save, load | two processes that talk through files |
| ESPHome recovery | `A/esphome_recovery.py` | record of reboots | press, record, page | a crash between press and record |
| OMI bridge | `O/` | seen segments, delivery keys, anchor | ingest | duplicate delivery, failures midway |
| Codex voice | `C/` | launcher, backup, config, prepared builds | install, uninstall, sync, launch, unmanage | npm at any time, crashes between files |
| Firmware | `firmware/esphome/components/voice_assistant_websocket/` | connection state machine | loop, callbacks | |
| Phone UI, deployment | `K/MainActivity.kt`, `deploy/` | none that others rely on | | |

How they interact: the phone captures audio and streams it live to the meeting
bridge (capture delivery to meeting session) and, independently, records it in
files (local recorder). Closed files go to the edge through HTTPS (phone sync to
edge store), and retention removes phone copies by the owner's rule: keep every
recording 90 days, and let one go early only when the edge holds it. The voice
device talks to the ambient server or to the realtime session. The ambient
server's process and the OMI bridge's write to one SQLite database and purge it
independently. The enrol command and the ambient server talk through two files.

What makes each part correct:

* Edge store, name lock, phone sync and retention serve one sentence
  (`CONTRACTS.md`, `K/SegmentSync.kt:20-38`): a recording the phone no longer
  guards is on the edge's disk, for good, and under its own name and timing.
* Local recorder: the files cover the capture at true positions whatever was
  dropped or failed, and the status shown is that of the run being recorded.
* Capture delivery: "live" is shown only for audio the bridge confirmed on the
  current connection; one stream at a time; no phase hangs.
* Meeting session: what opened a session is sent with it, no transcript that
  says something is removed as empty, and a billed session always has something
  that will end it.
* Realtime voice session: at most one client, and the handlers of an evicted one never touch the
  session of its successor. Idle manager: a session with nobody in it ends (unless it ended in
  the middle of the user's speech), and a device still there is told before it is closed.
* Genesis tool service: a turn handed over reaches Genesis once, or a file; what is
  lost is lost with a failed write of that file or with the process.
* Ambient server and pipeline: a label lands on the row it was computed for, an
  utterance is in one window, a slice is the audio of its utterances; a
  connection that lingers confuses neither the active session nor the counts.
* ESPHome recovery: reboots stay within their budget across restarts. Enrolment: a
  request is served once and "done" means saved.
* OMI: a segment with words becomes one row, near the time it was spoken. Codex: the original
  helper is never lost, and what is launched is whole and qualified.

## 2. Modules

```
NameMutex  <-- NameLock -- NameLock_proofs       (refinement: MutexSpec)
                  |  \  its abstraction is `holder` of EdgeStore
                  |   MCSessions  <-- TranscriptSync, AmbientListen, CodexRelay, CodexManaged
EdgeArchive <-- EdgeStore          (refinement: ArchiveSpec)
                  |   \
                  |    MCEdgeStore, MCEdgeTwo
               EdgeStoreInvariant -- EdgeStore_proofs (with MCEdgeTwo)

Mirror (EXTENDS PhoneSync): the phone, with edges reduced to their answers

CaptureDelivery     Recorder     VoiceSession
MCAmbient <-- AmbientDiar, DeviceRecovery, AmbientPipeline, OnlineEnroll, OmiIngest, MeetingSession

X_proofs EXTENDS X: Mirror, CaptureDelivery, Recorder, VoiceSession; Ambient_proofs EXTENDS MCAmbient;
Sessions_proofs EXTENDS MCSessions and NameLock_proofs
```

`MCSessions` and `MCAmbient` check components that share no state side by side: an
initial state picks the one that moves (`which`), the others stay put, so the
states are the sum of theirs and not the product. `MCEdgeTwo` does the same
with two settings of `EdgeStore`. `Mirror` takes a closed file as its
input (`Close`), `Recorder` ends where the file is closed, and `CaptureDelivery`
runs beside it without shared state.

### NameLock, NameMutex
`NameLock` is `_name_lock` (server.py:581-596) at asyncio's grain: one action per
stretch between two awaits. `table` is `_upload_locks`, `users` the counter in
an entry, `owner` and `queue` the `asyncio.Lock`. `Cancel` is a
`CancelledError` at the acquire. `NameMutex` is the abstract lock: at most one
holder per name. The run checks that the first implements the second, so
`EdgeStore` may use the abstract lock (`holder`).

### EdgeStore, EdgeArchive
`EdgeStore` is `store()` and `verify()` with the two routes in front of them. A
request in slot w is `req[w]`, its program counter names the next file-system
call, and its Booleans are the code's local flags (`linked`, `proven`,
`wrote_sidecar`, `keep_side`). Each call may be followed by another request's
step, by an `OSError` (`Fail`), by a kill or by a power loss.

The file system: `disk[n]` is what the kernel shows of name n (audio, sidecar, proof, the
damaged/ folder); `survive[n]` is the set of versions a power loss may leave. A directory change
adds a version; an fsync of the day directory leaves only the current one. File data is durable
once the temp file was fsynced (`flushed`); a link that became durable before its data leaves a
torn file after a power loss (`AfterPowerLoss`), which is what the order of `WriteTemp` and
`Link` must prevent. `day` is the day directory's own entry: made, and durable only after an
fsync of its parent. The order of versions is the commit order of a journaling file system; a
power loss may pick any of them, for each name separately.

A segment's bytes are one value; sha256 equality is equality. Validation that
depends only on the request (422, ADTS) is part of `FloorRejected`.

`Exclusive = FALSE` drops the name lock: that is the code's own second line of
defence (`os.link` fails on an existing name) for two processes on one folder. It keeps
files whole; the receipts need the lock (section 5).

`EdgeArchive` is what the edge promises: a set of named byte strings of which a
promised one changes only by damage or by an operator.

### PhoneSync, Mirror
`PhoneSync` is the recordings folder with the sync pass (`runPass`), retention
(`purgeDir`, `RetentionPolicy`) and capture. `file[r]` says which file of a
recording exists (`X.aac`: waiting, `X.synced.aac`: synced), `dest` and `mark`
are `X.dest` and `X.checked`. The pass is one thread (passLock) whose steps are
split at HTTP calls and at every folder-lock section; a purge is split where
it reads the listing, where it sweeps under the lock, and where it counts.
Clock conditions (a week, 90 days, retry times) are actions that may happen at any time.

`Mirror` adds the edges, each a set of named byte strings with the answers `EdgeStore`
gives (stored, held, declined, damaged later), and a network that loses calls and answers. An
upload whose client has given up stays in `late` and may be carried out at any later time. A
rename, a delete or a mark that the phone's file system refuses is `FolderFails`: the code
looks at none of these results but the upload's. `disowned` is history: the synced files the
edge said no to and whose rename back failed. `Served` names the recordings whose
edge does not decline them for ever.

Abstracted: the names and order of files; `setLastModified` belongs to the
rename; SETTLE_MS is the moment of `Close`; `migrateLegacyNames` with its renames,
`status()` and an unreadable sidecar are left out.

### CaptureDelivery
The controller (`CaptureDeliveryController`, with its receipt tracker), the
service code around it (`MicStreamService`), the capture coroutine, OkHttp and
the bridge's end. `ctl` is the controller, `ws` the service's socket under its
monitor, `main` the handler's queue, `timers` its delayed callbacks, `sock[s]`
a socket with what the bridge received and acknowledged. A handler of the main
thread holds the monitor throughout and is one action; the capture thread takes
the socket, asks `canSend` and sends without it, in three actions, so the main
thread may replace the socket between any two.

A timer may fire at any time after it is set. Ages are "fresh" until
RECEIPT_TIMEOUT_MS and "old" then (`TimePasses`). The bridge answers a hello
once and acknowledges a larger count each time; it may do so on a socket the
phone has given up, as a message may already be on its way. The url is the same
for every run (a url that changed would cancel the reconnect, which the run
check already does). Left out: `onDestroy` (another instance has another
controller), markers, level and network meters, notification wording.

### Recorder
`LocalRecorder` with `LocalBackupMonitor`. `loop[r]` is the capture loop of run
r, `w[r]` its writer: the queue, what it holds in hand (`n`, `gap`), the
position `runSamples`, the segment and the reason it is off. A frame is one unit
of time, and its number is its place in the run. `offer` is split where its
thread leaves the queue, before the dropped count is set back, as the writer
reads both. A writer step is a pass of its loop up to the next look at the queue;
`fillDropped` writes one unit per step. Free storage, the encoder and the file
are choices of each step; `faults` bounds the failures that begin. `Join` does not wait:
the join of the previous writer may run out (PREVIOUS_WRITER_WAIT_MS). Left out:
the progress meter, the read-back of the last file, the wake lock.

### VoiceSession
The voice bridge's one session: `EvictingWebsocketServerTransport`, the connect
and disconnect handlers of `main.py`, the rotation loop, the deferred disconnect
of the startup, the idle manager and the disconnect tool. `serve[s]` is where the
transport's `_client_handler` of connection s stands; `inWs` and `outWs` are the
`_websocket` of the input and the output transport, which the code keeps
separately and which do disagree for a while; `events` holds the handler tasks
that have yet to begin, in the order they were raised. A handler is one action per
stretch between two awaits: `ConnectBegins`, the prompt, `ConnectLocks`,
`ConnectEnds`. Timers (`IdleFires`, `RotationLocks`) may fire at any time they are
set. In `idle`, the user's and the bot's speech are two flags, as in the code: the user's is
set and cleared by OpenAI's events, which come only of audio the device sends (`Heard`); the
bot's ends by itself. The device may drop off the network without a close (`DeviceVanishes`), and
one whose connection the server closes without having told it to go idle is
"yanked": it would dial in again. Left out: the prompt's text, the
contexts `session_manager.py` caches, the 5 s after which an eviction gives up.

### TranscriptSync
`sync_conversation` and `_post_transcript` of `genesis_tool_service.py`. Turns are numbered; a
post carries those from its base on and is a task of its own, so posts
overlap; Genesis appends what exceeds the lines it holds (that half
is external). A post may fail before or after it was stored; so may the write of the
fallback file (`unsaved`), which the code logs and lets go; the process may be killed with
posts under way (`alive`). Left out: the branch
for a context that became shorter, and the memory tools.

### AmbientListen
`_handler` of `A/server.py` for overlapping connections of one device, with
`ActiveSession`'s start and finalize and `connection_stats.py`. `cloud[c]` is the
handler's session, `pointer` the shared `_active_session` that `/marker` writes to.
A frame, the return of a cloud call and the finally block are actions; a
dead socket is noticed only by the keep-alive (`Closed`).

### AmbientDiar
Rows, windows and labels: `store.py`, `submit_window`, `_diar_worker`, the subprocess
pool and both purges. `NextId` is the AUTOINCREMENT column; a label is recorded as
the utterance it was computed for, so that it can be compared with the row's. The
OMI bridge's process inserts and purges between any two steps. The pool may fail to
come back, be recycled for memory, or be given up.

### AmbientPipeline
`AmbientPipeline._process_sync`, `_close_window` and `_cap_raw` in units of audio:
the rolling buffer `[rawBase, rawBase + rawLen)`, the utterances of the open window, and
the detector, whose segments are known late and in order.

### DeviceRecovery
`RecoveryState` and `reboot_device` with the health loop that drives them. Instants are
ages in health ticks. `presses`, `forgotten` and `tried` are history: what really
happened, against what `mem` and `disk` remember.

### OnlineEnroll
The command of `enroll.py`, the bridge's watcher, its capture threads and
`SpeakerIDRegistry.enroll`, across the request and result files. Writing the result
and removing the request are best effort in the code and may fail in the model.

### OmiIngest
The webhook of `O/server.py` with `state.py` and `decide_anchor`. Segments are spoken at a
wall-clock time and at a position in their conversation, which may restart.
Batches are any subset of one conversation, delivered any number of times; a segment may come
without words (no row is made of it, but its id counts as seen), or twice in one batch (both
are inserted, as the filter looks at the stored state only). `wordless` and `doubled` are
history. A delivery key identifies the batch. Left out: authentication, the shapes of a
payload, segments without an id (never deduplicated), identity verdicts, the days
after which ids are forgotten.

### MeetingSession
One WebSocket of `M/server.py`: `SessionGate` with its opening hysteresis, `PreRoll`, the
billed cloud session, the two closes, dormancy and re-arm, markers and `asr_state`.
A frame carries one tick of audio; `Gaps` are the ticks that pass between two
messages, 0 for a burst. Every clock of the code is the age of its instant, capped
at `Cap`. `_finalize` lets late results in before it judges a transcript empty.

### CodexRelay, CodexManaged
`CodexRelay` is `install`, `uninstall` and the checks of `bridge.py` at the grain of its
atomic file writes: a command may die between any two, npm replaces the package, the
interpreter changes. `UpdatesAnytime` lets npm run within a command; the
documentation has the user run them in turn, and the run assumes it (section 6).
`CodexManaged` is `managed.py`: the updater, `launch`, `unmanage`, the systemd unit and its
restart. Every command reads config.json once and writes all of it back, hence
`syncing.cfg`. npm takes time over a package (`torn`). Left out: `host.cjs`, the
manual `sync` command, the hashes that `prepared_entry` checks again.

## 3. Runs

| Run | Instance | What it shows |
|---|---|---|
| edge_store_reuse | 1 name, 2 contents, 1 slot, 2 crashes, 2 damages, 1 error | what was promised survives or can be repaired; no leftover describes other bytes; a request's own rollback and quarantine remove only its own (two requests at once: edge_two); refinement |
| edge_two | under the lock 2 names, 2 slots, 1 crash, 2 errors; without it 1 name, 2 slots, 1 error | a directory made by another request; possession answers; the link race |
| sessions | lock: 2 names, 3 handlers, 4 locks; transcripts: 3 turns, 3 disconnects, 3 attempts, 3 faults, any failed fallback file, a kill; listen: 2 connections, dark after 2 ticks; relay: 2 state directories, 2 builds, 2 interpreters, 2 updates; managed: 2 builds (one incompatible), 2 npm runs, 1 fault; fair | per-name mutex, exact table, waiters served; every turn once, or its loss has a failed file or a kill; the pointer and the dark count; the original kept; only whole, qualified builds; cloud sessions end |
| mirror_loss | 1 recording, 1 edge, a broken call, a kill, a failing folder operation, 2 damages, 1 expiry, fair | the owner's rule end to end; an early purge only with the edge's word, but for a failed rename; what waits is mirrored and what is due is asked again |
| mirror_two | an old and a new recording, 2 bridges, 1 expiry, fair, the old one declined for ever if its edge likes | destinations; a declined recording does not hold up the other |
| mirror_silent (violation) | 2 recordings, 2 purges | a lost count |
| capture_safety | 3 clicks or failures, 2 sockets, 1 frame each, 2 waiting calls | what is shown is what was confirmed; one stream; hello first; never stuck |
| recorder | 2 runs, 3 frames, a queue of 1, segments of 2, 1 failure that may last | true positions, the frame count, the status, the end of the writer |
| recorder_last_frame (violation) | 1 run, 2 frames | a frame left in the queue at the stop |
| voice | 2 connections, 1 trouble (a vanished device or a failed OpenAI connection), fair | a served device has its whole session; it is told before it is closed; a dead one is closed unless it died in the middle of the user's speech |
| voice_orphan (violation) | the same | an OpenAI session for nobody |
| ambient | diarization: 4 rows, a queue of 1, ceiling 2, 1 purge; recovery: 2 presses per window, 1 restart, 1 failed save; windows of 3 in 11 units; 2 enrolments, 1 restart; 2 OMI segments, 3 deliveries, 1 fault, 1 odd segment a batch; meeting: gaps 0 to 2 | labels, windows, slices, presses, voiceprints, rows, transcripts and billed sessions |

Why the bounds are enough. A receipt is broken by one bad order of link, fsync
and crash: one crash after the answer and one before it (a retry that finds the
crashed attempt's leftovers) are the two that matter, hence MaxCrashes = 2. Two
contents make "another recording of the same name" possible; two damages make a
repair of a repair possible. Two slots suffice for races because every
race in the code is between a request and one other. In Mirror one
recording meets every order of one lost answer, one kill, one refused folder operation and two
damages (a decay and the loss of the copy that replaced it); two recordings are needed only
for the count, the routes and one that stands in the other's way (`Served = {r2}`: nothing is
assumed of r1's edge). In CaptureDelivery every race is
between one socket and its successor, or one run and its successor: three events
give start, stop, start, and a failure or a limit late in the first run; one
frame a socket is what separates "confirmed" from "not yet" (a second one only
repeats it). In Recorder a queue of 1 overflows at the second frame, a gap of 1
is filled and one of 2 opens a new file, and a segment of 2 closes within the run;
two runs give the overlapping writers; a fault begins a failure, which may last (the
encoder given up after 2 failures in a row, storage that stays full), and one is enough:
with two, TLC visits 2 million states and finds nothing more.

In VoiceSession every race is between a connection and its successor, so two connections are
enough (section 6 tells what a third and a fourth do; section 5 has any number), and one trouble
is either the silent disappearance or the failed OpenAI connection. Three turns and three
disconnects make one transcript session that grows, one that is cut, and posts of both that
overlap; three faults use up three attempts. Two state directories give an installer that finds
the other's relay; two npm runs give an update of an update. Four rows let a purge take
labelled, unlabelled and OMI rows while a window waits and another is computed; a queue of 1
drops at the second window. A budget of 2 presses with a window of 4 ticks and a cooldown of 2
is reached and passes again. Eleven units of audio are three windows of 3 and a cap. Two
enrolments are what can be confused. One odd segment a batch (`MaxOdd`) is blank or doubled;
over three deliveries it is both in turn. In MeetingSession gaps of 0, 1 and 2 ticks are a
burst, a steady stream and a stall; thresholds of 1 to 4 keep the code's order (hangover <
silence close < idle close, as in its defaults), and ages are capped above all of them, so this
instance has no bound on its length. The theorems of section 5 have no bounds.

Deadlock is checked in the runs of the edge store and the mirror. It is off where
the bounds or an idle system end a behaviour: the service waits for the user when a
capture is over, a lock table has served its handlers, a device stays away.

## 4. Fairness

`NameLock`: handlers are coroutines the event loop runs to their next await, so
each step of a handler that is enabled happens (weak fairness); a client's
cancellation is never forced.

`Mirror`: WorkManager starts a pass again and again (`K/SyncWorker.kt:88-121`)
and a pass runs on (weak fairness of `PassStep`); delays run out (`HoldOver`);
an edge answers or declines every call that does not break (weak fairness of the two
together), and does not decline a `Served` recording, or the question whether it holds it, forever
(strong fairness of `EdgeStores` and `EdgeAnswersHave` for each of them). Without the last,
`EventuallyMirrored` and `EventuallyRechecked` are false for a reason the code cannot help; of the
other recordings' edges nothing is assumed. Faults, retention and the user are not forced.

`Recorder`: a writer is a thread of its own that polls with a timeout, so it is
scheduled (weak fairness of `WriterStep`, each of which changes the writer's own
state); capture and clicks are not forced. A stalled encoder cannot hold a
writer: feeding it, draining it and waiting for its end are bounded
(`LocalRecorder.kt:444-451`, `:469-474`).

`VoiceSession`: the event loop runs every task that is ready (weak fairness of `Serve`,
`HandleEvent`, `ReleaseLock`), the lock is handed on in order (strong fairness of
`ConnectLocks`), the watchdog's second passes (`IdleFires`). What the bot says is the bridge's
own output and ends (`BotStops`; the comment at `S/session_idle_manager.py:125-126`). That the
user's speech ends is not assumed: the event that says so is OpenAI's and needs audio, and
the manager has no guard for its absence, hence the exception in `DeadDeviceClosed` (section
6). Nor is it assumed that a reply comes: that is what the pending guard is for. The
device owes nothing.

`AmbientListen`: the device streams without a pause and the cloud's calls return
(weak fairness of `HandlerStep`); the keep-alive closes a dead socket. The owner
may change the mode for ever: `CloudEnds` speaks of behaviours in which it stays passive.

`CaptureDelivery` and the other components assume no fairness: that a run is never
stuck, or that a billed session has an end in sight, is stated as an invariant
(`NeverStuck`, `BillingEnds`: the deadline that moves it on is always set).

## 5. Proofs

`NameLock_proofs`: `MutualExclusion`, `EntriesExact`, their conjunction with the type
`TableHolds`, and `ImplementsMutex`
(`Spec => MutexSpec`), for any number of names, handlers and lock objects. The
invariant `LockTableInv` adds to the type that an entry's counter is the number
of handlers that refer to its lock, that each of them refers to the lock the table
has for its name, that no lock serves two names, and that who is in the block owns its lock.
Leaving is the step that needs it: the entry is dropped at a count of one, and the
count is what rules out a waiter. `ImplementsMutex` is what entitles `EdgeStore`
to start from an abstract lock.

`EdgeStore_proofs`, for any number of names, contents, slots, crashes, damages and
errors. Whatever locks the writers share: `TypeCorrect` and `TornKept` (`NothingTorn`). Under
`Exclusive` (the name lock): `InductiveHolds`, and from it `ReceiptKept`, `TimingKept`,
`LeftoversKept`, `RepairKept`, with the two that the runs check, `PromiseHolds` (`PromiseKept`)
and `DiskStaysClean` (`CleanDisk`); the action properties `RemovalsOwn`
(`RemovesOnlyItsOwn`) and `VouchHolds` (`VouchedStays`); and `ArchiveImplemented` (`ArchiveSpec`),
the refinement of `EdgeArchive`. `DiskHoldsWithOrWithoutLock` (`DiskHolds`) and
`FilesStayOfSameBytes` (`FilesStay`) are about the two settings of `MCEdgeTwo` side by side.

The argument. None of the properties is inductive: what makes `ReceiptSurvives`
hold at the answer is what the request did ten steps before. `EdgeStoreInvariant`
states, besides the type, three things, and all the properties follow from them.
`LockInv`: a request past the lock is the holder of its name, so only it
changes that name's files. `DiskInv`, for each name: every version that
can survive matches its own sidecar and proof, and, when the name is promised,
holds the promised bytes with the sidecar and the proof that belong to them,
in a durable day directory. `ReqInv`, for each request, what its program counter
implies: which bytes it hashed, that no audio is held from the removal of
leftovers to the link, that after the hash the file is its own unless the disk
was damaged since (`sound`), and what its flags mean. `InductiveHolds` proves
that they hold initially and are kept by each of the actions (one lemma per action);
the others are consequences. TLC checked the same formulas as invariants before they
were proved.

The action properties and the refinement need more of the audio as it is between the answers,
`AudioInv`: what a request linked is there, rotten or gone (`LinkedOwn`); what a possession
check vouched for is there, and no request may take it back (`VouchedHeld`); a name whose audio
changed without an fsync since was empty in between (`Gapped`). The last is why a change that
becomes durable at once, at an fsync, is one step of the archive at most. `SettledRight` says
that the bytes the archive sees are the promised ones, and `AnswerOf` what a receipt adds: each
action of the store is, name by name, a step of `EdgeArchive` or leaves the name alone.
`NothingTorn` rests on `Untorn` alone, with the order of the calls before a link: a request at
its link has flushed its bytes (`FlushedFirst`), so whatever a power loss makes of the
directory, the name shows whole bytes or nothing. So does the half of `DiskHolds` without a lock
(`RaceInv`).

The hypothesis `Exclusive` is needed: with two slots that share no lock, TLC finds
`ReceiptSurvives` and `VouchedStays` violated (one writer's rollback against the other's retry).
`RemovesOnlyItsOwn` then holds of writers of the same bytes (which is the hypothesis of
`FilesStayOfSameBytes`), and not of different ones, as TLC shows: an old proof licenses one
writer to move aside what the other has just linked, and the other's rollback takes back the
first one's bytes. The code serves one process, which is what the lock is for.

`Recorder_proofs`: `RecorderInvariant`, and from it `RecordingKept` (`RecordingTrue`) and
`StatusKept` (`StatusIsThisRuns`), for any number of runs, frames, failures and
any lengths. Two properties of each run carry the weight. `InLine`: what the writer has in
its files, has in hand and has in the queue, with the counts dropped before each
frame and the count not yet attached to one, adds up to what was read, in order.
`Placed`: an open segment's start and length are the writer's position, and each unit is
silence or the frame of its own time. A pass of the writer's loop may close, fill, skip,
fail and report; each of these has a lemma about the writer's record alone, so that the
proof about a pass only composes them.

`CaptureDelivery_proofs`: `CaptureInvariant`, and from it `StreamInOrder` (`SentInOrder`),
`ShownTrue` (`ShownIsTrue`) and `PhasesMoveOn` (`NeverStuck`), for any number of clicks,
sockets, frames and queued calls. What a coroutine holds and what waits in the queue speaks
of a socket as it was; the proof rests on `SocketsGrow`: a socket only learns more, its
hello stays sent and its counts only rise, so an old permission and an old receipt stay
true of it. `CapInv` has the one exception the code allows, a frame sent to a socket that
is no longer up. `PhaseInv` ties the phase to the alert, the notification and the receipts of
the current socket. `MovesOn` is the reason a run is never stuck: a deadline, a
coroutine that begins or a failure that is queued, and whatever consumes one sets
another. The count in `QueueInv` leaves run ids for the starts that wait.

`Mirror_proofs`: `MirrorInvariant`, and from it `MirrorIsKept` (`MirrorKept`, the owner's
rule from the phone's file to the edge's disk), `AllSentHome` (`SentHome`), `NoneGoEarly`
(`OnlyHeldCopiesGoEarly`, an action property), for any sets of recordings, bridges and purgers and
any number of kills, lost calls, damages and refused folder operations. `Chosen` is what
makes routing true: before a default is chosen no endpoint is known, and whatever
could take the default later was made for it, was never to be sent, or strayed. `Homeward`
says the same of X.dest files and calls under way. `Promises` and `Vouched` are the two
halves of the owner's rule: a promised copy is there unless it was spoiled, and a file called
synced was vouched for. `CallFits` is why a re-check's answer meets the recording it asked about:
`verifying` keeps retention off it. That a synced file's last word was yes needs the rename
after a no to have worked; the property and the invariant name the others (`disowned`).

`VoiceSession_proofs`: `SessionIsWhole` (`SessionWhole`) and `ToldFirst` (`TellsFirst`), for any finite
number of connections and any number of troubles. `SocketInv` says who can be where: one
connection is open at a time (`OneOpen`), an evicted one is no longer open and was served before
(`EvictInv`), one that is served without the input's place was evicted by one that
still waits, and one that waits while the place is taken waits behind one that waited too
(`PlaceInv`). Each way in which the server closes a socket is then a case, and only
the two races that the property names are left. `LinkInv` is what makes a session whole
however late its handlers run: the connection in the place is the session's, with only disconnect
events to come, or its connect event is the last one queued. `LiveInv` says that a live session
has an idle manager and OpenAI or a connect handler on its way to both, and that the
disconnect handlers that wait for the lock carry an older `_conn_seq`; `CountInv` bounds that
number by the connections whose connect handler has begun. Both are about evictions that
wait for the teardown: the 5 s after which one gives up are not modelled.

`Sessions_proofs`: `TypesCorrect`; `TurnsOnce` (`EachTurnOnce`: once, or in a file, or with a write
that failed, or in a post the process died with), from which stretch of turns each
transcript session is about, that the stretches follow one another (`Cuts`), and that a
post and what Genesis holds lie within theirs; `OverlapIsHarmless` (`OverlapHarmless`), with the
dark period's count against the number of served handlers (`DarkAt`);
`OriginalsKept` (`OriginalKept`), with how far a command has come (`CommandInv`), under the hypothesis
that is part of the property, `~UpdatesAnytime`; `BuildsPrepared` (`PreparedBuilds`): the updater's
copy of the configuration is never ahead of what is published.

`Ambient_proofs`, one theorem per property of the run, each from an invariant of its component:

* `AmbientTypes` and `LabelsTrue`, `WindowsDisjoint` (`LabelsOwnRow`, `OneWindowEach`): an id is
  the number of the utterance of its row (`RowsTrue`), and the open window, the worker's and
  those queued share no row and hold no labelled one (`WindowsApart`), so a label meets the row
  it was computed for or none.
* `SlicesRight` (`SlicedRight`): `Aligned`, how the buffer's base, the window's first
  sample, its utterances and what was fed lie to each other in the midst of a call. It
  needs that an utterance with its pause fits a window (`PipelineAssumption`; by default 60 s).
* `EnrolmentHolds` (`EnrolmentTrue`): what is asked, served and saved are requests in their order;
  one is built once in each life of the bridge; done means built.
* `InsertedOnceHolds`, `TimesStayNear` (`InsertedOnce`, `TimesNear`): what is seen has a row or came
  without words; a segment that is neither seen nor being inserted has no more rows than faults, twice
  as many if it came twice in a batch; an epoch is off by no more than
  the tolerance and the delivery's delay.
* `ConversationIsKept`, `BillingIsEnded` (`ConversationKept`, `BillingEnds`): where nobody is
  connected nothing is open, an open session has an age, and while dormant the gate and the
  silence close count the same silence (`Gated`).
* `BudgetKept` (`PressBudget`) and `RecoveryIsTrue` (`RecoveryTrue`): every press but the
  forgotten ones has an attempt of its own on record that is no older (`Matched`, by induction
  along the sequences' order), the file is a prefix of what the process remembers, and attempts
  keep their cooldown. The half about paging a human has hypotheses: the escalation lies beyond
  the windows, as in the code's defaults (14400 s, 3600 s), and one attempt is enough for a page
  (`MinReboots = 1`, the default of AMBIENT_RECOVERY_ESCALATION_MIN_REBOOTS). With 2 TLC finds a
  counterexample: an attempt in flight while the device is seen again counts towards the next
  escalation, so a page may come after one attempt of the new dark period.

Every named assumption of a module (`ASSUME` beside its constants) types the constants or says
what the code's configuration clamps or its defaults guarantee; TLC evaluates each of them in the
runs. Induction over data is out of the prover's reach; where a proof about
sequences needs it, the model has a form without recursion or the argument is by a
largest position.

Only model-checked. Liveness (`EventuallyMirrored`, `EventuallyRechecked`, `WriterEnds`,
`WaiterServed`, `CloudEnds`, `DeadDeviceClosed`), which like ENABLED is out of the prover's
reach. Every safety property of a passing run has a theorem. With hypotheses: `FilesStay` (one
content, as in its run; its half under the lock is `RemovalsOwn` with `VouchHolds` for any
contents), `OriginalKept` and the paging half of `RecoveryTrue`, each as told above.
`NeverSilent`, `LastFrameKept` and `NoOrphan`, which runs refute, and the refuted formulas of
section 6 are no theorems. No module declares a RECURSIVE operator.

## 6. Disagreements between code and documentation

With a run that shows them:

* `K/LocalRecorder.kt:101` says a lost recording is never silent; two purges at
  once can lose one count (run mirror_silent).
* `K/LocalRecorder.kt:200-201` says the last frame read before Stop is kept; a
  writer whose poll timed out just before the frame was queued sees `finishing`
  and leaves it in the queue (run recorder_last_frame, `LocalRecorder.kt:299`).
* `S/main.py:609` disconnects from OpenAI "to stop the 60-min session clock"; the
  connect handler of a device that hung up during the prompt refresh opens
  the session after that, and nothing closes it until the next client (run voice_orphan).

Stated in a module and refuted by TLC when put into its configuration:

* `EdgeStore.FailedAttemptLeavesNoFile`: `M/upload_store.py:15-16` says a failed
  attempt never leaves a final file; a failure after the read-back leaves it. The
  file is the right one and proven, so no receipt is at risk.
* `AmbientDiar.JoinReturns`: `A/server.py:253` drops the oldest window with
  `get_nowait` and no `task_done`, so after one drop the shutdown's `join` never
  returns by itself and always takes its 30 s.
* `OmiIngest.Reprocessed`: segments are marked seen only after the insert "so a
  mid-batch failure re-processes", but the failed request is answered 200 and its
  delivery key is already recorded, so a repetition is dropped.
* `VoiceSession`, a device closed untold: the transport waits for the evicted
  handler so that no "late teardown closes the device's fresh connection"
  (`S/evicting_transport.py:15-20`). Only the connection that evicts waits: a third one that
  is made during that wait finds the place empty, is taken at once, and is what the
  late teardown closes (`Overtook`). A fourth one evicts that third one in turn; the
  second, whose wait is over first, takes the place again, and the fourth is refused, which is a
  close without a word (`PlaceRetaken`). TLC refutes that no socket is ever yanked with
  `Socks = {1, 2, 3}`, and that the first race is the only one with four; `TellsFirst` names
  both, and `ToldFirst` proves that there is no other. (The code's
  stale-socket guard, `RestoreOutput`, is for this case; with two connections the
  disconnect of the first always comes before the connect of the second.)
* `Mirror.OnlyHeldCopiesGoEarly` without `disowned`: "a no puts the file back in the queue", "when
  there is any doubt, keep the file" (`K/SegmentSync.kt:24-28`). The rename back is not
  looked at (`:357`): where it fails, the file stays synced after the edge's no, and a purge
  under storage pressure may take what is then the only copy. It is asked about again at the next pass.
* `VoiceSession.DeadDeviceClosed` without `MidSpeech`: "a silently dead device sends no frames
  -> idle-close within 45s" (`S/websocket_handler.py:48-52`). While the user-speaking flag is
  set the manager counts as active (`S/session_idle_manager.py:208-221`), and only an event that
  OpenAI derives from the device's audio clears it: a device that vanishes in the middle of a
  sentence may keep its session open.
* `TranscriptSync.EachTurnOnce` without `unsaved` and the posts of a killed process: "save locally so
  the transcript is never lost" (`S/genesis_tool_service.py:247`). A failed write of that file is logged
  and forgotten (`:257-280`), and a post under way dies with the process.
* `OmiIngest.InsertedOnce` without `wordless` and `doubled`: `O/README.md:23` has OMI refine its
  segments, but one that is seen while it is blank gets no row later (`O/normalize.py:93-95`,
  `O/server.py:155`), and an id twice in one batch is inserted twice (`:134-135`).
* `AmbientListen.MarkerHits`: "one device, one connection, so a single ref
  suffices" (`A/server.py:236-237`); while a zombie overlaps its successor the
  release of one can leave the other's session without the reference.
* `CodexManaged.UpdaterStopped`: `C/README.md:115` says unmanage stops the updater; one
  that runs meanwhile writes its whole configuration back, enabled, or is started
  again by a launch.
* `CodexRelay.OriginalKept` with `UpdatesAnytime`: npm within an install leaves a
  relay over a package whose original was not kept.

Seen while modelling:

* `K/SegmentSync.kt:36-37` says a ws:// recording stays on the phone; one made
  before the first encrypted endpoint that loses its X.dest takes the default
  (`SegmentSync.kt:152`; the model has it, and `SentHome` excepts it as `Strays`).
* `K/CaptureDeliveryController.kt:40-41` says a callback of an older run changes
  nothing; the 14-hour limit is posted without a run id (`MicStreamService.kt:310`),
  so a start queued ahead of it begins a run that the limit of the old one stops.
* `K/LocalRecorder.kt:181-182` says a writer opens no encoder before the last one
  released its own; it waits at most 10 s (line 292) for up to 15 s of audio.
* `M/server.py:434-437` advances the session clock so that later markers line up with
  the cloud's timestamps; silence that is not sent moves them apart again.
* `S/main.py:541` says a failed rotation is tried again in the next cycle; the next
  cycle finds no socket and ends the loop (531-534).
* `A/server.py:426-427`: a pool that could not be recreated stays away, while health
  goes on reporting diarization as enabled (529-530).
* `A/esphome_recovery.py:14` calls reboot loops impossible; a restart between the press
  and its record allows one press more (`forgotten` in `PressBudget`).
* `O/state.py:4-5` says that losing the dedup state "costs at most one duplicate row or ~2s of
  jitter on a single batch". Every segment of the batches that OMI then sends again gets a
  second row (`InsertedOnce` allows one more for each such loss), and the times of a re-anchored
  batch may be off by its delay and the tolerance (OMI_ANCHOR_TOLERANCE_S, 60 s by default;
  `TimesNear`).
* The purges of both processes count and delete in two statements
  (`A/store.py`), so two at once may delete more than the ceiling asks.
* A second enrolment that is written while the first is being finalized has its
  request file removed with the first one's; its command gives up at its deadline.
  A save that fails leaves the new voice in memory until a restart.
* An installer that dies between its config and its launcher, after the interpreter
  changed, leaves a relay that is neither installable nor removable.

## 7. What is left

Proofs: what is open is listed at the end of section 5. Worth stating next: what `NoOrphan` and
`NeverSilent` become under hypotheses that exclude their races, and lemmas that shorten the
longest proofs (`EdgeStore_proofs`).

Models: the shrinking context of the transcript sync together with the context cache
of `session_manager.py` (a session that ends and comes back within its expiry);
the eviction that gives up after 5 s; the manual `sync` beside the updater.

Not modelled:

* `noise_gate.py`, `interrupt_relay.py`, `audio_recorder.py`,
  `audio_recording_service.py`, `raw_audio_serializer.py`, resampling, scores and verdicts
  of `speaker_id.py`: functions of audio samples within one task.
* `active_speaker_id.py`, the accumulation of transcripts in `active_transcript.py`, gate
  statistics, health files and their HTTP routes: reports that nothing reads back.
* In the phone: `migrateLegacyNames` and the renames it makes at a start, `status()`,
  `onDestroy`, markers, level and network meters, the screens and notifications.
* The firmware (C++ on the device) and `host.cjs`: they are the environment of the
  bridges' models.
* Configuration parsing, ONNX models, audio codecs, deployment scripts: they keep no
  state whose order of change matters.
