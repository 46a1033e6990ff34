# TLA+ verification of the Eufy Security integration for Home Assistant

This directory holds TLA+ models of `custom_components/eufy_security_advanced`, the
TLC configurations that check them on small instances, and TLAPS proofs for every value
of the constants. All source paths below are relative to
`src/custom_components/eufy_security_advanced/`.

* `tlc -config X.cfg M` checks a run, `tlapm M.tla` the proofs of a module.
* An operator named `Mutant...` is a seeded bug. It is never part of a specification; it
  stands next to the operator it mutates, to show that a property notices the bug.
* The word *history* marks a variable or a part of one that exists only to state a
  property; *external* marks the station, the network and the cloud, which are modelled
  from how the code uses them.

## 1. Inventory

The integration is one asyncio program: everything runs in Home Assistant's event loop.
A task runs undisturbed between two `await`s, and tasks interleave at the `await`s. That
is the grain of every model: an action is what one task does between two points at which
it may be suspended. Each hard behaviour below is one of those interleavings, or comes
from UDP, from the station, or from the cloud.

| Component | State | Operations | Hard behaviour | Correct when |
|---|---|---|---|---|
| Receive path, `lib/p2p/session.py` `_handle_data` | `_expected_seq`, `_reassembly` per channel | take a segment, acknowledge, store, drain | loss, duplicates, reordering, 16-bit numbers, handlers that raise | a FIFO channel; nothing acknowledged is lost |
| Session life cycle, `lib/p2p/session.py` `connect`, `disconnect`, `_receive_loop`, `_heartbeat_loop`, `_handle_gateway_info` | socket, `_connected`, key and level, `_missed_pongs`, three tasks | connect, handshake, heartbeat, disconnect | END, timeouts and the owner racing `connect()`; a cloud call inside the receive loop | living stations kept, dead ones noticed, nothing left running |
| Commands, `send_command`, `_handle_ack`, `_dispatch_message` | `_pending_commands`, `_command_results`, `_send_sequence` | send, retry, wait, resolve | concurrent callers, lost ACKs, late answers | each caller gets its answer or None, and no entry is left |
| Livestream and keepalive, `start_livestream`, `stop_livestream`, `_keepalive_loop` | `_is_streaming`, `_keepalive_task` | start, stop | stop and start overlap while each waits up to 31 s | keepalive runs exactly while streaming |
| Reassembly and frames, `_process_data_segment`, `_handle_video_frame` | partial message per channel | append, complete, restart | a header inside an unfinished message, the codec and first key frame | only complete messages are dispatched |
| Session pool, `p2p_manager.py` | `_sessions`, `_locks`, `_shutting_down` | get, disconnect, shut down; disconnect callback | waiters on the lock, sessions ending by themselves, old holders, shutdown during connect | one session per station, none after shutdown |
| Stream manager, `stream_manager.py` | `_active_sessions`, `_stream_active`, `_stop_timers` | push event, start, stop timer, clean up | events during connect, timer against cleanup | each stream is stopped, each session has an owner |
| Camera pipeline, `camera.py` | ffmpeg process, pipe, TCP server, `_stream_url`, `_p2p_session` | turn on/off, lazy set-up, tear-down, callbacks | concurrent set-up and tear-down, shared pooled session | no leaked process or pipe, no URL without frames |
| Push transport, `lib/push/mcs.py` (with `fcm.py`, `parser.py`) | connection, tasks, stream ids, backoff | connect, log in, receive, heartbeat, reconnect | cancellation inside waits, the acknowledgement by ids | no message lost or handled twice; reconnects until stopped, then stays stopped |
| Coordinator, `coordinator.py`, `__init__.py` | stations, devices, push and pool objects | set up with retries, poll, apply push, shut down | a push between the start of a poll and its merge; the set-up in the background against the shutdown | a newer state is not overwritten |
| Cloud API, `lib/cloud_api.py` | token, key, rate limiter window, stations, devices | login, requests, refresh | a login under another task's request, expiry | answers are understood, calls end |
| MQTT, `lib/mqtt/client.py` | subscriptions, run loop | connect, receive, reconnect | cancellation | as for push |
| Entities: `switch.py`, `select.py`, `number.py`, `alarm_control_panel.py`, `binary_sensor.py`, `lock.py`, `button.py` | views of coordinator state; timers of detections | one command each | an answer after the object was replaced, timers of older detections | what is shown is what is |
| Config flow, `config_flow.py` | the login in progress | steps: user, code, captcha | the order in which the cloud demands them | an entry only after a login |
| Services, `services.py` | none | one command each | as for commands | — |
| Wire format, cryptography, models: `lib/p2p/protocol.py`, `lib/crypto.py`, `lib/models.py`, `lib/types.py` | none | encode, decode | boundaries only | tested by `tests/` |

How they interact: the coordinator owns the API client, the pool, the stream manager and
the push client. Entities and services call `pool.get_session` and then commands of the
session. A push message goes from the MCS client through the parser to the coordinator,
which updates its device objects and hands the message to the stream manager; that opens
a session of its own, outside the pool. A session reports back through three callbacks
(stream data, events, disconnect), which a camera replaces for its own use.

`PROJECT.json` lists the components with their status, and the hazards at their lines.

## 2. Modules

| Module | Models | Notes |
|---|---|---|
| `FifoChannel` | abstract channel: sent, delivered in order | what the receive path promises |
| `P2PReceiver` | receive path, station window, UDP | refines `FifoChannel` (`ChannelSpec`, `ChannelLive`) |
| `SessionLife` | abstract session as its owner sees it | what `connect()` and `connected` promise |
| `P2PSession` | life cycle of one session | refines `SessionLife` (`LifeSpec`) |
| `P2PCommand` | concurrent `send_command` calls | answers arrive over a channel that is FIFO by `P2PReceiver` |
| `P2PSessionPool` | the pool, its users and its sessions | its sessions make the steps of `SessionLife` |
| `StationCommands` | the public operations of a session, by their command types | gives `P2PCommand` its callers |
| `MessageChannel` | abstract channel of whole messages, per data type | what the message layer promises |
| `P2PReassembly` | multi-part messages and video frames of a session | over `FifoChannel`; refines `MessageChannel` (`MessagesInOrder`) |
| `CloudApi` | calls of the cloud by several tasks over one token and key | |
| `DeviceState` | the state entities show, and all that writes it | EXTENDS `CloudApi`: each step of a call is a step of the client (`ClientRefined`) |
| `StreamManager` | preemptive streams, livestream and keepalive of sessions | |
| `CameraStream` | a camera over the manager and the pool, with another camera of the station | EXTENDS `StreamManager` |
| `PushConnection` | the MCS client and its server | |
| `PushLife` | an entry's life: config flow, set-up, registration, MQTT, unload | EXTENDS `PushConnection` |
| `...Proofs` | — | theorems about the components, section 5 |
| `MC...` | instances for TLC | |

The composition is by contract where the parts only meet at an interface:
`P2PReceiver` proves the FIFO channel that `P2PCommand` uses for answers and
`P2PReassembly` for segments, and `P2PSession` implements the `SessionLife` whose steps
the sessions of `P2PSessionPool` make (by construction: `Establish`, `ConnectSucceeds`,
`ConnectFails` and `Ends` are its actions for one session of many). Where parts share variables they are composed in
one specification: the camera and the stream manager touch the same sessions, the poll and
the commands the same client, the coordinator's shutdown the push client's tasks.

### P2PReceiver

A segment's payload is its position in the station's stream. `_expected_seq` and
`_reassembly` are `expectedSeq` and `reassembly`; `handling` says that the loop waits for
a handler, so that no other packet is taken. The three cases of `_handle_data` are
`HandleDuplicate`, `HandleOutOfOrder` and `HandleInOrder`; the drain loop is `DrainNext`
and `DrainDone`, one turn per step. With `DispatchMayRaise` a handler may raise, which
ends `_handle_data` at that point (`_receive_loop` catches the exception).

Two facts about the environment are assumed. The station has at most `Window`
segments that are not acknowledged, and a packet does not survive until `Lifetime` newer
segments have been sent; `Window <= Lifetime <= SeqMod / 2`. Without them no receiver
with wrapping numbers could tell old from new. Both are actions' guards (`WindowOpen`,
`NoOldPacket`), not properties.

### P2PSession

`pc` is the place in `connect()`. The receive task is `"idle"` on the socket, `"cipher"`
while `_handle_gateway_info` awaits `get_cipher`, or `"ended"`. `disconnect()` contains no
suspension, so `Disconnect` is part of the step of whoever calls it: END in the receive
loop, the heartbeat, the lookup timeout, or the owner. `Connected` is separate from
`RecvCamId` because the event loop may run other tasks between `connected_event.set()`
and the resumption of `connect()`; this is where END can overtake.

Time: timeouts fire at any moment, except that a living station's PONG has reached the
socket and been taken before the next PING (unless the loop waits for the cloud), and a
cloud call lasts at most `CipherBeats` heartbeats, `CipherBeats + 1 < MaxMiss`. This is an
assumption on the cloud: with `HEARTBEAT_INTERVAL` 5 s and 10 misses a call of `get_cipher`
must take less than about 40 s. `lib/cloud_api.py` sets no timeout of its own (aiohttp's
default is minutes), so a slower call makes the heartbeat give up a living station;
`AliveStationKept` holds up to that bound and not beyond.

### P2PCommand

`pending` and `results` are the two dictionaries, holding the caller whose future is
registered. A caller is in the ACK loop (`"ack"`), waits for the result (`"result"`), or
its result future has been cancelled by the timer and it has not run yet (`"expired"`).
An ACK that comes in the last instant before a timeout may or may not count: both happen.
All public operations of the session from `set_guard_mode` to `pan_tilt` are calls of
`send_command` with the types in `StationCommands`; which a caller uses is the constant
`Uses`. The run's two callers are a lock and a camera, which share `CMD_SET_PAYLOAD`.

Assumed: 2^16 numbers last longer than one call with the packets it leaves
(`NotInUse`). ACKs that arrive after a call has returned are dropped by the model, which
is sound because they find no entry (`TablesHoldWaiting`).

### P2PSessionPool

`table` is `_sessions`, and each station has an `asyncio.Lock` with its queue. `Inside` is
the body of `async with` up to its first `await`; `DskReturns`, `ConnectSucceeds`,
`ConnectFails` and `CreateRaises` are the continuations. `hook` is a session's disconnect
callback, the pool's or a camera's. A holder may disconnect its session at any time, also
when the session has ended already. `Shutdown` is one step because no
`session.disconnect()` suspends.

### P2PReassembly

`pending` is what `_reassembly_total`, `_reassembly_received` and the two keys of
`_reassembly` hold together. A head that fits in its segment is dispatched at once and
leaves an unfinished message alone (`ProcessShort`); one that does not takes the place of
the unfinished message (`ProcessHead`); a segment without a head is added to it
(`ProcessPart`) or dropped (`ProcessStray`). Lengths are counted in segments, and payload
that looks like a head is left out. Of the dispatched messages only video frames have
state: `HandleVideoFrame` waits for a keyframe and keeps the codec of the first frame;
`StartLivestream` begins afresh, while frames of the earlier stream may still be queued.

### CloudApi and DeviceState

A call of `_post` is `limited` or not, `ready`, `asked` (on its way), `answered`; a 401
makes it log in and try again, a lost one waits and tries again. Each login opens a
session with a key of its own and ends the one before, which is what makes the tasks
disturb each other: token and key change under the requests of others. The cloud's answer
to a login may name no public key (`nameless`); the client then takes the key computed from
`SERVER_PUBLIC_KEY_DEFAULT` (`DefaultKey`), which is no session's, until a later login names
one. An answer that does not decrypt counts as an empty list (`Garbled`): `_decrypt_response`
returns the text, and `get_device_list` finds no list in it.

`device` is the object in `devices[sn]`, with the number of its replacement in
`device.made`; a command that waits remembers the number it began with and writes to
nothing anybody sees when the object has been replaced. Commands are tasks (`Setters`), and
nothing serialises them: two on one setting overlap, the cloud takes them over in one order
and their answers may come in the other. `async_setup` makes the
coordinator's tables the client's own, so the merge of `_async_update_data` compares
objects with themselves, and `get_device_list` is what changes the tables. Timers of
detections are only counted: nothing links one to a detection.

### StreamManager and CameraStream

A start of the manager is a task and makes at most one session, which has the task's
name. `Cleanup` is `_cleanup_device` up to the wait for `stop_livestream`, `StopReturned`
the rest. The livestream of a session is `streaming`; the keepalive task begins when the
start command has ended and is cancelled when a stop command has ended. `hung` tells the
camera which sessions' `disconnect()` ran in a step, so that its callback is part of
that step, as it is in the code.

A task of the camera is `turn_on`, `turn_off`, `stream_source`, the start button, a
`_stop_stream` or a `_cleanup_ffmpeg`; `task[t].at` is the await it stands at. A pipeline
is a number: the fields of the entity name the ones it knows, `fds` and `running` the ones
that exist. A set-up may fail at either of its awaits (`SetupFails`: no ffmpeg, no port).

The pool's session is the station's, and a session has one slot for the disconnect callback.
`bound` are the sessions whose slot is the camera's, `taken` those in which another camera of
the station has replaced it (`OtherListening`). Of that camera all that the two share is
modelled: it asks the pool for the session, takes the callbacks, starts and stops streams on
it, disconnects it, and forgets it; its pipeline, which is its own, is left out. The pool hands
out the connected session of the station if there is one (`Pooled`); that a second one is
connected after an eviction is `P2PSessionPool`'s matter.

### PushConnection and PushLife

`run` is the await of `run_forever`, `recv` its receive task. The server keeps a message
until a login names its id, and sends on each connection what it still keeps: this is what
`_received_persistent_ids` is for. `HandleDataMessage` records the id first and then calls
the handler, which may raise; the receive task then ends and the connection is made again.
`PushLife` begins with the form of the config flow and ends with the two shutdowns of an
unload. The registration is a background task of its own that may still be running then.

## 3. Runs

| Run | Bounds | What it shows |
|---|---|---|
| `receiver` | one channel, `SeqMod` 8, `Window` = `Lifetime` = 4, 10 segments | in order and exactly once; acknowledged means handed over or stored; nothing stored is stranded; at most a window is stored; refinement of `FifoChannel`, with its liveness |
| `receiver_raises` | the same with handlers that raise | *violated*: `NothingStranded` |
| `session` | 4 missed PONGs, cloud calls up to 2 heartbeats | the eight properties below |
| `command` | 2 callers, 2 command types, numbers modulo 2, 3 attempts | tables without leftovers, own answer when undisturbed, no answer twice, every call returns, within a fixed number of its own steps |
| `command_shared` | the same | *violated*: `OwnResult` |
| `pool` | 1 station, 2 tasks, 3 sessions | one session per station unless one was evicted, shutdown, lock liveness |
| `pool_evicted` | the same | *violated*: `OneSessionPerStation` |
| `reassembly` | one channel, messages up to 3 segments, 3 messages, 2 streams, 2 segments queued | messages whole, once and in order; nothing waits for more than it needs; a decoder can begin with what is shown; the right codec |
| `state` | the poll and 2 tasks of commands, 2 attempts, 2 sessions after the first, 3 inputs, 2 timers | what is shown is what the cloud has, with named exceptions; detections end; answers are understood, with two named exceptions; calls end |
| `state_overwritten` | the same with 2 inputs | *violated*: `PushStateKept` |
| `stream` | 2 starts of the manager, 1 pool session, 2 tasks of the two cameras, 2 pipelines, 4 inputs | streams are timed, pinged and owned; pipes and URLs do not leak, with named exceptions |
| `push` | 3 messages, memory for 1 id, 2 failures, login and GCM three times, a lock | messages are neither lost nor handled twice; quiet after the unload, with one named exception; every message is delivered |

Why these bounds are enough. *Receiver*: 10 segments go around the number space of 8 once
and a quarter, with the largest window the assumptions allow, so each comparison is made
on both sides of the wrap; channels do not share state except `handling`, and the proofs
cover several channels. *Session*: nothing but the heartbeat counts, and 4 exceeds the
`CipherBeats + 1` = 3 that a living station can reach. *Command*: the properties relate a
call to one other call or to one late answer; three attempts distinguish the first, a
middle and the last. *Pool*: the shortest history that breaks one-session-per-station
needs three sessions (one ended, its successor, and the third made when the successor was
evicted), and two tasks are enough to hold and wait for a lock.

*Reassembly*: three segments make a
first, a middle and a last one; three messages an abandoned one, its successor and a short
one in between; two streams the frames before and after a restart with another codec.
*State*: an input is a push, a lock event, a poll, a command, a change in another app or a
session that a login opens, and any three of them come in any order: two commands on one
setting and the poll that falls anywhere between them, a command, a poll and a login under
both, a poll and two logins of which one names no key, two detections and a poll. Two timers
are one more than detections that are on at a time. *Stream*: two starts
make an overlap; two tasks a set-up against another, a clean-up, or the other camera; a
second pipeline what comes after a leak; four inputs suffice for start, event, end and stop.
It has 2.4 million states, and each next larger bound is beyond minutes; the proofs cover the
rest. *Push*: a
memory for one id overflows with the second message, and the third shows the order; two
failures are three connections, the last of which works.

Properties of `session`, in the order of the cfg: a connected session without a
socket exists only after an early END; the heartbeat never gives up a living station that
has a socket; each heartbeat brings the end of a session with a dead station nearer
(`DeadStationCounted`); after `disconnect()` the key stays as it is and what is left runs down
(`ClosedRunsDown`); a dead station is noticed; after `disconnect()` every task ends for good;
`connect()` returns; the session implements `SessionLife`. The two counts say without
fairness what the next two say with it: these can be proved.

### Violations, and what they mean

* `receiver_raises`. `session.py:432` and `:436` say that buffered continuations are
  processed. If `_process_data_segment` raises, the rest of the drain is skipped. The
  expected segment is in `_reassembly`, acknowledged, so the station does not send it
  again, and later segments are only stored: the channel is silent from then on.
* `command_shared`. `session.py:748` says that `send_command` returns the result of the
  command. Futures are kept by command type, and most operations share `CMD_SET_PAYLOAD`.
  The second caller is given the first one's result, the first one times out.
  `OwnResultWhenAlone` in the passing run says exactly when this cannot happen.
* `pool_evicted`. `p2p_manager.py:1` says one session per station. The disconnect callback
  pops by station and runs on each `disconnect()`, so a second `disconnect()` of an old
  session removes its successor from the table. `OneSessionUnlessEvicted` and
  `LiveIsInTable` say that this is the only way.
* `state_overwritten`. `coordinator.py:405` says that the merge does not overwrite
  push-driven state. The tables it merges are one and the same (`coordinator.py:138`), and
  the new objects of `cloud_api.py:548` have the defaults: a poll ends a detection early,
  and shows a lock that was unlocked as locked, until the next event.

The passing runs name what is allowed to go wrong, because the code lets it: `behind` in
`SettingShown` (after a change elsewhere, a command that crossed a poll or failed after the
cloud had taken it over, or two commands answered in another order than they were taken
over), `since` and `nameless` in `GarbledOnlyAfterLogin` (another login completed, or the
login named no key), `overlap` in `SessionHeld` (two starts at once, the first session is
forgotten and stays connected), `crossed` in `PipelineHeld` (overlapping set-ups and clean-ups,
or a set-up over what a failed one had left), `late` and `taken` in `UrlWithdrawn` (the
session had ended before the callbacks were set, or the other camera has them), `lost` in
`StreamingPinged` (the manager's session ends, and the camera's callback forgets the pool's
session, which goes on streaming), `forgotten` in
`HandledOnce` (more ids than the list holds), `missed` in `QuietAfterUnload` (the
registration is under way at the unload and starts the client afterwards; or the receive
task swallows the cancellation, and `run_forever` connects again).

### Further counterexamples

What the exceptions of the passing runs exempt is not left to words: each configuration below
states, of the same instance as the passing run, what the source promises without the
exception, and TLC finds it violated. They are not among the runs of `PROJECT.json`;
`tlc -config X.cfg M` shows the trace.

* `MCP2PSessionPool_handed.cfg`, `HandedOutConnected`. `p2p_manager.py:41` says "a connected
  P2P session". `connect()` returns True when it resumes after the handshake, also when END
  has come in between; `get_session` stores that session and hands it out.
* `MCCameraStream_taken.cfg`, `UrlServed`. `camera.py:67` says that STREAM is offered only
  when a live stream is available, which is read off `_stream_url`. Another camera of the
  station takes the one disconnect callback of the session they share (`camera.py:290`);
  when the session ends, the first camera keeps its URL. `UrlWithdrawn` names this and a
  session that had ended before the callbacks were set, and says that there is no third way.
  (The stream callback is a single slot as well: from then on the first camera is sent no
  frames either.)
* `MCCameraStream_leaked.cfg`, `TornDown`. `camera.py:363` says that the clean-up tears down
  the pipe. When ffmpeg cannot be started, the pipe stays in `_pipe_w`, and the next set-up
  overwrites it: its write end is never closed. `PipelineHeld` says that without such
  leftovers, and without set-ups and clean-ups that overlap, nothing leaks, wherever a
  set-up fails.
* `MCCameraStream_event.cfg`, `EventServed`. `stream_manager.py:3-5` says that an event
  starts the livestream. The manager hears nothing of the end of its session, so a dead
  stream counts as active and an event only extends its timer. `ActiveIsTimed` says that the
  timer ends this state.
* `MCCameraStream_stopped.cfg`, `AllStopped`. `stream_manager.py:274` says that `stop_all`
  stops all preemptive streams. Two starts that overlap make two sessions, and the table
  keeps the second: the first is found by nobody. `SessionHeld` says that this is the only
  way.
* `MCPushLife_reopened.cfg`, `NotReopened`, and `MCPushLife_started.cfg`, `NotStarted`.
  `coordinator.py:452` says that `async_shutdown` cleans up all resources. A cancellation of
  `run_forever` goes to the receive task it awaits, which catches it, so the client connects
  again; and the task that sets push up in the background is kept nowhere, so a shutdown
  cannot cancel it and the client is started afterwards. `QuietAfterUnload` says that these
  are the only ways.

Further things seen while modelling, without a run of their own: the log of
`coordinator.py:182` promises another attempt at the push set-up, and there is none; a
message whose handler raises is acknowledged all the same and does not come again;
`turn_off` awaits the stop command and then calls `disconnect()` on `_p2p_session`, which
is None if the session ended in between (`StopOwn`: the pipeline is then left to
`_on_disconnect`); `async_setup_entry` returns False when the set-up fails, so Home
Assistant does not try again by itself; the session of a second login is not saved in the
entry; the heartbeat loop of an earlier connection of the push client can outlive it.

Seen while modelling, inside the models but without a run of their own: a getter that is inside `get_session`
when `shutdown()` runs still creates and stores a session afterwards
(`ShutdownDisconnects` bounds it to those), although the module promises clean-up; the
docstring promises automatic reconnection, while `_reconnect` is never called.

## 4. Fairness

The event loop runs every ready task, and timers fire: weak fairness of the steps of
`connect()`, of the receive loop when packets are there, of the heartbeat, of a caller
that waits, and of the first waiter of a free lock. Cloud calls end (aiohttp's default
total timeout). Nothing is assumed of stations and networks, except in `ChannelLive`: the
station repeats a segment until it is acknowledged, and a packet that is sent again and
again is received in the end (strong fairness of `ReceiveSegment`). `Delivered` assumes
that the client and Google's server go on (`PushFairness`), and that a registration under
way ends, which its 60 s see to; connections break only `MaxFailures` times, that is, one
lasts in the end. That calls of the cloud end (`CallsEnd`) is stated without fairness, by a
measure that each step lowers. `P2PReassembly`, `DeviceState` and `CameraStream` have
safety properties only and no fairness. `P2PSessionPool` takes
from `P2PSession` that `connect()` returns (`ConnectReturns`).

## 5. Proofs

TLAPS proves the safety properties of the components for every value of the
constants, from the `ASSUME` of each module alone unless the table says more. Each proof
module shows that an invariant is inductive; it is an `IInv` at the end of the component's
module for the first four, and stands in the proof module for the others, which have
several. TLC was used to find out that it holds before it was proved.

| Module | Theorem | Statement: `Spec =>` | Needs also |
|---|---|---|---|
| `P2PReceiverProofs` | `TypeCorrect` | `[]TypeOK` | |
| | `InOrder` | `[]InOrderExactlyOnce` | no handler raises |
| | `AckedKept` | `[]AckedIsKept` | no handler raises |
| | `Drained` | `[]NothingStranded` | no handler raises |
| | `StoreSmall` | `[]StoreBounded` | no handler raises |
| | `AllHanded` | `[]NothingOwed` | no handler raises |
| | `Implements` | `ChannelSpec` | no handler raises |
| `P2PSessionProofs` | `TypeCorrect` | `[]TypeOK` | |
| | `EarlyEnd` | `[]SocketlessOnlyByEarlyEnd` | |
| | `AliveKept` | `AliveStationKept` | |
| | `DeadCounted` | `DeadStationCounted` | |
| | `RunsDown` | `ClosedRunsDown` | |
| | `ImplementsLife` | `LifeSpec` | |
| `P2PCommandProofs` | `TypeCorrect` | `[]TypeOK` | |
| | `AckedTaken` | `[]AckedWasTaken` | |
| | `NoEntryLeft` | `[]TablesHoldWaiting` | |
| | `OwnAnswer` | `[]OwnResultWhenAlone` | |
| | `OneTaker` | `[]AnswerGivenOnce` | |
| | `RunDown` | `CallsRunDown` | |
| `P2PSessionPoolProofs` | `TypeCorrect` | `[]TypeOK` | |
| | `LocksReleased` | `[]LockMeansMaking` | |
| | `LiveInTable` | `[]LiveIsInTable` | |
| | `ShutdownComplete` | `[]ShutdownDisconnects` | |
| | `OneSession` | `[]OneSessionUnlessEvicted` | |
| `P2PReassemblyProofs` | `Playable` | `[]FramesPlayable` | |
| | `MessagesImplement` | `MessagesInOrder` | |
| | `NothingKept` | `[]NothingHeldBack` | |
| `DeviceStateProofs` | `ClientRefined` | `CloudSpec` | |
| | `StateGarbled` | `GarbledOnlyAfterLogin` | |
| | `StateCallsEnd` | `CallsEnd` | |
| | `DetectionCorrect` | `[](StateTypeOK /\ DetectionTimed)` | |
| | `StateTypes` | `[]TypeOK` | |
| | `SettingIsShown` | `[]SettingShown` | |
| `CameraStreamProofs` | `StreamTypes` | `[]TypeOK` | |
| | `StreamTimed` | `[]ActiveIsTimed` | |
| | `StreamHeld` | `[]SessionHeld` | |
| | `StreamPinged` | `[]StreamingPinged` | |
| | `UrlIsWithdrawn` | `[]UrlWithdrawn` | |
| | `PipelineIsHeld` | `[]PipelineHeld` | |
| `PushLifeProofs` | `PushTypes` | `[]TypeOK` | |
| | `PushHandledOnce` | `[]HandledOnce` | |
| | `PushQuietAfterUnload` | `[]QuietAfterUnload` | |

**Receiver.** That no handler raises (`~DispatchMayRaise`) is needed: run
`receiver_raises` refutes `NothingStranded` without it. None of the invariants is
inductive. Whether `IsBehind` judges a packet rightly depends on how far its number can be
from the expected one, and that depends on the packets in flight, on the station's window
and on what has been acknowledged. `IInv` ties them together, per channel: the expected
number is that of the first segment not handed over, at most two windows behind the
station (`ExpectedInv`); stored segments lie within a window and under their own numbers
(`StoreInv`); everything older than a window is acknowledged, and what is acknowledged is
handed over or stored (`AckedInv`); packets in flight are at most `Lifetime` old
(`NetInv`). `Recognised` shows from these that the comparison of numbers modulo `SeqMod`
decides as a comparison of positions would; one lemma per action shows that its channel
keeps `ChannelInv`; `ChannelFrame` covers the other channels; the arithmetic of `%` is
confined to `ModCases`. The refinement is a step lemma on top: a segment handed over is
the next one (`HandOverDelivers`), so each step is a `Send`, a `Deliver` or a stutter.

Two more theorems follow from `IInv`. What is stored is stored once: within a window no two
positions have the same number (`StoreInjective`), so the store of an idle channel maps
one-to-one into the `Window - 1` positions after the missing one (`IdleBounded`), and while
a drain goes on it only shrinks (`BusyShrinks`); that is `StoreSmall`. If everything sent
is acknowledged, a first segment not handed over would be stored under the number
that is expected, which an idle channel excludes; that is `AllHanded`. `NothingOwed` is not
an invariant of a run, since it follows from two that are.

**Session.** The hard part is `AliveKept`: the count of missed PONGs of a living station
is at most 1 as long as the one cloud call may still come, grows with each heartbeat
during it, and no heartbeat follows it before the PONG that waited has been taken
(`PongInv`). `SocketInv` says that the receive loop is over when the socket is gone, which
keeps the key as it is after the close (`KeyStep`); `LookupInv` pins down what can have happened before `Connected`, which
gives `EarlyEnd` and the refinement. `RunInv` (the heartbeat runs exactly while the session is
connected) gives the two counts: a station that is gone sends no PONG but the one on its way,
and a closed session takes none at all.

**Commands.** `OneTaker` needs that a command is in one place, with the station, on the
channel or with a caller, and nowhere while no packet of it has been taken (`OnceInv`).
`OwnAnswer` needs that whatever can still be answered with an undisturbed call's type is
its own (`AloneInv`), `AckedTaken` that every ACK in flight belongs to a call
(`AcksInv`), and all of them that active calls have distinct numbers (`CallInv`, from
`NotInUse`). All ways out of a call share `ReturnPreserves`. `RunDown` is
`OwnStep`, one case per way a call goes on, and the fact that no other action touches where
a call is.

**Pool.** `OneSession` follows from `LiveIsInTable`, `LockMeansMaking` and `LockedInv`:
while a lock is held the table has no live session of that station, so a session under
way and a returned one are never both connected, and two under way would need the lock
twice. `CallbackEffect` is the fact about callbacks the three disconnecting actions use:
what they remove is the session's own entry, not live, or counted as evicted.

**Reassembly.** The gate is open exactly when something has been shown, and holds back no
keyframe (`GateInv`); the codec is the one of the first frame handled (`CodecInv`). For
frames, what is in the queues needs only types (`QueuesOK`).

The messages need to know what the segments in a queue will come to. `ParseInv` says
that they lead from what is put together and dispatched now to what the station is in the
middle of and has finished. Instead of a recursive definition, which could not be
reasoned about, `Reads` asks for a *reading* of the queue: two functions that give the
state after each number of segments, each value the result of one segment (`After`,
`Given`) applied to the value before. A segment more at the end of a queue extends
its reading (`ReadsMore`), the first one processed shortens it (`ReadsFirst`), and the reading
of an empty queue is a point (`ReadsEmpty`); these three are all that the invariant needs. A
reading also says that what is dispatched on the way is the beginning of what is dispatched
in the end (`Begins`), which makes each dispatch a step of `MessageChannel`. That the
length announced is reached exactly, although the code tests `>=`, is `SendingInv`. The
module assumes that `NoMessage` is not a message, as `None` is none in the code.

**Shown state.** The proofs about the client are about `CloudSpec` alone, and `ClientRefined`
carries them over: each step of `DeviceState` is one of the client or leaves it alone.
`StateGarbled` needs that a request that no login has overtaken belongs to the session of
the token, and that the key in use is that session's, or the default one if its login named
none (`KeyInv`); `StateCallsEnd` shows that `StepsLeft` falls, step by step.

`SettingIsShown` needs to know what each answer under way will do to what is shown
(`ShownInv`). An answer of the poll that is not outdated equals the cloud's value, and an
outdated one has left its mark in `behind` when it comes (`AnswerInv`). A command that the
cloud took over, and that neither another app nor another command has overruled, holds the
cloud's value (`TakenInv`), so two of them agree, whichever is answered last. `OwnedInv` ties the calls of the client to the poll and the command they were
made for.

**Streams.** Three layers. `ManagerInv` says that the table and the flag agree and that a
start that makes a session finds the table empty unless starts overlapped. `CameraInv`
adds the camera's tasks; `SessionsInv` is the fact that what the camera does leaves the
manager alone. `PingInv` needs that the pool has one connected session (`OneOther`) and
that a stop under way is of its camera's own session (`StopInv`): otherwise its end could
cancel another one's keepalive. `UrlInv` adds to `UrlWithdrawn` that the session of the URL has
one of the two cameras' callbacks, so that its end tells one of them. `PipeInv` follows one pipeline: unless something crossed, one
task at a time sets up or cleans up (`Alone`), and `Leftovers` says what exists at each of
its awaits.

**Push.** `AtMostOnce` needs that what a connection still carries is not in the list of ids
unless it was forgotten (`Fresh`), because the login has named the whole list; `NotLost`
that what the list names has been handed to the handler (`Recorded`). `SetupInv` orders
registration, client and unload for `QuietAfterUnload`.

The chain of contracts is proved as well: `Implements` gives `P2PCommand` and
`P2PReassembly` their FIFO channel, `MessagesImplement` gives the code above whole messages,
and `ImplementsLife` gives `P2PSessionPool` the steps of its sessions.

Every safety property of the passing runs is proved. Only model-checked is liveness
(`ChannelLive`, `DeadStationNoticed`, `ClosedBecomesQuiet`, `ConnectReturns`,
`EveryCallReturns`, `GettersReturn`, `Delivered`), because fairness is out of
TLAPS's reach. What of it can be said without fairness is proved: `CallsEnd`,
`CallsRunDown`, `DeadStationCounted` and `ClosedRunsDown` bound the steps that are left by a
number that the fair actions lower and that no other action raises, so that of
`EveryCallReturns`, `DeadStationNoticed` and `ClosedBecomesQuiet` only the fairness itself, that
these actions are taken, remains with the model checker. The violations of section 3 are counterexamples of TLC.

## 6. Not modelled

* Encoding and decoding (`lib/p2p/protocol.py`, the framing of `lib/push/mcs.py`, the
  payloads of commands), cryptography, the tables of `lib/types.py`, HTTP requests, entity
  attributes, logging: pure functions or I/O without state of their own, covered by
  `tests/` where there are tests. Where the result of one matters it is a choice: an answer
  decrypts or not, a message is one of the kinds of `Event`, a frame declares its codec.
* Entities that only display (`sensor.py`, `image.py`, `device_trigger.py`,
  `diagnostics.py`), the options flow and the reload it causes, the notification with an
  image, thumbnails, `discover_api_base`.
* RTSP, the camera's TCP server and its clients, and audio: they add I/O to the pipeline of
  `CameraStream` and no state that its properties depend on.
* Time: heartbeats and waiting times of the push client, the period of the rate limiter,
  the 60 s in which a push protects the guard mode from the poll (which has no effect, as
  the merge has none). A timer may fire at any moment in which it runs.
* Cancelling `connect()` or `get_session` from outside, which no caller in the code does;
  code that is never called (`P2PSessionPool._reconnect`); platforms that fail to unload.
* A station with several devices, or an account with several stations, beyond what they
  share: the client and the pool are modelled with several users, the pool's session with two
  cameras (`CameraStream`), whose callbacks replace each other. The pipeline of the other
  camera, the devices' entries in the manager's tables and their objects are their own.
