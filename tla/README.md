# Verification of Audio Studio

Audio Studio is a host framework (C++), the firmware of an audio controller (C)
and the tools around them (RPC server, command line, GUI backend). This
directory holds TLA+ modules that model its core, TLC configurations that check
them on small instances, and proofs that TLAPS checks for every value of the
constants. Paths below are relative to the root of the repository; short file
names refer to

| short name | file |
| --- | --- |
| `datalink_manager.cpp`, `transport_manager.cpp` | `server/framework/transport/src/` |
| `audio_service.cpp`, `log_service.cpp`, `system_info_service.cpp`, `config_service.cpp` | `server/framework/{audio,log,system_info,config}/src/` |
| `simulator_audio_device.cpp`, `simulator_log_device.cpp` | `server/platform/simulator/src/` |
| `ac_*.c` | `audio_controller/src/` |
| `audio_studio_rpc_api.cpp`, `json_rpc.cpp` | `rpc/api/`, `rpc/src/` |
| `cli_common.cpp` | `cli/common/src/` |
| `project_orchestration.cpp` | `GUI/backend/src/` |
| the design document | `docs/audio_studio_framework_design.md` |

Contents: 1 the system, 2 the plan, 3 the modules, 4 the runs, 5 the proofs,
6 what was seen on the way, 7 what is not modelled.

## 1. The system

### Components

| component | state it keeps | operations | what must hold |
| --- | --- | --- | --- |
| Data link, host and controller (`datalink_manager.cpp`, `ac_datalink.c`) | next link sequence, bytes read and not yet parsed, counters | `sendPacket`, `receivePacket` | packets come out whole and in order; success means delivery; both calls end |
| Host transport (`transport_manager.cpp`) | table of channels; per channel the flags, the queue of asynchronous requests and a worker thread; one mutex for the link (`io_mutex_`), one sequence counter | `openChannel`, `closeChannel`, `sendSync`, `sendAsync`, `drainAsync` | a channel is open once; each accepted request is called back once, in order; drain and close wait for all of them; calls return |
| Controller transport (`ac_transport.c`) | registered channels, each with unlocked flags, a bounded queue and a worker; the receiving worker | open, close, dispatch, deinit | nothing works on a closed channel; requests are handled once, in order, and answered; the tear down ends |
| Audio sessions and devices (`audio_service.cpp`, `simulator_audio_device.cpp`) | the stream id and flags of a session; the reference count of the control channel | open, prepare, start, writeFrames, readFrames, drain, stop, close | the control channel is open while somebody needs it; each running stream has its data channel |
| Controller audio (`ac_audio.c`) | 16 stream slots | OPEN, CONFIG, START, data, STOP, CLOSE | a stream belongs to one session; data of streams do not mix; what fails half way is cleared up |
| Session tables (`audio_service.cpp`) | playback and capture sessions by id, a mutex per session | create, every call, list, remove, by several threads | one session of an id, no device without an owner, no call on a closed one |
| RPC context, API, socket server (`rpc/`) | numeric ids of sessions, stream ids, a worker thread per connection | open, frames, close | a frame reaches the session its number was given for |
| Command line tools (`cli/`) | one connection, one session | as_play, as_record, as_log, as_control | a tool leaves nothing behind unless it could not help it |
| LogService, simulator log device, `ac_log.c` | sessions, the entries kept (at most 65536) with the cursor of every mirror, text not yet cut into lines | create, start, read, stop, close | mirrors read in order and nothing twice; one device has the log channel |
| SystemInfoService (`system_info_service.cpp`) and the GUI's pages | pump thread; rows by type and id, connection, last sign of life | pump, `systemInfo.*`, cost, core and health pages | the pump survives errors and ends cleanly; a row tells what was reported last; a firmware that was heard within the timeout is shown connected, a silent one without values |
| Config service (`config_service.cpp`, module plugins) | plugins and handlers loaded; the files of the last compilation | `compile` | success means fresh files; the topology is the project's; a refused project touches nothing |
| Topology of the controller (`ac_topology_parser.c`, `ac_sof_loader.c`, ...) | the parsed topology, installed pipelines, SOF pipes | load, install, remove, destroy | whatever fails, nothing leaks; what is installed is what the project said |
| GUI build (`project_orchestration.cpp`) | source and workspace file, workspace record, validation sessions | open, build, unload, save | what is shown as loaded was started for it; no session runs on under its leader that nobody holds; every scope can be built until a save; a save keeps what was built |
| GUI streams (`project_orchestration.cpp`) | per direction a connection, a session handle; queue and thread of playback | run, push, EOS, pull, stop | frames in order, no gap; EOS ok means all was played; requests return |
| as_server, drivers, control service, frontend, scripts | none that several actors change | start-up, wrappers of system calls | see section 7 |

### How they interact

Downwards by calls: tool or GUI → RPC handler → service → session → device →
`TransportManager` → `DataLinkManager` → link device. One thread at a time is in
a round trip on the link, because `sendSync` holds `io_mutex_` from its
`sendPacket` to its `receivePacket`. On the controller the receiving worker
takes packets from the data link and puts each request into the queue of its
channel; the worker of the channel calls the handler and sends the response. The
handler of the control channel opens and closes the channels of the streams,
that is, it starts and joins the workers of other channels. Upwards only by
return values and by the callbacks of `sendAsync`.

Beside this the way of a project: the GUI writes its layout into the project
file and calls the config service, which writes a topology file; a validation
session loads that file into a controller, which installs its pipelines in SOF.
The config service and the topology loader meet in nothing but the file.

### What is hard

* **Faults of the link**: frames are lost, damaged and late, on both ways; the
  two ends retry and give up on their own clocks.
* **Threads**: RPC workers, sessions and the log pump share tables, channels and
  the link; nearly everything happens between two locks of different mutexes.
* **Unlocked state of the controller**: `open`, `thread_started` and, on a
  reopened channel, the queue itself are changed by two threads at once.
* **Two views of one stream**: host and controller each keep their own state of a
  stream, and any step between them may fail or time out. A request whose
  round trip timed out is still served, and its late response is the next
  frame the host reads.
* **Several steps, one of which fails**: a CONFIG that has freed a buffer, an
  allocation in the middle of a widget, a control after three installed
  pipelines, the fifth of six files, a second error in a clean-up.
* **Processes that come and go**: the server that a build replaces under a
  running stream, the sessions that a restarted backend has forgotten.

Each of these is listed, at its line, under `hazards` in `PROJECT.json`, with the
properties that would show it going wrong.

## 2. The plan

The order follows the importance for everything above: the link, the transports on
it, the streams and logs on these, then what clients see, then the way of a
project into the controller.

| step | modules | abstract specification, composition | state |
| --- | --- | --- | --- |
| 1 | `DataLink`, `PacketService` | `DataLink` implements `PacketService` | checked, safety and refinement proved |
| 2 | `TransportManager`, `CallbackService` | `TransportManager` implements `CallbackService` | checked, safety and refinement proved for one owner |
| 3 | `ControllerTransport` | receiving worker, channel workers, control handler, tear down | checked, safety proved |
| 4 | `AudioStreams` | host sessions, channels, slots and workers in one module | checked, safety proved |
| 5 | `LogService` | sessions, mirrors, entries, log device and pump in one module | checked, safety proved |
| 6 | `RpcSessions` | tools, server workers, tables and numbers in one module | checked, safety proved |
| 7 | `GuiStreams`, `GuiProject` | the GUI backend | checked, safety proved |
| 8 | `ConfigIr`, `ConfigService`, `ConfigProjects` | compiler as operators, compilation as steps | checked, safety proved |
| 9 | `AcTopology` | the loader, fed by `ConfigIr` | checked, safety proved but for what is installed |
| 10 | `SystemInfo` | records, rows, pages | checked, safety proved |
| 11 | `LinkBothWays` | two senders and two receivers on one link | not begun |

Next in line for proof: that what a loaded topology installs is the project
(`ProjectInstalled`). What the file of a project holds is known by now; what is
left is what the parser and the loader look up in it.

## 3. The modules

In all modules an action is what one thread does under one lock, or between two
accesses to state that others see. Comments "Faulty variant" mark definitions
that no specification uses: each is a plausible mistake in the code, and the
property it belongs to must fail when it takes the place of the right one
(`mutants` in `PROJECT.json`). History variables are marked as
such. A module `MCx` holds the instance of `x` that its runs use.

### DataLink and PacketService

One direction of the link. `sendPacket` / `ac_datalink_send_packet` cut a packet into
fragments and repeat each until its ACK arrives or `max_retries` is used up
(`WriteFragment`, `ReadMatchingAck`, `ReadOtherFrame`, `AckTimeout`,
`AttemptFails`); `receivePacket` / `ac_datalink_receive_packet` acknowledge and
assemble (`ReceiveFirst`, `ReceiveNext`, `RejectFirst`, `RejectNext`,
`FragmentTimeout`).

| state | code |
| --- | --- |
| `data`, `acks` | bytes on the link in each direction, with the reader's buffer, as frames |
| `sender` | the packet, the fragment, the attempt and the place in `sendPacket`'s loops |
| `outcome` | what `sendPacket` returned |
| `receiver` | the locals of `receivePacket`: packet buffer, next fragment expected |
| `delivered` | what `receivePacket` returned |

A frame carries packet number (`link_sequence`) and fragment index; offsets follow
from the index. `damage` is what the link did to it: a bad checksum ("crc"), or a
broken header ("head"), which neither reader gets past. The two implementations
run the same protocol; they differ in that the host's reader reports a bad
checksum and the controller's skips the frame, which the constants
`SenderResyncs` and `ReceiverResyncs` choose (the run has the host send; the
proofs hold for either). `PromptLink` leaves out timeouts
that are too early, to tell the faults of the link from those of the clock.

`PacketService` is what the transports rely on: packets come out whole and in
order, possibly after their submission was reported as failed, those of one
fragment possibly more than once; a packet reported as sent has come out.
`IsPacketService` says that `DataLink` implements it.

### TransportManager and CallbackService

One channel of the host's `TransportManager`. The threads are owners (which open and
close), senders (which call `sendSync`, `sendAsync`, `drainAsync`) and the
worker of every incarnation of the channel. `channel` is the entry of
`channels_`, `runtime` the `ChannelRuntime` objects, `thread` the place and the
locals of each thread, `io` the holder of `io_mutex_`. Every look-up
(`requireChannel`) and every use of what it returned are separate steps, since
`channels_mutex_` is released in between; `recordTx` and `recordRx` look the
channel up again. The controller answers in the order of the requests, as late
as it likes.

`CallbackService` promises that an accepted request is called back once, in the
order of acceptance, also when the channel closes.

### ControllerTransport

`ac_transport.c` with the handler of the control channel that opens and closes the
others. The flags of a channel are read and written in separate steps, without
a lock, as in the code. The queue's `count` is read and written back in two
steps unless the channel's mutex exists: `ac_transport_close_channel` destroys
it and only `ac_transport_register_channel` creates it. The host sends START,
data and STOP requests in one of several `Manners`: it waits for each answer as
long as it takes, or gives up and goes on; it starts a stream once or again. The
link is a reliable queue (its faults are `DataLink`'s subject). The tear down may
begin at any moment.

### AudioStreams

Sessions on the host, slots on the controller, and all that lies between them. A call
that needs the controller puts the session's `at` to the name of the request;
`Send` takes the link and sends; the actions of `RoundTrip` are what the host
does with the response or the timeout. `fresh` marks the messages of the round
trip under way, so that a late response is told from the right one, as
`sendSync`'s check of channel and sequence does. On the controller `RxTake` and
`RxQueue` are the two halves of the receiving worker's dispatch, between which
the control worker may close the channel; `StopOrClose` begins the close of a
data channel and `FinishClose` ends it once its worker has served its queue.

The queue of a data channel is the ring of the code (`ring`): the places, which are
never cleared, so that the request of an earlier session stays in its place;
`head`, `tail` and `count`, which the close sets to zero; and the mutex, which is
made once and which the first close destroys. Storing a request (`RxQueue`) and
taking one (`BeginData`) move `tail` and `head` and read `count`; writing it back is
a step of its own (`RxCount`, `CountData`), and only with the mutex does the other
thread wait between the two. `raced` is history: the count was changed by both at
once, or by one after the close that cleared it. A request that found its channel
open and whose worker has ended meanwhile is served by the receiving worker itself
(`RxServe`).
`Settings` are the combinations of sessions, slots and kind of link that a run
looks at; a behaviour keeps the one it begins with.

Abstracted: payloads and sizes, the SOF calls (their outcomes are free when
`Failures` is TRUE), the opening of a channel at START (one step; its races are
`ControllerTransport`'s subject), the loops that hand a transfer to SOF in parts.

### LogService

Three layers in one module: the sessions of `LogService`, the `SimulatorLogDevice` of
each session that reads the controller itself, and the pump thread. `session`
is `sessions_`, `device` the members `manager_`, `transport_ready_` and
`running_` of the devices, `channel` the channel that `TransportManager` lets one
of them open, `store` is `entries_` and `pump.at` the place of the thread in
`logPumpLoop`. Each call of the service is one action, because it holds
`mutex_`; only `readEntries` is several: `BeginRead`, then `ReadText`, `ReadNothing`,
`ReadLost`, `ReadError`, `ParseLine` and `ParseDone` of a session with a device, or
`MirrorEntry` and `MirrorDone` of a mirror, which looks at the stored entries one
by one; and `Unlocked` keeps the other calls out
meanwhile. The pump's own calls (`PumpCreate`, `PumpStart`, ...) and a client's
(`Create`, `Start`, ...) share the operators of the service.

A line of text is two parts, the second with the newline, so that a chunk or an
error can cut it. An error makes one entry of all the pending text
(`ReadError`), whatever lines it has; the level of an entry is that of its front,
and a record anywhere in it hides all of it, as `consumeLogEntry` does. A session
becomes a mirror when it is created while the pump's session runs, and stays one.
`returned` is history: the sequence ids a session has read.

### RpcSessions

The server as its tools see it. Each client runs one tool after another (`tool`), and
each request of it is a `job` of the worker thread that serves its connection,
with one step for what the worker does between two releases of a mutex:
`createPlaybackSession` looks (`Look`), opens the device outside the lock, and
looks again before it inserts (`Insert`); `remove` takes the entry out and
closes the session later; a call finds its session, and locks it in another
step (`FindSession`). `table`, `sessions` and `logs` are the tables of the services; `counter`,
`sessionIds`, `numericSessions` and `streamIds` those of `RpcRuntimeContext`.
What a tool does after an error, and what it does not, is `AfterFailure`.

### GuiStreams

`GuiRuntimeEngine` with its `PlaybackWorker` and `CaptureWorker`. A request of the
HTTP server is a list of jobs (`req.todo`) done one after another; between them
the playback thread takes, writes and finishes frames. A call to the server
(`Called`) is done and answered, refused, or fails, done or not, without an
answer. `Replace` is the server process being replaced by a build or an unload.
An EOS that runs out of time destroys the session's handle under the thread: what
the thread then does with freed memory is any of its outcomes.

### GuiProject

`BuildOrchestrator` and `ProcessValidationRunner` for one workspace. Documents are
records of instances, pipelines, presets and the stored layout; `Merged` is the
one `regenerateProjectFromSnapshot` makes of a `Baseline` and a snapshot. A build is a request of several steps (`pc`):
stop the old session, regenerate, write, compile, start the new session, wait for
its marker. A session (`procs`) is a process group: the shell that leads it
(`lead`) and what the script runs in it, the simulator and `as_server` (`live`
while any process is left). It writes the marker and ends on its own, all of it or
the leader alone (`Ends`). `StopGroup` is `stopProcessGroup`: the group gets the
signals, but only its leader is waited for, so that the rest may go on. A build
that finds the leader gone (`PollEnded`) reaps it and does no more.
`Restart` forgets all of the backend but the files and the processes. Writes
fail in three ways: refused, broken off, or reported as done and lost in the
flush; the last two leave the file `Torn`, which stands for every content that
cannot be read.

### ConfigIr, ConfigService, ConfigProjects

`ConfigIr` is the compiler as operators: ports, nodes, edges and parameters of the
project as JSON gives them, the checks that refuse it, the runtime controls and
install parameters, widgets, inferred buffers, the graph (that of the DAI ends
apart), back-end links and PCM capabilities. A joined name is the tuple of its
parts (so that an id with a dot in it, or a node called `BUF0`, meets no other name
here); a uid is the identity it hashes, and `Colliding` says which identities
collide. The lists are put together with `FlattenSeq`, a part for each pipeline, node,
edge or parameter, so that the proofs can say what is in them. `ConfigService` is `compile` as steps: plugins (which stay for the next
compilation, also when they registered half of their handlers), checks, each of
the files, `alsatplg`, the decoder, the report. Its files survive from one
compilation to the next. `ConfigProjects` has the projects the runs use, which
shape follows the repository's presets and tests. All that is assumed of a project
(`ProjectsAreSequences`) is that a JSON document ends: its lists are sequences.

### AcTopology

`audio_controller_create` to `audio_controller_destroy`: the parser's lists, the
arena of widgets, routes, PCMs and payloads with their growth (`FirstRoom`), and
installing in SOF. Every allocation and every SOF call may fail; the number of the
allocation that fails is chosen at the start of each call. What fits is loaded,
what fails is undone in the order of the code (`InstallEach`, `InstallAll`). The
heap is kept block by block: `Alloc` takes the next free block for a purpose,
`FreeAll` gives blocks back and notes in `broken` when one is given back twice or
was never in use, and a controller exists while its own block is in use
(`Created`). Each loop of the code is a recursive function from the rounds done
to the state after them (`ParseItems`, `ParseBlocks`, `InstallUpTo`), so that the
proof can follow it round by round. The definitions of the specification are named
`TopologyInit`, `TopologyNext` and `TopologySpec`. A caller asks for the pipelines
`Wanted`, by an id, a name or neither. Its files (`Files`) are what `ConfigIr` makes of a project, so that compiler and loader meet
here as they do in the system, and hand-made ones (`OtherFiles`) the compiler would
not write; all that is assumed of them (`FilesAreSequences`) is that a file ends.
A buffer is no component: `OtherEnds` looks through it on both sides.

### SystemInfo

Records of the firmware as what the code gets from them (a table, an id, fields that
can be read), the rows of the tables, the time since the last sign of life, and
the frames of the pages. A value is the number of the record it came in, so that a
property can say which record a row shows. Looking (`Snapshot`) is what makes the
service forget a silent firmware, as in `snapshot()`. The history `since` counts the
time since the last record, and since the last heartbeat, apart from the service's
own clock, so that an answer can be judged by when the firmware was heard.

## 4. The runs

`PROJECT.json` lists each run with its properties. The runs with `expect` "pass"
explore the whole state space of their instance; in the one with "violation" TLC
finds what the finding of the same run describes.

| run | instance | properties |
| --- | --- | --- |
| `DataLinkToController` | packets of 2 and 1 fragments, 2 retries, 2 faults of any kind, early timeouts | `DeliveredWhole`, `SuccessMeansDelivered`, `FragmentedAtMostOnce`: no mixture, no false success, no packet of several fragments twice; `IsPacketService`; `NeitherEndHangs` |
| `TransportOneOwner` | 1 owner, 2 senders, 2 incarnations, 4 calls, a link that fails, late answers | `OneIncarnation`: nothing but the incarnation the id leads to is alive; `DrainComplete`: drain and close go on when every callback has run; `IsCallbackService`; `EverythingEnds`: calls return, accepted requests are called back |
| `ControllerWaits` | 1 data channel, queue of 2; a host that waits and restarts (5 requests), one that gives up (4) | `QueueInOrder`: requests neither lost, repeated nor reordered; `NothingWorksOn`: no worker and no request on a closed channel, nothing after the tear down; `DeinitReturns`; `EveryRequestAnswered` |
| `ControllerNoMutex` | a host that gives up and restarts, queue of 4 | `HandledInOrder` is violated: the reopened channel has no mutex, and two threads change its count at once |
| `AudioSessions` | 3 sessions on 2 slots, faultless link; 2 sessions on 1 slot, lost and late messages; failing controller, no bound on calls | `HostChannels`: the reference count and the channels are exact; `RunningHasDma`: no stream runs without its buffer; `SidesAgree`: between calls the two sides agree, whatever failed; `StreamsIsolated`: no late request or response gives a session the stream of another one, and the requests handled are of the slot's owner as long as no count is wrong |
| `LogPump` | the pump and 1 client, 3 lines (one a record, one of a lower level), a store of 2, 1 failing round trip | `ChannelHeld`: one device has the channel; `TextInOrder`: no text in two places, every session reads in order; `StopLeavesNothing`; `PumpLives`: the pump gets its session back, and its end closes it |
| `Rpc` | 2 clients, 3 tools, 2 devices, 6 numbers, 1 failing call, 1 id given by the user | `TablesHold`: one session of an id, every open device owned; `ClosedIsQuiet`: no call works on a closed device; `FramesStayInId`; `ToolLeavesNothing` |
| `GuiStreams` | queue of 2, 3 frames, 4 requests, 2 faults, the server replaced once | `PlayedInOrder`: no gap; `HandlesMatchSessions`: the thread writes only through a handle its worker holds, nothing is left on the server unless a call failed; `EosOkMeansPlayed`; `RequestsReturn` |
| `GuiProject` | 4 snapshots (playback, capture, both, one refused), 3 builds, 2 sessions started, 1 restart; sessions that lose their leader or all their processes at any time | `LoadedIsCurrent`: what is shown as loaded is what the recorded session was started for, and the marker was written since; `NoSessionLeaks`: a session nobody holds has lost its leader, and what outlives it was signalled or left by a build that saw the leader end; `ScopesStayBuildable`: no file refers to what it does not hold, and any scope can be built until a save (preset values apart, section 6); `SavesLatestBuild` |
| `Config` | 9 projects (4 must be refused; that with an edge to a missing node is accepted), 2 compilations, 4 plugins | `SuccessIsFresh`: ok means every file is of this project; `ProjectInTopology`: the graph has exactly the project's edges, each through a buffer of its own (`EdgesRouted`), every parameter is in the private section once (`ParamsDescribed`), and the one control of a SOF module holds the defaults of all the parameters its handler packs (`DefaultsCarried`; the `layout` of `filter.channel_remap` is none of these); `RefusedTouchesNothing` |
| `Topology` | 5 compiled projects, 7 hand-made files, each of the first 6 allocations, two later ones and any SOF call failing | `NothingLeaks`: every block has one owner and SOF keeps no pipe nobody holds; `ProjectInstalled`: what SOF connects is the project |
| `SystemInfo` | 2 ids, 2 fields, a merged and a replaced table, 3 records between clearings, timeout of 1 tick | `RowsTellRecords`: each value is the newest a record may speak for; `SilentShowsNothing`: an answer shows the firmware connected exactly when it was heard within the timeout, and what is shown disconnected has no value |

Three more configurations, beside the runs, each check one formula that the code does
not keep, and TLC finds a counterexample: they show what section 6 says of these
places, and why the properties above are stated as they are.

| configuration | module and instance | formula |
| --- | --- | --- |
| `AudioNoMutex.cfg` | `MCAudioStreams`, the 2 sessions on 1 slot with late messages, nothing fails, queue of 3 | `DataUnmixed`, the promise of :1949: on the reopened channel the count is left too high, and the worker handles a request of the first session, still in its place, for the second |
| `GuiGroups.cfg` | `MCGuiProject`, as `GuiProject` | `FailureStopsGroup`, the rule of `docs/backend_development.md:48`: a build whose session loses its leader too early sends nothing to the rest of the group |
| `SystemInfoHeartbeat.cfg` | `MCSystemInfo`, as `SystemInfo` | `HeartbeatsConnect`, the rule of :4990: records other than heartbeats keep the firmware connected |

**Bounds.** Two fragments are the least that distinguish first, next and last; two
packets the least in which something of an earlier packet meets a later one;
two retries allow a late acknowledgement of each of two earlier attempts; two
faults allow a fault in each direction, or two at one fragment. Two
incarnations and two senders let a thread go on with a runtime that has been
closed and replaced; four calls are an open, a close, an open and a send that
meets them.
Queues of two and four to five requests fill a queue and overflow it. Three
sessions on two slots contend for slots, and two on one slot follow each other
on it, which is what a late message needs. `MaxOnTheWay` bounds what is on the
way when another timeout happens; one such message is enough for each of the
faulty variants. `AudioSessions` has no bound on the number of calls. With
`DataAfterRace` FALSE no transfer begins while a count is wrong: from there on a
ring may hold anything, and `DataIsolated` claims nothing of what is served out of
it (the proofs do without this bound). `AudioNoMutex.cfg` needs a queue of three, in
which the old request has a place that the ones after it do not overwrite.
In `LogPump` the client may mirror the pump or compete with it, one after the other
and without end; three lines are one more than the store holds, and the
failing round trip may be any of LOG_OPEN and LOG_READ.
In `Rpc` two clients race for one id, and two devices are one that loses the race and
one that wins; three tools let a number outlive its session and meet the next.
In `GuiStreams` three frames and a queue of two fill it; four requests are a run, an
EOS or stop, a run and another; a fault may leave a session behind that a second
fault, or the replaced server, meets. Three builds are one of each scope and
again the first, and one restart is enough for a forgotten session to write the
marker of a new one. In `Topology` the first six allocations cover every kind of
list and the last ones a payload and a pipeline; `FirstRoom` of two makes lists
grow, two route ids and two installed pipelines reach the loader's own limits,
and `MaxLost` stops counting tokens the code loses (see `PROJECT.json`, hazards).
Three records are two about one row and one about another, in any order.

**Deadlock** is checked in the runs of `AudioStreams`, `LogService`, `Config`,
`Topology`, `GuiProject` and `SystemInfo`, which can always go on. In the others the
number of packets, calls or requests is bounded and the system comes to rest, so
it is not; there, except in `Rpc`, liveness properties say that nothing is left
waiting.

**Fairness.** The steps of each thread that has begun a call or has work are
weakly fair: the threads are scheduled by the operating system, every wait of
the data link ends at its deadline, and the handlers return. This is
`FairSpec` of `DataLink`, of `TransportManager` (each caller, each worker) and
of `ControllerTransport` (receiving worker, channel workers, control worker, tear
down), and `Spec` of `GuiStreams` (the request in hand, the playback thread). No
fairness is assumed of a caller's decision to call, of the faults, or, in
`TransportManager`, of the controller's answers. In `LogService` the read of a
pump or client is weakly fair and the pump strongly: it waits for `mutex_`,
which clients hold for one call at a time and leave for a whole RPC exchange in
between, so that it gets the mutex in the end.

### What the constants leave out

Some properties need a constant that the code does not guarantee.

* `OneIncarnation` holds with one owner. Of two threads in `closeChannel` the
  second erases whatever its id leads to when it ends, which may be a channel
  opened meanwhile (`transport_manager.cpp:134`): the guarantee of the design
  document, :1941, rests on callers that do not overlap their closes. The
  sessions of the repository close a channel from one thread at a time.
* `NothingWorksOn` and `EveryRequestAnswered` speak of a host that waits for its
  answers. When one gives up on a STOP and writes on, the receiving worker may have looked
  at the channel before it closes and queue the write afterwards
  (`ac_transport.c:287`), and a full queue drops a request without an answer. `AudioSessions`
  shows that such a request does not reach another session's stream as long as the
  count of the ring is right, and `AudioNoMutex.cfg` that it does when it is not. So
  `StreamsIsolated` speaks of a worker whose ring has not `raced`; on a link without
  faults no ring ever does, which is a part of it.
* `ChannelHeld` and `PumpLives` are checked with `SecondStarts` FALSE: the clients
  of the repository start a session once. A second start makes the device forget
  the way to its channel (`simulator_log_device.cpp:81`), and no session opens it
  again, where the design document, :4990, has the log session go on.
* `LoadedIsCurrent` excepts processes left behind that write the ready marker in
  place of the new session: those of a backend that was restarted, and those that
  outlived the leader of their group.
* The sides of a `GuiStreams` handle may differ after a call that failed: the code
  then skips close, which is why `HandlesMatchSessions` speaks of such calls.

## 5. The proofs

The theorems hold for every value of the constants that the named assumptions
allow. Each proof module has one lemma for each action, one step in it for each
conjunct the action disturbs, over lemmas about the operators.

### DataLinkProofs

For every number of packets, fragments, retries and faults, for either reader at
either end, and with or without early timeouts:

| theorem | statement |
| --- | --- |
| `Invariance` | `Spec => []IInv` |
| `TypeCorrect` | `Spec => []TypeOK` |
| `WholePackets` | `Spec => []DeliveredWhole` |
| `SentPacketsArrive` | `Spec => []SuccessMeansDelivered` |
| `FragmentedPacketsOnce` | `Spec => []FragmentedAtMostOnce` |
| `LinkKeepsService` | `Spec => IsPacketService` |

None of the three properties is inductive: what may come out next
depends on the frames on the way, and whether an ACK proves anything depends on
what was delivered. `IInv` puts everything on one line, the positions
(packet, fragment) in the order in which `sendPacket` visits them. `FrameInv`:
frames on the way are in that order and none is ahead of the sender.
`ReceiverInv`: a packet being assembled holds exactly its fragments before
the expected one, and nothing older than the newest of them is on the way.
`DeliveredInv`: delivered packets are whole and in order, nothing on the way is
older than their last fragment, and only a packet of one fragment is there
twice. `AckInv`: an ACK of a last fragment proves delivery. `SenderInv` joins
them to `outcome`. Order is what keeps late frames harmless: a repeated fragment
can only be met by a receiver that is past it.

`LinkKeepsService` is the refinement, step by step: the start of a `sendPacket` is a
`Submit`, the last fragment of a packet its `ComeOut` (which `IInv` before and after
the step says), the end of a call `Succeed` or `Fail`, and every other step leaves
what `PacketService` sees as it is.

### TransportManagerProofs

For any senders, runtimes and calls, and one owner (`Owners = {o}`):

| theorem | statement |
| --- | --- |
| `ChannelOpenOnce` | `Spec => []OneIncarnation` |
| `DrainsAreComplete` | `Spec => DrainComplete` |
| `CallbacksKeepOrder` | `Spec => IsCallbackService` |

`OneIncarnation` needs to know who may still turn something off: `WorkersInv` ties
the place of every worker to the flags and the queue of its runtime, `OwnerInv`
says what the owner has done so far at each place of `openChannel` and
`closeChannel`, and that only what it is closing is half alive. `DrainInv` counts
for `DrainComplete`: what was accepted has been called back, is queued, or is in
the hands of the worker, whose mark `drainAsync` waits for. For the refinement,
`HandsInv` adds that a worker at a callback has a request: what `CallbackService`
holds as pending is the request in the worker's hands and the queue behind it, so
`WorkerTake` leaves it as it is, `WorkerCallback` takes its first and `sendAsync`
adds at its end. It is one queue only because there is one incarnation.

### ControllerTransportProofs

For any data channels, depth of the queues and number of requests; a thread of
the controller and the mark of a mutex that nobody holds are no channels:

| theorem | statement |
| --- | --- |
| `TypeCorrect` | `Spec => []TypeOK` |
| `QueueAlwaysExact` | `Spec => []QueueExact` |
| `QueueAlwaysInOrder` | `Spec => []QueueInOrder`, if every manner waits or does not restart |
| `NothingEverWorksOn` | `Spec => []NothingWorksOn` |

The manner that `QueueAlwaysInOrder` leaves out, a host that gives up and restarts, is
the one for which `ControllerNoMutex` finds the order violated. The count of a
queue that has its mutex is exact for that host too.

None of this is inductive, because the flags of a channel are read and written
without a lock. `Inv` has these parts:

* `WorkersInv`: a worker lives while its channel is started, but for the moments
  of being created and of having been joined; who joins, unstarts or empties a
  channel has found its worker gone. `ControlInv` says what the control worker has done
  of its command at each place, `MainInv` which channels the tear down has passed,
  and that what it passed stays dead: the control channel, which alone starts
  others, goes first, after the receiving worker.
* `LocksInv`: with a mutex, the one that is counting a request in or out is its
  holder. So the receiving worker and the worker of the channel are not both
  between reading and writing `count`.
* `FifoInv`: with a mutex, or a host that waits, the requests held are those
  between head and tail of the ring, in the order of their numbers, older than
  the one the receiving worker has in hand and newer than all that were
  handled. `Held` is the count as it will be when the thread in between has written it.
* `OneInv`, for a host that waits: one request at most is anywhere, under way, queued or
  at a worker. That is what makes a channel without a mutex safe for it.
* `OnceInv`, for a host that starts a stream once: a data channel is registered by
  its only START, and when its mutex goes its worker has gone and none comes back.
  `StreamsInv` ties data to a START that was answered.
* `NumbersInv`: what the receiving worker has just received is nowhere else yet.

### LogServiceProofs

For any clients, any text, any sizes of chunks, reads and store, and any number of
failing round trips; all but `TextKeepsOrder` if no client starts a session that
runs (`~SecondStarts`):

| theorem | statement |
| --- | --- |
| `LogInvariance` | `Spec => []IInv` |
| `OneDeviceHasChannel` | `Spec => []ChannelHeld` |
| `PumpLeavesNothing` | `Spec => []StopLeavesNothing` |
| `TextKeepsOrder` | `Spec => []TextInOrder` |
| `StoreKeepsLimit` | the store stays within `MaxStored` and every cursor within the store |

`ChannelHeld` is not inductive because the device alone does not
say who will give the channel back. `HolderInv` adds that the device with the
manager runs and belongs to a session that exists, runs and is no mirror:
then `stop` and `closeSession` reach it, and a session that is started or created
cannot be the holder. `PumpInv` ties the place of the pump thread to the
existence of its session. One lemma for each call of the service and each step
of a read serves the pump and the clients alike.

`TextInv` carries `TextKeepsOrder`. `PartsOK`: no part of the text is at two places,
of one entry, of two, of two sessions' pending text or of both, and each was
heard before; so a new chunk, whose parts are heard later than all of these, can
meet none of them. `NumbersOK`: the sequence numbers grow in the store and in
what each session was given, and all of them lie below the next number; what a
mirror was given stands before its cursor. That an overflow drops the first
entry and moves every cursor back is what makes this more than a counter
(`TailText`), and that a session is never both a mirror and in the midst of
reading its device is `ReaderInv`.

### RpcSessionsProofs

For any clients, ids, tools, devices, numbers and failures:

| theorem | statement |
| --- | --- |
| `Correct` | `Spec => []` the inductive invariant |
| `TablesAlwaysHold` | `Spec => []TablesHold` |
| `ClosedStaysQuiet` | `Spec => []ClosedIsQuiet` |
| `FramesReachTheirId` | `Spec => []FramesStayInId` |
| `ToolsLeaveNothing` | `Spec => []ToolLeavesNothing` |

`ClientsInv` says what the request of a client can be at each place of its handler
and which session and number it has found there. `AudioInv`: an entry of a table
is a session of that kind and id, an open device is in the table or in the hands
of exactly one worker, and a closed session does not run. `NumbersInv`: a number
is given once, so that what `numeric_sessions_` says of it never changes until it
is released, and nobody who holds an old number can meet a new session with it.

`ToolsLeaveNothing` asks what a tool's own session has become when others may have
closed it and opened another of the same id. `OwnInv` follows it: the session a
tool has created has the tool's id, it is out of the table from the `Remove` of
its close on, and nobody inserts it again, because a session that waits to be
inserted (`Insert`) is no tool's yet. `CallInv` says that a tool which cleans up
only stops and closes, `LogsInv` that a log session belongs to a tool of that id
that has not ended, or ended by a second error.

### GuiProofs

The module extends both parts of the backend, which is why the definitions of a build
are named `ProjectInit`, `ProjectNext` and `ProjectSpec`. For any queue, bounds, snapshots, projects and faults, under the assumptions named
in the table:

| theorem | statement |
| --- | --- |
| `FramesInOrder` | `Spec => []PlayedInOrder` |
| `HandlesAlwaysMatch` | `Spec => []HandlesMatchSessions` |
| `EosOkAlwaysPlayed` | `Spec => EosOkMeansPlayed` |
| `SessionsNeverLeak` | `ProjectSpec => []NoSessionLeaks` |
| `SavedIsBuilt` | `ProjectSpec => SavesLatestBuild` |
| `LoadedAlwaysCurrent` | `ProjectSpec => []LoadedIsCurrent`, if the marks `Torn` and `NoFile` are no documents |
| `ScopesAlwaysBuildable` | `ProjectSpec => []ScopesStayBuildable`, if `OriginsInSource` |

Of the audio streams, `Numbered` lines up what the server received, the frame in
hand and the queue as the numbers from 1 to `accepted`, as long as no write failed;
`Orderly` and `FlagsTell` say what of this a request has done at each place, and
`SessionClosed` that a handle that is gone left its session closed. Of
a build, `LeakInv` ties the session recorded and the session being forked to the
place of the build, and says of every other session that it was given away
(`GivenAway`: the leader is gone, and a rest that lives was signalled or reaped).
No step undoes that, since a session only ages (`Ages`: a process that is gone
stays gone, and what was given up stays given up). `SaveInv` ties the workspace
file to the latest build at each place of a build.

`LoadedIsCurrent` speaks of the end of a build, `PathInv` of the way there: the
document generated has a pipeline, the session forked was started for it and for
one of its pipelines, it is the newest one (`Newest`), and a marker that is there was
written since it was forked, by itself, by an orphan or by processes without a
leader (`FoundReady`). `ShownInv` adds that something is shown as
loaded only while no build writes the workspace file.

`ScopesAlwaysBuildable` rests on what `Merged` makes of its baseline. `DocInv`: every
document anywhere (both files, the one being generated) refers to nothing it does
not hold; each part of `Merged` (pipelines generated and kept, presets pruned, the
layout) has a lemma, such as `PipelineRefers`, that it refers only to what is there.
`ScopeInv`: until a save the source file is the one given, so that what a snapshot
is judged by does not depend on the scopes built before. Two assumptions of
`GuiProject`, which TLC evaluates, say what the code's callers give: the groups of a
snapshot are a sequence (`GroupsInOrder`), and the project opened is consistent
(`SourceConsistent`). `OriginsInSource` is the theorem's own: a group that lists no
nodes and has a single origin takes it from a pipeline of the source file. Without
it an origin that only the workspace holds could give the group the nodes of
another one, and whether they are there depends on the scope built before. The instance of the run satisfies it.

### ServiceProofs

The module extends both services and the topology, which is why the definitions of a
compilation are named `ConfigInit`, `ConfigNext` and `ConfigSpec`, and those of the
topology likewise. For any timeout, tables, rows, pages and records, for any projects
(`ProjectsAreSequences`), plugins and requests, and for any files
(`FilesAreSequences`), failing allocations and SOF calls:

| theorem | statement |
| --- | --- |
| `SilenceIsShown` | `Spec => []SilentShowsNothing` |
| `RowsAlwaysTell` | `Spec => []RowsTellRecords` |
| `SuccessAlwaysFresh` | `ConfigSpec => []SuccessIsFresh` |
| `RefusalsTouchNothing` | `ConfigSpec => RefusedTouchesNothing` |
| `EdgesAlwaysRouted` | `ConfigSpec => []EdgesRouted` |
| `ParamsAlwaysDescribed` | `ConfigSpec => []ParamsDescribed` |
| `DefaultsAlwaysCarried` | `ConfigSpec => []DefaultsCarried` |
| `ProjectAlwaysInTopology` | `ConfigSpec => []ProjectInTopology` |
| `NothingEverLeaks` | `TopologySpec => []NothingLeaks` |

For the second, `Tells` relates the rows of a table to the records received since
the last clearing: a row for each key some record was about, in the order of the
oldest of these, with the newest value a record may speak for in each field;
`Bounded` adds that each key has an oldest and a newest record. One lemma each says
what a record adds to the records about a key, and that a row replaced or
appended by `Upsert` tells the same as before plus the new record.

For the third, `CompileInv` follows a compilation from place to place: `Written` says
that the outputs up to the one being written are this compilation's, `Flagged`
that its flags tell what alsatplg and the decoder have left there. For
`RefusalsTouchNothing`, `Accepted` keeps what `Parse` and `Generate` have found of the
project: no plugin is loaded after them, so it is true wherever a file is written,
and a refused request is at none of those places.

The four theorems about what is written rest on both. A text just written is the one
made of the project and the handlers of this compilation, which passed every check
(`NewConfIs`). What is left is a statement about the compiler's operators:

* The lists. `UpTo` (what holds before the first round of a loop and is kept by
  every round holds after the last; there would be a first round that fails it)
  unfolds each of them into a set: the widgets, the lines of the two graphs, the
  controls and the install parameters are those of the pipelines, nodes, edges
  and parameters, whatever their order (`RowMade`, `Flattened`, `Chosen`; `IsGraph`,
  `PrivateIs`).
* The edges. An edge gives one line to a buffer and one from it, in one graph or the
  other as its ends are DAIs or not. That these two are the buffer's only lines, and
  that no third widget has its name, is a matter of which joined names can meet:
  `NamesMeet` says which, once `PipesApart` holds: the ids of the pipelines differ,
  and no end of an edge is called `SCHED`.
* The parameters. `NodesApart`, the ids of the pipelines, of the nodes of a pipeline
  and of the parameters of a type differ, gives every parameter a place of its own
  (`PlacesApart`), so each is in the one table that its own node puts it into.
* The defaults. In the row of a node exactly one control is shown, that of the first
  parameter (`OnceFlattened`), and what the handler packs into it has a field for
  each parameter of the type (`AggregateIs`, `FormatIs`), all of which `DefaultsPack`
  has found to be packable.

`PipesApart` and `NodesApart` are hypotheses of the properties, not assumptions on the
constants: the code accepts projects that fail them (section 6), and the
statements fail for some of those. Every project that the run compiles satisfies
both.

For `NothingEverLeaks`, that every block in use has an owner is not enough: were one
block in two lists, or in a list and a widget, all would be owned until the next
`ac_topology_clear` freed it twice. `TopologyInvariant` says so in four parts.
`WellHeld`: no two lists, widgets or payloads of the topology have a block in
common. `HeapHeld`: the blocks in use are the controller's, the topology's and
lost lists of tokens (`Sound`), or there is no controller and nothing is in use but
those lists (`Blank`). `EveryPipeHeld`: the caller names the pipes of SOF.
`NoneHeld`: one that counts no pipeline names none. A call is made of loops, and the
number of rounds is whatever the file says. Each loop is followed by `UpTo`: what is
true before the first round and is kept by every round is true after the last
(there would be a first round that fails it, which is how the theorem does
without induction over data). One lemma for each operator of the parser
and of the loader says what it keeps of the memory, whether it succeeds or not
(`AppendItem`, the tuples, a widget's controls, a widget, an item, a block, the
whole file; a component's controls, a pipeline, all pipelines), and
`ClearTopology` that it frees all the topology owns, once.

### AudioStreamsProofs

For any sessions, streams, queues, losses, delays and failures:

| theorem | statement |
| --- | --- |
| `StreamsAlwaysTyped` | `Spec => []TypeOK` |
| `ChannelsAlwaysMatch` | `Spec => []HostChannels` |
| `StreamsNeverMix` | `Spec => []StreamsIsolated` |
| `AlwaysRunsWithDma` | `Spec => []RunningHasDma` |
| `SidesAlwaysAgree` | `Spec => []SidesAgree` |

Sessions are finitely many, because `refs` counts them. None of the properties is
inductive: that a session owns its slot says nothing about a CLOSE or a CONFIG
that a round trip gave up and that is still on its way. `Inv` adds what holds of
the requests wherever they are (`Way`). `Ordered`: the request the control
worker closes a channel for, its queue, the one rx holds and the link are one
queue, in which a CLOSE is the last request to name its slot and an awaited one
the last of all. So a slot is freed when nothing under way names it any more, and
`OPEN` hands out a slot that nothing names. What a ring holds is under way only
while its count is right. `RingInv` says what that means: one of the two threads
changes it at a time, `head` and `tail` are apart by what is stored, and the requests
that wait lie in the first places from `head` on (`Waits`); of a ring with a wrong
count it says no more than that all in it came in over this channel. `WayInv`: a request names a slot that
its session still owns, and a START one with a buffer that no CONFIG under way
takes back. `SessionInv`: a session owns its stream until its CLOSE is sent.
`AnswerInv`: only the answer of the request that is awaited can be taken, and what
it promises still holds then. On the controller one lemma (`ControllerKeeps`)
serves all steps, which may only drop requests and touch their own slot (`Stores` and `Takes` say
what storing and taking a request make of a ring); on the
host `CallKeeps`, `SendKeeps` and `ReturnKeeps` serve the beginning of each call,
each request and the end of each round trip. Freedom from loss is not assumed but by
`SidesAgree` and by the part of `StreamsIsolated` that no count is ever wrong, which
say so themselves. The invariant of both (`AgreeInv`, on a reliable link) is
that the whole system has one message at most, the one of the call that holds the
link (`OneMessage`): sent, taken, stored, counted, served or answered; so the two threads
of a ring never meet. Every session
but that one is `Settled`, as it is itself until the controller has done what the
message asks; from then on `Handled` says of the answer on its way that it tells
what was done. Each step moves the one message on (`MovesOn`) or turns a settled
session into a handled one (`IsHandled`), whatever SOF refuses.

### Only model-checked

Every liveness property (`NeitherEndHangs`, `EverythingEnds`, `DeinitReturns`,
`EveryRequestAnswered`, `PumpLives`, `RequestsReturn`), because liveness under
fairness is beyond the prover; and `ProjectInstalled` of `AcTopology`, which says
what the loader connects in SOF. It rests on `SelectSeq`, `SelectInSeq` and the
folds, recursive definitions of the libraries that the prover does not unfold, and
it too is true only of projects in which no joined names meet. Now that the lines
of the graph are known as a set (`IsGraph`), its proof would begin there.

## 6. What was seen on the way

What the modelling showed about the code and no run of this directory claims. Lines
are those of the code, then those of the text it differs from.

*Data link and transports.* One lost ACK of a fragment that is not the last defeats
all retries: its repetition makes the receiver give up the packet
(`datalink_manager.cpp:96`; design document :1916-1917). A fragment is not repeated
after a write error, and no reader answers a bad checksum with a NAK (:1918). A
broken header stays in `rx_buffer_` and blocks what follows (`:123`). Both ends
sending at once read each other's frames for ACKs (`:46`; outside `DataLink`, which
has one direction). `sendSync` fails at the late answer of an earlier request, and
then each request reads the answer of its predecessor (`transport_manager.cpp:244`;
:1939); it takes its sequence id before it waits for `io_mutex_` (`:227`). The
controller drops a request that finds its queue full without an answer
(`ac_transport.c:235`).

*Audio.* After a race for the count of a reopened channel (`ac_transport.c:424`;
:1949; `ControllerNoMutex`, `AudioNoMutex.cfg`) a worker may serve a request of an earlier session, serve one twice or
leave one unserved until the next request comes; the response has the sequence id of
the old request, so that no host takes it for its own, but the audio data have
gone into the stream that now has the slot.

*Logs.* Once the store is full a mirror's cursor points at its end for ever, and the
mirror reads nothing more (`log_service.cpp:616`; help of `as_log --follow`,
`cli_common.cpp:172`). Text pending in the controller is lost when a LOG_READ times
out (`simulator_log_device.cpp:136`). A session id is made from the number of
sessions and may be in use (`log_service.cpp:105`). `readEntries` holds the mutex of the
service while it waits (`:298`).

*RPC and tools.* A close that is overtaken by a create of the same id releases the new
session's number (`audio_studio_rpc_api.cpp:256`; :6937). `as_log` starts its session
outside the block that cleans up (`cli_common.cpp:656`). The methods `rpc.*` cannot
be reached (`json_rpc.cpp:70`; :476).

*SystemInfo.* Rows survive a silence during which nobody looked
(`system_info_service.cpp:79`; :4990). Any record, not only a heartbeat, is a sign of
life and connects (`:156`; :4980, :4990; `SystemInfoHeartbeat.cfg`). The costs of a page pair its nodes with the
rows by position.

*GUI.* A save after a build of one scope loses the other scope's instances
(`project_orchestration.cpp:1628`, `:1808`; `docs/backend_development.md:41`). A
build of one scope drops the preset values of all nodes outside it from the workspace
file (`:781`, `:1654`), and since the baseline brings back instances,
pipelines and connections only (`:554`), a later build of the other scope does not have
them again, before a save or after it. A build whose session loses its leader too
early does not signal its process group (`:1496`; `docs/backend_development.md:48`;
`GuiGroups.cfg`), and a stop goes on as soon as the leader has exited (`:1423`): a simulator
or server that outlives it keeps the port and may still write the marker. A
save that fails leaves the source file empty. All workspaces share port 9901. An
EOS sets `running_` to false for both directions.

*Config and topology.* The handler of `filter.channel_remap` packs a table of all
layouts in place of the `layout` a project gives (`builtin_module_configs.cpp:266`). An edge to a node that does not exist is dropped without a word
(`config_service.cpp:2137`; :4629). A plugin whose second
handler is refused keeps its first (`:2575`). Nothing serialises two compilations.
Projects whose joined names meet are accepted: with two pipelines of one id, or a
node called `SCHED` or `BUF0`, a buffer or a scheduler gets the name of another
widget (`:1935`, `:2074`), and the graph no longer says which edge is which.
The controller takes the capabilities of no project (`ac_topology_parser.c:986`),
names a pipeline after its last scheduler, and keeps what it parsed of a file that
failed.

## 7. What is not modelled

* Both directions of the link at once: step 11 of the plan.
* Counters, statistics, logging and the layout of frames and messages: no
  property is about them.
* SOF, ALSA and the other drivers, the byte pipe of the simulator: other
  people's code or pure I/O; they appear by their outcomes.
* `as_server`'s start-up, by one thread; the control service, a table no program
  uses yet; the GUI's mock runtime, which answers with sample data; the frontend
  and the scripts.
* In `RpcSessions` a client does not give up on an answer; in `GuiProject` there is one
  workspace; in `ConfigService` one compilation at a time.
* Telemetry of the GUI, made of random numbers; the decoding of SOF traces; `readRaw`,
  `configureSession`, `append`, `clear` and `tail` of `LogService`.
* A callback that closes or drains its own channel would wait for itself
  (`transport_manager.cpp:303`); no callback of the repository does, and those of
  the model make no calls.
