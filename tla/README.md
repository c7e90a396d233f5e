# A TLA+ model of the IPTV cloud server

This directory holds TLA+ specifications of the `iptv` server, the TLC models that check them, and
TLAPS proofs of the properties that matter most. Paths below are relative to the repository's `src/`.

## The system

The server is one **service** process (the daemon) that forks one **stream process** per running
stream. Clients (an admin panel) talk JSON-RPC to the service; viewers talk to the subscribers', HTTP and
VOD servers, which are threads of the service. A stream process builds a GStreamer pipeline, restarts it
when it fails, and reports statistics.

```
 admin client --TCP--> service loop (ProcessSlaveWrapper) --pipe: stop/restart--> stream process
                          ^   |   <--pipe: statistics-------------------------   (StreamController)
                          |   +-- SIGCHLD, timers                                   control thread
   closure in loop thread |   +-- SyncFinder (mutex) <-- subscribers thread         loop thread (libev)
   VOD / HTTP threads ----+                                                         GStreamer threads
```

### Inventory

| Component | State it keeps | Operations | What is hard | What makes it correct |
|---|---|---|---|---|
| Stream controller (`stream/stream_controller.cpp`, `stream_wrapper.cpp`) | `restart_attempts_`, `stop_`, `origin_`, the shared `mem_` | `Init`, `Exec`, `Stop`, `Restart`, pipe events, TTL timer | three threads share `origin_` and the stream without a lock; waits without a predicate; a stop that arrives between two steps | a stop is honoured, failures freeze the stream exactly after the limit, the back-off grows, a VOD plays once, an orphaned process ends |
| Base stream (`stream/ibase_stream.cpp`, `base/channel_stats.cpp`, `stream/probes.cpp`) | main loop, `last_exit_status_`, byte counters, check times | `Exec`, `Quit`, bus messages, one-second timer, pad probes | counters written by streaming threads, a wall clock that steps, `Quit` racing the main loop | `Quit` ends `Exec`, a stream without data is given up and one with data is not |
| Timeshift and catchup (`stream/timeshift.cpp`, `stream/streams/timeshift/`) | chunk directory, index, the list of a catchup | find a chunk, record, clean up, write the playlist | the directory changes under the reader; restarts and kills between two chunks | the chunk played is the one the delay asks for, no chunk is overwritten, the list is in order |
| Playlist streams (`playlist_*_stream.cpp`) | list position, open file | need-data callback | the end of the list, empty files, files that cannot be opened | the callback returns |
| Stream types and builders (`stream/streams/`, `builders/`) | `pipeline_elements_`, connectors, `flags_`, a mosaic's meters | five stages of `InitPipeline`, autoplug, pad added | stages that depend on what an earlier one left, pads in any order | every output is reached, every medium is fed by the right track |
| Configuration (`server/options/`, `stream/configs_factory.cpp`) | `vods_links_`, directories | validate, make configuration, make the stream | two programs read the same options; validation and factory disagree | what is acknowledged runs, every option reaches its field |
| Service (`server/process_slave_wrapper.cpp`, `child_stream.cpp`, `daemon_slave.cpp`) | table of children, pipes, clients and their requests, `vods_links_`, timers, pid file, ports | activate, sync, start, stop, restart, stop service, pings, SIGCHLD, pipe data, start-up and end of the servers | fork failures, inherited descriptors, SIGCHLD against end of file, crash of the daemon, a second service | one process per stream, no dangling pipe client, every process supervised, nobody orphaned, requests answered, one service serves |
| Subscribers (`server/subscribers/`, `server/sync_finder.cpp`) | `users_`, `connections_` | activate, ping, channels, refresh of users | refresh against lookups, double activation, stale pointers | connection limits, exact registration |
| HTTP and VOD servers (`server/http`, `server/vods`) | connections | GET/HEAD of chunks and playlists | request served on another thread than the one that starts the stream; files removed meanwhile | a VOD is started once and can always be had whole again |
| Serialisation (`commands_info`, `protocol`, `stream_commands_info`) | none | encode, decode | integer widths, optional fields, keys of writer and reader | every field arrives |
| Statistics of the machine (`utils/utils.cpp`, `MakeServiceStats`) | previous shots | shots of processor and network | two callers share the previous shots | nothing is reported twice |
| GPU monitors | one number | sample | - | - |

`PROJECT.json` lists every component with its status, and every hazard with the line where it bites.

## Modules

| Module | Models | Composed with |
|---|---|---|
| `StreamController` | the stream process: control thread (`pc`), loop thread (`lpc`), the pipeline's own `Quit` (`qpc`) | |
| `StreamLife` | abstract: what a stream process promises to the service | |
| `StreamRefinement` | refinement mapping from `StreamController` to `StreamLife` | both |
| `Daemon` | the service with its children, pipes and the life of the forked processes | uses what `StreamController` shows: a process whose pipe is closed ends |
| `Protocol` | the conversations of the service: requests, answers, pings, commands to a stream process and its reports | with `Daemon` in `MCDaemon` |
| `Subscribers` | the subscribers' thread and the list of users that the service's thread refreshes | |
| `DataWatchdog` | the one-second timer of a running stream and the byte counters of its streaming threads | refines "the pipeline quits by itself" of `StreamController` |
| `Pipeline` | the builders' element graphs and the pads that decodebin adds | refines "the builder may fail" of `StreamController` |
| `StreamConfig` | validation of a configuration, its links and directories, the configuration object, the stream made of it and whether that comes to run | uses `Pipeline` (`INSTANCE`) for what can be built; before `StreamController` in the life of a stream |
| `Messages` | writing and reading of every message | the content of what `Protocol` exchanges |
| `Timeshift` | the directory of a recorder or catchup, and a player over it | with `Playlist` in `MCRecordings` |
| `Playlist` | the need-data callback of a playlist | |
| `ServiceMain` | processes of the service: configuration file, pid file, ports, threads of the servers, `--stop` | with `HttpVods`, `NodeStats` in `MCService` |
| `HttpVods` | the HTTP and VOD servers, the folder of a VOD, the child that writes it and the clean-up timer | |
| `NodeStats` | what the statistics of the machine are made of | |
| `DataWatchdogProofs`, `PipelineProofs`, `SubscribersProofs`, `TimeshiftProofs` | theorems about the module of that name | |
| `StreamControllerProofs` | theorems about `StreamController` and `StreamRefinement` | |
| `DaemonProofs` | theorems about `Daemon`, `Protocol` and `Messages` | |
| `ServiceProofs` | theorems about `ServiceMain`, `NodeStats` and `StreamConfig` | |
| `FoldRule` | what `FoldLeft` computes, step by step, for an operator that is a constant | instantiated by `PipelineProofs` and `DaemonProofs` |
| `MC*` | instances for TLC | |

### StreamController

A variable per field: `attempts` is `restart_attempts_`, `stop` is `stop_`, `origin` what `origin_`
points to, `running` the state of the stream's glib loop, `exitStatus` its `last_exit_status_`, `status`
the shared `mem_->status`. `longAgo` abstracts the clock to the only question the code asks of it:
whether `WithoutRestartTime()` exceeds ten frozen periods. It is true initially because
`loop_start_time` is zero until a pipeline was built.

`Exec` is cut wherever another thread can come between: the test of `stop_`, the locking before a wait,
creation, pipeline set-up, the main loop, deletion of the object and clearing of the pointer (two steps),
the decision. `stop_mutex_` is held within single actions only. A wait may return "notified" at any time
(C++ allows spurious wake-ups, and the code does not look at a predicate) and "timeout" at any time. `Quit`
is three steps for the loop thread (post, quit the main loop, store the status), because the status is
stored after the main loop was told to quit. The loop thread's copy of `origin_` (`held`) becomes
`dangling` when the control thread deletes the stream; its use is then undefined and modelled as a crash or
as nothing. `Init` failing ends in a crash because the destructor joins a thread that was not started.

Kinds of configuration: a live stream, a VOD, a timeshift player, a mosaic whose layout cannot be built
(the only builder that can fail), and a type the factory does not support.

### Daemon

`childs` is the loop's table of `ChildStream`s, `clientPtr` those whose `client_` is set, `pipe` the
daemon's pipe client of each process, `inherited` the daemon's descriptors a process has copied by `fork()`.
`StartStream` is the whole handler: duplicate test, pipes, fork (or its failure) and the acknowledgement.
End of file (`PipeEof`), a broken pipe (`PipeError`) and SIGCHLD (`ChildStatusChanged`) come in any order.
A VOD request is two actions, as in the code: the HTTP thread queues a closure, the service's loop runs it.
`DaemonCrash` may happen at any time.

### Protocol

Each connection is two queues, `toService` and `toClient`; the service's unanswered requests are `pending`, a
client's are `asked`. `DaemonDataReceived` takes one command and is the whole handler, the operator of that name with
every way out: answered with success, answered with failure, or `Ignored`, an error that is only logged. Params are
classes (none, not JSON, incomplete, wrong license, good). The one stream process reads commands, answers before it
obeys, reports, and ends at any time; the exit is broadcast and its pipe closed in either order. What requests do to
the streams is abstracted to that one process: `Daemon` has the rest. The table of requests is the library's
`ProtocolClient`, modelled from its use.

### Subscribers

A connection is the address of its `SubscriberClient`, so an entry of `connections_` can outlive its client
and a later client can get the same address. `SYNC_SERVICE` is `Clear`, one `AddUser` per entry of the list, and
`SyncDone`: the mutex of the list is released between them. An entry that does not parse is skipped, and of two with one
login the first stays (`Insert`). `asked` and `added` say which list it is and how far the sync has come.

### DataWatchdog

What `StreamController` calls "the pipeline quits by itself" is here in detail: `HandleMainTimerTick` on the
main thread (`pc` is its position), the streaming threads whose probes count buffers, and the messages that
reach the main loop in between. `total`, `prev` are `total_bytes_`, `prev_total_bytes_` of `ChannelStats`, sums
and differences wrap at `SizeMod`. `UpdateStats` is two steps, a read and a write, for a streaming thread and
for the main thread. Data may pass uncounted (`PassUncounted`): a buffer list through an input, whose probe knows
buffers and events only, and everything through a pad whose probe has a number that is no channel's (`Strays`). The tick is cut into measuring (`Tick`), the two checks (`JudgeInput`, `JudgeOutput`) and
the report, because buffers arrive in between: a checkpoint is set later than the sums were taken. As in the
code, a failed input check does not end the tick, and the output check may still set a checkpoint. A `kind`
selects the overrides: the timeshift player forgives the input check and the timeshift recorder the output
check (their `On...DataFailed` call `On...DataOK`).

Time is relative: `since` to the checkpoint, `due` to the next report. A second passes for the loop (`lag`), for
the wall clock (by one of `ClockSteps`) and for the history variables `real` and `silent`, which no action
reads. `recv` is what truly passed a channel since the checkpoint; `off` are the channels whose counter went wrong since
then, because an update was written over another one, data passed uncounted or a duration was added, and `ahead` says
that the wall clock was set ahead. The properties of the checks make these exceptions and no other. Abstractions: a tick is handled within its
second; the counters of all channels are read at one instant; each input has its probe from the start; the
bytes per second of the statistics are left out.

### Pipeline

`graph` is what a builder has made: the elements of the bin with the capabilities each of them offers, the links,
and the two connectors that one stage hands to the next (`conn`). A stage of `GstBaseBuilder::InitPipeline` is an
action; the mosaic has a builder of its own and is one action. `ElementAdd` and `ElementLink` fail where GStreamer
or the code does: a null element, a second element of a name, a pad that is taken, no capability in common. An input
without a url, or with one that `make_src` knows no source for, and an output whose url `build_output` makes no sink of
give a null element, which is dereferenced (`noSource`, `noSink` of a configuration). Every failure ends the process,
which is the state `crashed`; `failed` is the one builder that returns false. `NOTREACHED()` is the library's: whether it
ends the process, as in a debug build, or the code goes on is the constant `NotReachedAborts`; it decides about a logo
that is not a file.
What an element takes and offers (`Takes`, `Offers`) is GStreamer's and marked external, at the granularity of
codecs. A kind selects the overrides of the builders: `relay` also stands for the relay playlist, the timeshift
player and the VOD relay, `encoding` for the encoding playlist and VOD, `recorder` for the catchup, which differ
in the source element (`own_source`), the sink's location or the files only. Left out: the encoders that the codec tables
do not know (`eavcenc`, `msdkh264enc`, `vaapimpeg2enc`; `StreamConfig` has them), `mpeg2enc` and `mpegvideoparse`, which no
option names, and a `stream-format` filter, which is built as the `profile` filter is.

Once it runs, each track of a source is autoplugged (`Autoplug`) and then added (`PadAdded`), in any order.
`caps` is what decodebin exposes for it, `fed` the links it made, `inited` the flags, `meters` the channels a mosaic
has registered for its level meters.

### StreamConfig

A request is a function from options to texts, a text a record of what it can be read as (number, integer,
boolean, urls, path). `ValidateConfig` applies the validator of each option as `options.cpp` does, with its fatal
and non-fatal outcomes; `StartStream`, `SyncService` and `StartVod` are the three ways to a configuration, with the
directories that each makes; `ChildInit` is `make_config` in the forked process, `ChildCreate` the factory, and `ChildBuild`
the way of `IBaseStream::Exec` to the main loop. What the builders end the process for is not said again: `Builder` is
`Pipeline` with the configuration that the class of stream gives its builder (`BuilderConfig`), and `ChildBuild` asks its
`Buildable`, which `BuiltExactly` shows to be what the stages do. Encoders that `Pipeline` leaves out are built like one it
has (`BuilderEncoder`) and have no payloader (`PayUnknown`). The phase says how far it came, and where the service or the
child aborts; "running" is that the stream enters its main loop. `Gap` lists the acknowledged configurations that do
not come so far: those no configuration object or class is found for, and (`BuildGap`) those whose pipeline cannot be built.

`CRITICAL_LOG` is the library's and is taken for a log after which the code goes on, here and in `Pipeline`: the code
after it does go on (`break` at `stream_controller.cpp:232`, `continue` at `src_decodebin_stream_builder.cpp:137`, a `return`
at `probes.cpp:64`). A request that is not JSON ends the service nevertheless, because the null object is
iterated over.

### Messages

For every class of message one operator that writes it and one that reads it, key by key, with the width of the
read: `AsInt` is `json_object_get_int`. `Omit` leaves a member out, `Relay` reads a message and writes it again, as the service does with
what streams report. `Objects` is what each class of object can hold (`ObjectsAssumption` says that the values sent are
such objects): an integer is of its C++ type, a text is any string. The fields that do not come through whoever sends them
are exceptions that the property names one by one (`Lossy`, and `LeftOf` for what is left of each). `Prepare` is the answer about directories, which is made of what the disk holds.

### Timeshift and Playlist

`files` maps an index to when its file was begun and last written to. The recorder starts (`StartRecorder`, with
`FindLastChunk` and the strategy of its kind), begins a chunk (`OnPathSet`), cleans up on its timer, stops
(`StopRecorder` writes the list of a catchup) or is killed. `splitmuxsink` cuts at the first key frame after
`max-size-time`, so a chunk is anything from `Shortest` to `Longest` long, with the configured `Duration` in between. The player looks for its moment and then plays index
after index. `Playlist` has the position in the list, the bytes left of the open file, and one call of the callback.

### ServiceMain, HttpVods, NodeStats

`ServiceMain` numbers processes in the order they are started. A process reads its configuration, looks for the
directory of the pid file (`pidDir`), opens and locks the file (`pidFile` is the file its path names, `locked` the one each process holds), binds, runs a thread per server, and undoes all that, step
by step, and any of these may fail; `--stop` is a process that connects to the default port. `HttpVods` serves a chunk in two steps (the
file is looked at, then opened) against the child that writes it, the closure that starts the child or fails to, and the timer
that removes chunks. `NodeStats` keeps the kernel's counters, which wrap, and the shots.

## Runs

| Run | Module, cfg | Checks | Shows |
|---|---|---|---|
| `stream_safety` | `MCStreamController`, `StreamController.cfg` | `AtMostOneStartAfterStop`, `FrozenAfterMaxFailures`, `VodPlaysOnce`, `BackOffNeverShrinks` | The three threads of a stream process, for every kind of configuration: what a stop still lets happen, when a stream is frozen, that the back-off grows, that a VOD is played once. |
| `stream_liveness` | `MCStreamRefinement`, `StreamRefinement.cfg` | `PipeClosedEnds`, `StopTakesEffect`, `RepeatedFailureFreezes`, `ImplementsLife` | The stream process implements the abstract cycle of StreamLife, its progress included: a stream process whose daemon is gone ends, a stop that can be honoured is, and failures for ever freeze the stream again and again. |
| `daemon` | `MCDaemon`, `Daemon.cfg` | `OneProcessPerStream`, `ClientPointersValid`, `Supervised`, `StoppingToldEveryone`, `ExitIsAnnounced`, `PipesReleased`, `NoOrphans`, `RequestsAnswered` | The service with two stream ids: no stream runs twice, no deleted pipe client is used, every process is supervised, a stop reaches everyone, exits are broadcast and pipes released in either order of their events, no process outlives the service; and what its clients ask is answered whatever comes between. |
| `client_nulled` (*violation*) | `MCDaemon`, `ClientNulled.cfg` | `ClientNulledBeforeReap` | SIGCHLD can be served before the end of file of the pipe, so the DCHECK that the client is nulled fails. |
| `subscribers` | `MCSubscribers`, `Subscribers.cfg` | `ConnectionLimit`, `RegisteredAreActive`, `SyncedUsers` | Two accounts and three connections against syncs with equal logins and users that do not parse: the limits of connections hold, connections_ is exact while no connection activates twice, the users are at every moment of a sync the ones added so far, the first of each login, and nothing of an earlier list. |
| `watchdog` | `MCDataWatchdog`, `DataWatchdog.cfg` | `TotalIsReceived`, `ReportsKeepComing`, `QuitOnlyStarved` | The timer against an http input with a counted and an uncounted pad, an output with two pads on one counter and a clock that is set ahead: the counters are exact but for lost updates, uncounted data and durations since the checkpoint, a stream is given up for want of data or for one of these only, and reports come in time. |
| `watchdog_live` | `MCDataWatchdog`, `DataWatchdogLive.cfg` | `NoInputRestarts`, `NoOutputRestarts` | A stream of any kind without input, or without output, is given up once the clock no longer steps back, though its threads, duration messages and its status go on. |
| `pipeline` | `MCPipeline`, `Pipeline.cfg` | `BuiltExactly`, `OutputsFed`, `FedRightly`, `LevelsHaveMeters` | The pipelines of every kind of stream, some thousand configurations, built stage by stage and completed by decodebin's pads in every order: which configurations cannot be built, for lack of a source, a sink or a link too, that the others reach every output, and which track ends up where. |
| `messages` | `MCMessages`, `Messages.cfg` | `FieldsArrive` | Every message, with any two of its fields left out and passed on by a second program: each field arrives with the value it was sent with, or with the one its reader takes for a missing or unrepresentable one; the fields that do not arrive are named one by one. |
| `configs` | `MCStreamConfig`, `StreamConfig.cfg` | `AcknowledgedRuns`, `OptionReachesOneField` | Requests to start a stream and lists of VODs, each with some option changed, followed up to the main loop of the stream: which of the configurations that pass validation end the service or the stream process, and that every option of an encoder reaches one field of the configuration of the stream. |
| `recordings` | `MCRecordings`, `Recordings.cfg` | `ChunksAreKept`, `FindsTheMoment`, `PlayerNotStarved`, `CatchupInOrder`, `NeedDataReturns` | A recorder or a catchup with restarts and crashes over its directory, whose chunks end at key frames and so are not all as long as configured, a player that looks for its moment there, and the need-data callback of a playlist. |
| `service` | `MCService`, `Service.cfg` | `OneServes`, `StopCommandStops`, `VodBecomesWhole`, `MeasuredOnce` | Processes of the service started, stopped and killed over one pid file, whose directory may be missing, and the same ports; viewers who ask for a VOD from two servers while it is written, cleaned up or fails to start; what the statistics of the machine add up to. |

The run marked *violation* shows where the code does something else than a comment, an assertion or a test of
the repository says; `PROJECT.json` quotes the line under "findings".

More observations follow from the models and are not kept as runs:

- a `Quit()` between the creation of a stream and its main loop is dropped (`ibase_stream.cpp:506`), where
  `tests/stream/workflow_test_restarts.cpp:44` takes it that `Exec()` returns; `StopTakesEffect` is therefore
  stated of a stop that finds the main loop running;
- "refresh subscribers" (`process_slave_wrapper.cpp:1278`) empties the list before it fills it, so a user of the
  old and the new list is turned away in between; what `SyncedUsers` says of that window is that nobody who is not
  on the new list is let in. A user that does not parse is dropped without a word, and so is the second one of a login;
- the child closes two descriptors under "close not needed pipes" (`process_slave_wrapper.cpp:909`), those of its own
  pipes; the daemon's ends of the pipes of older children stay open in it, so an older child whose pipe the daemon
  closes sees no end of file until the younger ones are gone (`NoOrphans` holds because they end one after another);
- two pads of one channel (both sinks of a mosaic, `mosaic_stream_builder.cpp:249` and `:267`) lose bytes of each
  other in `UpdateStats`, and the probe of an input counts no buffer list (`probes.cpp:194`, where that of an output
  does, `:214`): a stream that has its data may be given up for that;
- the data checks use the wall clock (`ibase_stream.cpp:562`): a step forward ends the period early. These are the
  exceptions that `QuitOnlyStarved` names, and the run meets all of them;
- when the directory of the pid file is missing, `main()` makes it and exits with a failure, because it takes the error
  that `create_directory` returns for a success (`daemon_slave.cpp:126`): the first start on a fresh machine fails,
  the second one serves.

`BuiltExactly` says which configurations end the stream process while its pipeline is built. Those that one might
not expect, besides urls there is no source or sink for:

- a GPU encoder in any stream but a mosaic or one that relays its video: `BuildVideoPostProc` leaves `last` null
  (`encoding_stream_builder.cpp:144-170`);
- a device stream (`unit_test_input_uri.cpp:25` has such a url): its connectors are set by
  `BuildInput`, and `BuildUdbConnections` CHECKs that they are empty (`src_decodebin_stream_builder.cpp:111`);
- a relay, a test or a recorder without an input (`src_decodebin_stream_builder.cpp:88`);
- a recorder or catchup without audio or without video (`timeshift_recorder_stream.cpp:87`);
- MPEG audio to a udp output: its payloader is made by `make_mpeg2_pay`, which is one of transport streams and takes
  the name of the video's (`src_decodebin_stream_builder.cpp:51`);
- a mosaic with H.264 to a udp output, which puts the payloader before the parser (`mosaic_stream_builder.cpp:312-333`).

In `FedRightly`, the flag of a medium is set even if the pad could not be linked (`encoding_stream.cpp:203-219`), so
a track that fits and comes after one that does not is turned away.

Other observations, by part:

- *Stream process.* The branch "if longer work" (`stream_controller.cpp:255`) measures from `loop_start_time`, which
  is zero until a pipeline was built: a mosaic without a layout is restarted in a busy loop. `Init()` failing
  ends in a join of a thread that was not started (`stream_wrapper.cpp:50`). Durations of an http
  source count as received bytes (`ibase_stream.cpp:624`), so that such a stream passes the input check without input:
  `NoInputRestarts` says so. `flags_ &= INITED_AUDIO` (`ibase_stream.cpp:432`) lacks a `~`.
- *Mosaic.* MPEG audio caps are registered for input 0, and the vector of meters grows on one thread while two
  others use it (`mosaic_stream.cpp:169`).
- *Service.* A failed `fork()` is acknowledged as a success (`process_slave_wrapper.cpp:928`); when the second pipe
  cannot be made the first stays open (`:885`). Handlers' errors are only logged (`:648`): unverified clients, malformed
  params and unknown methods get no answer, which is why `RequestsAnswered` speaks of complete requests of clients that
  know they are verified. A stop or restart is acknowledged whether or not it could be written to the pipe. Pings
  nobody answers stay in the table.
- *Start-up and end.* The pid file is unlocked before it is removed (`daemon_slave.cpp:175`), and it is the port
  that keeps two from serving. Ports outlive the lock, so a quick restart may fail to bind. If only the
  service's own port is taken, `Exec` joins threads that nobody stops and hangs with the lock (`:462`). A server that
  cannot bind ends silently. `config.cpp:143` sets `subscribers_host` where `bandwidth_host` is meant. `--stop` asks
  the default port whatever is configured.
- *VODs.* A half-written VOD of a dead child counts as complete until the timer removes its chunks; after the clean-up
  the playlist lists chunks that are gone. `M3u8Reader` never closes its file. A file removed between `stat` and
  `open` gives 403; a method other than GET or HEAD gets no answer.
- *Configuration.* `Gap` in `StreamConfig` lists the acknowledged configurations whose child dies, among them
  `timeshift_chunk_duration` 0 (accepted at `options.cpp:158`, a CHECK at `configs_factory.cpp:343`), a player without
  `timeshift_dir`, a player without an input (`src_decodebin_stream.cpp:55`), type SCREEN, and all whose pipeline cannot
  be built. `mainprofile`, `mainprofile_external`, `delay_time` and `x264enc.cabac` are read by
  nobody. A malformed line of a sync, or a directory that is not one, ends the service.
- *Messages.* The `rss` of a statistic is written as 64 bits and read with `json_object_get_int` (`statistic_info.cpp:177`,
  used by `tests/unit_test_types.cpp:43`); the total and the time of the last update of a channel are not read back
  (`channel_stats_info.cpp:47`), and its lists are turned round by each reader.
- *Timeshift.* The duration of the chunks is read through a cast of a `RelayConfig` (`stream_controller.cpp:204`,
  `configs_factory.cpp:214`), so `FindsTheMoment` and `PlayerNotStarved` are stated of the right one while the player tries
  several: they say what the search and the retention promise, and not that the code's player asks for it. With a
  delay of 0 nothing is found. A killed catchup loses the chunks of its session from the list, and after all chunks
  have aged out the numbers start again. A looping playlist of empty files never returns from its callback.
- *Statistics.* Two shots within one jiffy divide zero by zero, an interface that vanishes makes the difference wrap,
  `iowait` is read and not kept.

### Bounds

- `MaxCommands` (2, or 1 with liveness): commands that the daemon writes to a stream process. Two are enough
  for a restart followed by a stop, in every order with end of file and TTL, which are not bounded.
- `MaxRestartAttempts` 3 and 2: failures before, at and after the limit. The number of runs of a stream is
  not bounded: the state space is finite without it. The proofs cover every limit.
- `MaxForks` 2: two stream ids and two processes, so that one id is used again after its process died, or a second
  process inherits the pipes of the first. The proofs cover any number.
- `Protocol`: one client with three requests (the first activates it in one of several ways or is a stop it may not ask for; the
  second is any method; the third meets what the second left), one stream process with one report, one ping.
  Connections have a table each, and a second client adds nothing to the first's.
- `MaxEntries` 3: entries of `connections_` for one account, which double activation makes grow for ever.
  Three connections, two accounts, limits 1 and 2.
- `DataWatchdog`: for the safety properties a period of 1 second and reports every 2, so that a check, a report and
  both fall in one tick; two units of data as the minimum and at most `MaxWindow` 2 between checkpoints, so that a
  channel has nothing, too little or enough; `SizeMod` 3, so that counters wrap all the time; two pads to each channel,
  one of the input's without a number; clock steps of 1 and 2. For liveness a period of 2 seconds, one pad to a channel
  and a clock that steps back, at most `MaxBack` 1 behind the checkpoint. The loop is at most `MaxLag` 1 second late.
- `Pipeline`: every kind, each set of media, every encoder, parser and scheme that the model knows, no or all
  options, no, one or two outputs with and without a sink, no to three inputs with and without a source (those of a mosaic
  with and without a layout); sources of three tracks,
  with two audio tracks, codecs that fit and that do not, and two inputs. Nothing in a builder depends on more than
  two outputs or inputs: each gets its own branch under its own index.
- `StreamConfig`: every type with every kind of input and of output; encoder and recorder with each option in
  each class of text and some options in pairs and triples; every type with all options at once, and without each of
  the required ones; and what the builders look at, in every combination: the media, each parser and encoder, each kind
  of output, whole and broken urls, a logo to download.
- `Messages`: each class of message with one of the values of `MCValues` in each field, up to `MaxOmitted` 2 members
  left out and `MaxHops` 2 readings; the widths are 40 and 90, so that values above, at and below them occur.
- `Timeshift`: chunks of 2 or 3 seconds for a duration of 2, a delay of 3; a recorder has 12 seconds, 2 starts and a
  life time of 7, so that what `PlayerNotStarved` needs fits in; a catchup 6 seconds, 3 starts and a life time of 1, so
  that a recording is interrupted twice and chunks age out. The player knows the duration, or has read another one
  (`Windows`). `Playlist`: lists with empty files at either end, in the middle and only such; `MaxPushed` 6 buffers,
  two rounds.
- `ServiceMain`: `MaxStarts` 3 processes (a service, its stop or successor, and a third that meets what the two leave),
  two of the three identical threads of servers, one kill. The configuration files are the two that
  differ in effect: two servers on one port, and the service on the port of one of its servers. The file is not edited
  while processes run. The directory of the pid file is there, missing or not to be written to. The quit timer fires after the threads have begun (it takes three seconds).
- `HttpVods`: a connection to each server, two chunks, one request queued, one crash of the child or start that
  fails, one clean-up
  that meets a running child: a VOD whose writing takes longer than `ttl_files` every time would never be whole.
- `NodeStats`: counters wrap at `Word` 1024, steps of the clock of 500 and 2000 ms up to 2500.
- `MCDaemon`, `MCRecordings` and `MCService` choose a part per behaviour: their parts do not meet, and running
  them together would multiply the states of one with those of the other.
- Deadlock is not checked where the system really stops: `configs` (a stream runs or the service has aborted),
  `recordings` (the clock's bound) and `service` (processes end).
- The history counters `starts` and `waits` stop at two, which is what refutes "at most one".

### Fairness

`StreamController` assumes weak fairness of each thread's own steps and of timeouts. Strong fairness is
assumed of a notified waiter and of the loop thread while a player waits: a wait lasts seconds and the loop
thread's steps take microseconds, so the loop thread is not starved of every one of them, and some
notification reaches the waiter before its deadline. Nothing is assumed of the daemon, the media or the
clock. `Daemon` assumes that libev delivers pending events and expired timers and that a stream process that
sees the end of its pipe ends, which is what `PipeClosedEnds` of `StreamController` checks. Clients, HTTP
requests and exits of processes are not fair. `DataWatchdog` assumes that seconds pass, that the main thread
finishes what it does (weak fairness) and that an expired timer is not passed over for ever (strong fairness:
timer and bus watch are glib sources of one priority). No data, no message and no state change is fair.
`Protocol` assumes that the service and a client that waits read what has arrived. `Playlist` assumes that the
streaming thread runs while it is in the callback. In `ServiceMain` every started process and thread goes on; no
step of it can be repeated, so one condition for all is as good as one for each. `HttpVods` assumes the servers'
threads, the closure, the child's work and the timer (weak fairness), and strong fairness of a viewer who goes on asking for the
playlist: without one nobody starts a VOD.

## Proofs

`StreamControllerProofs` proves every safety property of `stream_safety`, type correctness, `AtMostOneBackOffAfterStop` and
`ParkedHasNoStream` for every set of kinds, every limit
of attempts, every frozen period and every number of commands. The inductive invariant `IndInv` adds to
`TypeOK`:

- `StopInv`: after the first start under `stop_` the control thread is past the places from which it could
  start another one, and after the first wait it is in it or on its way out;
- `BackOffInv`: `restart_attempts_` is the number of failures in a row, or zero after the last of them, and
  `wait_time` is what that number gives; this is what makes the equality test of the code sufficient;
- `OriginInv`: where `origin_` is null and what the status is there;
- `VodInv`: a VOD that has run is on its way out.

`BackOffNeverShrinks` needs two lemmas on the integer division, `ShareBound` and `ShareGrows`, and
`OnlyBackOffWaits`: only the decision after a failure enters the wait.

It also proves `RefinesLife` of `StreamRefinement`: every step is a step of `StreamLife` or a stutter. It needs no
invariant of its own beyond the types, because the mapping depends on `pc` and `stop` only.

`DaemonProofs` proves the invariants of `Daemon` in the run `daemon` for any sets of clients and ids and any number of
processes. `OneProcessPerStream` is not inductive: what `CreateChildStream` tests and preserves is that the
*table* has no two children of one id (`TableInv`), and the table is exact (`Supervised`). `ForkInv` orders
the pids.

It also proves the safety half of `RequestsAnswered` (`NoStrayAnswers`): every answer finds the one request it belongs
to, for any number of clients, requests, pings and commands. One relation, `OnTheWay(there, back, open)`, says it for
all three conversations: what is on its way there or back is in the table of the end that asked, and is there or on
its way back only once. `ClientInv` has it for a client's requests, `PingInv` for the service's pings (the same two
queues in the other direction, as long as the connection is not closed), `ChildInv` for the commands to the stream
process while its pipe is linked. A lemma for each thing that can happen to such a pair (`Asks`, `Says`, `Hears`, `Drops`,
`Answers`, `Finds`, `Reads`) is what the steps are made of; `NewIdInv` makes the next number new to its table.

`DataWatchdogProofs` needs no hypothesis on the pads, the inputs and the clock for the counters:

- `TotalIsReceived`, for any channels, any number of pads to each, http inputs, any width of `size_t` and any clock.
  `WindowFits` bounds what has passed by what may still be written; `DiffOfPlus` is the arithmetic of the wrap;
  `PendingMoves` counts the threads between a read and its write. Fewer than `SizeMod` bytes pass a channel between two
  checkpoints (`MaxWindow < SizeMod`), as a 64-bit `size_t` guarantees.
- `QuitOnlyStarved`, an action property, from `SumsFit` (what all inputs, or all outputs, receive in a period is a
  `size_t`). `JudgeInv` keeps, from the measuring to the judging step, that the period has really passed or the clock was
  set ahead, and that what is judged is what was received where no counter has gone wrong (`SumsAreReceived`).
- `ReportsKeepComing` from `NeverBehind` (every second the wall clock moves on). `ReportInv` bounds the silence by the
  delay and the lateness of the loop at each place of the tick.

`SubscribersProofs` proves the three properties of the run `subscribers` for any accounts, connections and limits. The
limit holds although entries go stale and double, because an active connection always has an entry (`EntryInv`), so
that `FindInnerConnectionsByUser` never finds fewer than there are (`ActiveAreFound`). Exactness of the table while nobody
activates twice (`OnceInv`) speaks of places in it; `RemoveFirstEntry` is what `erase` does to them. `SyncInv` says of
the entries a sync has reached that the first of each login that parses is there, and nothing else is.

`TimeshiftProofs` proves all invariants and the action property of `Timeshift`, for any duration, lengths of chunks around
it, delay, life times, any number of starts and kills and any clock:

- `DirInv`: the chunks were written in the order of their numbers, none in the future, and the recorder is at the last.
  It gives `ChunksAreKept`.
- `SessionInv`: where the recording has not paused since `since`, a chunk is followed by the one that begins when it ends,
  or is being written; its predecessor is there, unless it is the first or old enough to have been removed (`Follows`).
  It gives `FindsTheMoment`: the search finds the chunk it wants because there is one wherever it looks. The chunks must be
  shorter than two durations (with key frames further apart than the duration, the window of the search falls between
  two chunks) and live for the delay and the longest of them.
- `PlayerInv`: the next chunk of a player is there and due (`Ready`) or is the next one of the recorder (`Close`), and
  either way it is within two chunks of the moment that is wanted, younger than what the clean-up takes: the life time
  has to be the delay and two of the longest chunks less a shortest one, and a chunk no longer than the delay. It gives
  `PlayerNotStarved`, which is stated of a player that began where two chunks had been recorded before the moment it
  wants: otherwise the chunk it is given may be one of an earlier session.
- `ListInv`: order, lengths and completeness of the list of a catchup in memory (`chunks`) and on disk. `WrittenOnce` is the
  rounding of `%.2f`: what was written and read is written again as it is, so that restarts do not add up.

`PipelineProofs` proves type correctness, `OutputsFed`, `FedRightly`, `LevelsHaveMeters` and `BuiltExactly` for any
configurations, with any number of outputs and of inputs, and any tracks of the source:

- The builders are taken one by one. `Proper` says that names are unique and links are between elements, `Entered` that
  every decodebin has an entry for each medium, `Joined` that the connector of a medium lies behind all its sources; a graph with all three is `Fine`, and each builder leads from one to another (`UdbFine`, `PostProcFine`,
  `ConverterFine`, `OutputFine`, `MosaicFine`). What a builder only adds to (`Grows`) keeps every way there was.
- That y can be reached from x is said without counting: every set that contains x and the successors of its members
  contains y (`Path`). `PathBehind` shows that this is what the property means, whose `Behind` counts steps.
- Chains of elements and the loops over outputs and inputs are folds. `FoldRule` gives the partial results of a fold, and a
  statement about all of them holds because there is no least one for which it does not (`LeastNumber`): the
  induction that the library's rules, with an operator as parameter, cannot be used for.
- `PipelineInv` adds what the pads need: what feeds an entry was meant for it and fits (`FedInv`), a flag is set by a
  wanted track that feeds its entry if it fits (`FlagsInv`), and the meters are enough for what an input is fed with
  (`MetersInv`). `FedRightly` needs `FlagsInv`: that a medium is not fed has to mean that no track was wanted or that
  one came first that does not fit.
- `BuiltExactly` says for every configuration whether its pipeline gets through all the CHECKs, so it needs of every
  element that its name and its pads are free and which capabilities come to it. `AddExact` and `LinkExact` say when one
  call fails. A chain is described by its names and by what it makes of the capabilities it gets (`Branch`, from the
  `Flow` through one element); on a graph in which nothing has failed (`Sound`), from an element with a free pad (`Ready`)
  and with its names free (`FreeNames`) it fails exactly if nothing comes out at its end (`ChainExact`), and leaves the
  rest as it was (`After`). `BranchJoin` and `Parts` make the branches of filters, encoders, parsers and payloaders out
  of their elements.
- From there the stages follow: what each of them expects of the graph is `AtUdb`, `AtPost`, `AtConv` and `AtOut`, and
  `InputExact`, `UdbExact`, `PostExact`, `ConvExact` and `OutExact` say when it gets through and that the next one
  finds what it expects. The reasons to fail are a missing source (`Sourced`), a device (`NoDevice`), a GPU encoder,
  behind whose filter the connector is null, or a logo to download (`FilterFails`), and an output (`CanOutput`,
  `HasSink`). The loops over the outputs and a mosaic's inputs keep that the tees, or the mixers, are ready and the
  names of all later indices free (`OutReady`, `MixReady`). `PayClash` is the one failure that is a matter of names:
  the payloader of MPEG audio has the name of the video's. `BuiltInv` puts the stages together.

`ServiceProofs` proves `OneServes` for any number of processes, any ports and any configuration file that is not edited
while they run. The argument is the port, and not the pid file, which is unlocked before it is removed; of that it
shows that one file has one owner (`PidFileHasOneOwner`). And it proves `MeasuredOnce` of `NodeStats`, for any
interfaces, traffic, loads and width of the counters: what was reported is in the last shot (`NetInv`, `CpuInv`), the
rate times its seconds is no more than the difference of the shots (`RateBound`), and a difference that wraps is less
than the true one (`MinusBound`, `LoadBound`). The shot is a sum over the interfaces, a recursion: `SumsExist` shows by
the least counterexample that it has a solution, and `SumOfMore` what a byte more does to it.

It proves the two properties of `StreamConfig` for any set of requests, not only the classes of texts of the run.
`AcknowledgedRuns`: `ConfigInv` keeps what validation has established (`Valid`) while the options wait, in the child or in
`vods_links_`. `ClassOrGap` says for which options there is a class; what its builder is then given has the codecs that
validation lets through (`ConfigShaped`), and `BuildsOrGap` compares, source by source, filter by filter and output by
output (`SourcesFit`, `FiltersFit`, `OutputFits`), `Buildable` with what `BuildGap` says in terms of the options. `OptionReachesOneField`: each reader of `make_config` depends on the options its fields are read from
and on no other (`ReadFrom`; `BaseAgrees`, `AudioVideoAgrees`, `RelayAgrees`, `EncodingAgrees`), and no two fields are
read from one option (`FieldOfOption`), so that leaving an option out touches one field (`OneField`). That it does touch it
for an encoder, unless the option says nothing, is `EncoderEffect`, from what the validators have let through. The
assumption `RequestsAssumption` says that urls are lists of urls.

`DaemonProofs` also proves `FieldsArrive` of `Messages`, for any objects of the classes, any number of members left out,
any number of relays, and any widths. For each class a lemma says that what is read of its JSON form without the
members in `O` is `Delivered`: each field is what was sent, or the default where the member it is written to (`KeyOf`) is
in `O`. The nested lists (channels, devices, directories) are folds and go through `FoldRule`. A relayed message is one of
an object that has arrived (`ArrivedIsObject`, `InTransit`), and another relay turns its channels round once more (`OnceMore`).
That each member left out costs one field is an injection: no two fields of a class have one key (`KeysDiffer`, `OneEach`).

The assumptions are the named ASSUMEs of the modules: positive limits, natural bounds, finite sets of connections and
interfaces, a value that is no account, and that configurations, tracks, requests and objects are of their types. Options enforce a limit of at least one attempt (`server/options/options.cpp:81`).

Only model-checked are the liveness properties (`PipeClosedEnds`, `StopTakesEffect`, `RepeatedFailureFreezes`,
`ExitIsAnnounced`, `PipesReleased`, `NoOrphans`, `NoInputRestarts`, `NoOutputRestarts`, `NeedDataReturns`, `StopCommandStops`,
`VodBecomesWhole`, the second half of `RequestsAnswered` and of the refinement `ImplementsLife`): the prover does not reach
fairness and ENABLED. Every invariant and every action property of a passing run is a theorem.

## Not modelled

- The behaviour of GStreamer's elements and their properties (`stream/elements/` beyond what builds a graph), the
  drawing of a mosaic's overlay, the values of its levels.
- The GPU monitors: without the vendors' libraries `CreatePerfMonitor` returns null, and with them the monitors,
  which are in another namespace than the interface they derive from, do not compile.
- The builders of screen and fake streams, which the factory never makes, and `user_request_info.cpp`,
  `user_response_info.cpp`, which are in no target of the build.
- Upload of logs (blocking I/O on the service's loop whose result nobody reads), logging, daemonising, the licence's text.
- Buffering and error messages of the bus, and the bytes per second shown in statistics.

`PROJECT.json` gives the reason for each component.
