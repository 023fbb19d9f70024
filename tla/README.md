# Verification of NemoHeadUnit-Wireless

This directory holds TLA+ models of the `v2` tree of NemoHeadUnit-Wireless, an
Android Auto head unit, and of the access point service it uses. TLC checks them
on small instances; TLAPS proves the theorems in the modules named `...Proofs` for
all instances. Paths below are relative to the repository, and those of modules to
`v2/modules`.

## 1. The system

Every module of `v2` is an operating-system process. The processes talk over a
ZeroMQ XPUB/XSUB broker (`v2/bus_broker.py`) through
`v2/shared/bus_client.py`: one receive thread per process runs all handlers of
that process one after the other, an exception in a handler is logged and the
thread goes on, publishing never blocks. Several processes have threads beside
the bus thread, and those share globals with the handlers.

A phone passes through the processes in this order:

    bluetooth_manager -> rfcomm_handshake -> tcp_server -> oaa_control_channel
                         (hostapd_helper)                  -> channel_manager
                         (ap_manager_service)              -> channel modules

| component | state | operations | hard because of |
|---|---|---|---|
| `v2/main.py` (orchestrator) | announced modules by priority, processes, `shutdown_in_progress` | collect announcements, start level after level, stop | announcements published before it listens; signal handler against the shutdown listener |
| bus (`bus_broker`, `bus_client`, `bus_trace`) | subscriptions, sequence numbers, queues | publish, subscribe, receive loop, trace, stop | loss at the high-water mark or before a subscription; publishing from several threads |
| `bluetooth_manager`, `bluetooth_ui` | discovery, pairing and autoconnect flags; lists of a window | discover, pair, confirm, connect, autoconnect | GLib thread, worker threads, time limits against late answers; copies of what BlueZ knows |
| `rfcomm_handshake` | `_state`, pending socket, credentials | RFCOMM connected, hostapd ready, five-message handshake | the handshake thread outlives its connection |
| `hostapd_helper`, `ap_manager_service` | access point parameters, request state; two daemons and a monitor | start and stop the access point, D-Bus signals | signals against replies; one of the two daemons dies; a start that fails halfway |
| `tcp_server` | `_server`, `_relay`, `_cryptor`, `_assembler`, `_server_starting`, `_restart_pending` | handshake completed, accept, relay, frame send, TLS, restart, teardown | relay thread and bus thread share all of it without a common lock |
| `tcp_server/frame_codec.py` | the partial messages per channel | encode, feed, reset | interleaved channels; a reset between two frames |
| `oaa_control_channel` | `_handshake` and its state, `_cfg` | the messages of channel 0, TLS progress, channels ready, configuration change, service discovery | messages of an ended session; restart in mid-handshake |
| `channel_manager` | `_session`: launcher, expected and ready channels, two events | open channels, ready messages, shutdown, crash monitor | a wait thread per session, a monitor, children of two sessions under the same names |
| channel modules | `_channel_open`, stream state, player and capture processes, buffers | start, stop, open, close, frames | frames after the end of a session; buffers and threads that outlive a stream |
| `audio_manager` | devices, the user's choice, volumes | list, choose, fall back, set | three threads on one dictionary |
| `video_ui` | connection label, page, pipeline | frames, states, decoded pictures | three threads; messages that overtake each other |
| `config_manager`, `ConfigClient`, `config_ui` | registered schemas, files; copies and forms | register, get, set; edit, save, reload | a crash while a file is rewritten; copies that overlap |
| `log_viewer`, `zmq_trace`, `shared/logger.py` | queues, buffer, counters | log, trace, filter, report | bounded queues and views, an end at any moment |

`app/`, `services/wireless_daemon.py`, `services/media_renderer.py` and
`bus_broker.py` in the root are version 1, which `v2` does not start. The
complete list of parts, modelled or not, is in `PROJECT.json` under
"components", the places where things can go wrong under "hazards".

What makes each component correct:

- channel_manager: the children of two sessions never coexist, none outlives the
  manager, `channels_ready` and `channel_manager.stopped` are true when they go
  out, every session gets ready or ends.
- tcp_server: one connection at a time, every end of a connection is announced
  or part of a restart, a restart completes.
- frame codec: only whole messages come out, and all of them.
- oaa_control_channel: services are told when they run, and a session comes up
  again after a configuration change, with the channels the user has saved.
- bring-up: a phone is sent the key of the network that is up, on its own
  connection; nothing of an access point is left after the teardown.
- orchestrator: every module that announces itself is started after those of the
  levels below and stopped in the end.
- bluetooth_manager: a pairing is accepted for a reason, calls are reported, a
  stop is heeded, the window keeps up.
- config_manager: a store that changes by one valid value at a time, unless a
  write is cut off; copies and forms follow it.
- media: what is heard and seen is of the current stream, the user's choice of a
  device wins, a closed channel is quiet.
- bus and its watchers: alarms about lost messages are true, trace counts add
  up, the log window shows the latest records.

## 2. Modules

| module | models |
|---|---|
| `ChannelManager` | `channel_manager` and the child's side of its protocol (`base_channel_module.py`) |
| `TcpServer` | life cycle of `tcp_server/main.py`, with `server.py` and `frame_relay.py` |
| `FrameCodec` | `frame_codec.py`, `decrypt()` of `aa_cryptor.py`, `_on_raw_frame()` |
| `ControlChannel` | every handler of `oaa_control_channel` that changes its state |
| `AASession` | `ControlChannel` composed with the phone and with tcp_server and channel_manager as it sees them |
| `RfcommHandshake`, `HostapdHelper`, `ApManager` | the three programs that bring up the Wi-Fi of a phone |
| `WifiTopics`, `WifiBringUp` | the bus between the first two, and the composition of all |
| `Boot` | `v2/main.py` with what all modules do at start and stop |
| `SettingsStore` | abstract: what config_manager promises for the settings of a module |
| `ConfigSchema`, `ConfigManager` | validation and conversion of values; the file, its writes and the handlers |
| `Configuration` | config_manager composed with a module and its form, how config_ui comes to show the module, and the refinement of `SettingsStore` |
| `ServiceDiscovery` | schemas and messages of protobuf descriptors (`proto_utils.py`); the response to the phone, what the launcher makes of it |
| `Forms`, `Services` | the widgets of config_ui as a tree of values; the channels from the form to the modules that serve them |
| `Pairing`, `PairedDevices` | pairing; connections, with the autoconnect loop, of `bluetooth_manager` |
| `FoundDevices`, `BluetoothWindow` | discovery, and the two lists of `bluetooth_ui` with the handlers behind them |
| `BluetoothManager` | their composition on one adapter |
| `ChannelFeed` | what a channel module hears, and in which order |
| `AudioChannel`, `MicChannel`, `InputChannel` | the channel modules; volumes with the first, sensors with the last |
| `VideoScreen` | the video channel with `video_ui` |
| `AudioManager` | `audio_manager`: the choice of devices |
| `MediaChannels` | their composition |
| `BusClient`, `BusTrace`, `LogBus` | numbered messages, the trace of a client, log records up to the window of log_viewer |
| `MessageBus` | the three together |
| `SessionProofs` | theorems about `ChannelManager` and about `AASession` |
| `TcpServerProofs` | theorems about `FrameCodec` and about `TcpServer` |
| `WifiBringUpProofs`, `BootProofs`, `ConfigurationProofs`, `BluetoothProofs`, `MediaChannelsProofs`, `MessageBusProofs` | theorems about the module they are named after |
| `MC...` | instances whose constants are functions or records; the other modules are run as they are, with the values in the configuration file |

An operator whose comment begins with "Fault:" is a variant of the operator below
it with a plausible mistake. No specification uses it: replacing the correct
operator by it must break the property it is kept for, which shows that the
property depends on that code. Each bound on the environment (connections,
edits, faults) is a constant named `Max...` and stands in the guard of the action
it bounds, or is part of a *scenario*: a record chosen in the initial state that
says what may happen in a behaviour, so that one run covers several instances.

### ChannelManager

The variables `session`, `active`, `procs`, `expected`, `known`, `toStart`,
`ready`, `live`, `acked`, `evStart` and `evReady` are the fields of
`ChannelManagerSession`, one instance per session. There is a program counter
for the bus thread (`bpc`), for the wait thread of each session (`wpc`) and for
the crash monitor (`mon`). Each handler is an action; a `shutdown()` is two, as
it blocks in `stop_all()` while children, monitor and the other thread go on.

A child has a phase, the messages it has published, how many of them the bus
thread has handled, and the broadcasts it has not handled. Its name does not
contain the session: the model's messages carry none, and a handler books them
under the session that is current, as in the code.

A scenario says which channels are offered, how many sessions there are and
what may go wrong: a child slower than the time limit, a crash, `Popen` failing
in the middle of the list ("spawn": any `OSError`, "missing":
`FileNotFoundError`, which the code treats differently), and a thread switch
between test and use of `_session` ("preempt").

### TcpServer

The four globals hold the number of the connection they were made for. Each
handshake that is not ignored starts thread `i`; `wpc[i]` follows
`_start_server()` line by line, and `tear[a]` follows `_teardown()`, run by
thread `i` or by the bus thread, with a step for each test, use and assignment
of a global, as those are where the two threads meet. `on_aa_session_restart()`
is followed the same way. Timing: a thread in its teardown finishes before a
phone has gone through a TCP handshake and before the three seconds of a restart
are over (`Unwinding`). `overlaid` tells whether a handshake has completed while a
thread was in its teardown, and whether another one has followed: the end of that
teardown takes away what the new server has set, and the next handshake is served
beside it.

### FrameCodec

A payload is a sequence of units, `FRAME_SIZE_THRESHOLD` is `Chunk` units, a
ciphertext is the plaintext under another name and one unit longer. The relay
thread feeds and publishes in steps, with the dictionary look-up and the deletion
apart, because the bus thread may reset the assembler in between.

### ControlChannel, AASession

A handler takes a message and appends what it publishes to the queue of the process
that listens. Between two processes messages are FIFO, between publishers any
interleaving is possible, which is what ZeroMQ gives. The configuration is a version
number, and a service discovery response carries the version it was built from. A
ClientHello has a number, so that bytes of one TLS handshake can be told from those
of another. What the phone sends after TLS is encrypted, and tcp_server publishes it
if `decrypt()` returns it; it does or does not (`decrypts`), which the initial state
says. With the `decrypt()` of the code no session comes up (section 5), and what
follows is seen with one that works; the other models take the messages of the phone
as decrypted. For the rest tcp_server does what `TcpServer` shows, channel_manager
opens, reports and fails as in `ChannelManager`, without the defects found there.
Timing: three seconds are enough for what is under way to be delivered (`Drained` in
`TcpRestarted`), and a phone takes longer than that to come back (`PhoneConnects`).

### RfcommHandshake, HostapdHelper, ApManager, WifiBringUp

`cpc[c]` follows the thread that BlueZ's `NewConnection` starts for connection
`c`, `hs` the handshake thread, `rpc` the bus thread; regions under `_state_lock`
are one step, and the write of `_credentials`, which is outside of it, is a step
of its own. In `HostapdHelper` the bus thread (`hpc`) and the GLib thread share
the parameters of the access point. `ApManager` follows `_start_ap()` command by
command: each may fail or be interrupted by SIGTERM, and what it has set up by
then (interface, files, daemons, monitor) is state. A start has a number, and so
has the key it generates: which key a phone gets can be told. A message that
nobody has subscribed to yet is lost (`WifiTopics`).

### Boot

The orchestrator begins with nothing running and its signal handlers installed. A
launch is two steps, of the broker and of a module alike: there is a process, and
then the handler knows it (`broker_proc`, `listed`). `main` follows the main thread
of the orchestrator, `listener` the thread that waits for `system.shutdown`,
`proc[m]` a module process. The signal handler runs in the main thread between any
two of its steps. `heard` and `lost` are the announcements that came while the
orchestrator was subscribed, and the others.

### ConfigSchema, ConfigManager, Configuration, SettingsStore

A value is a record of its Python type and what it stands for, so that `10` and
`"10"` differ. `writing` is the write under way. The file is truncated first and
then written piece by piece; when the write fails or is cut off the beginning of it
may be left (`Torn`): some of the settings in the order of the file, and of the last
one nothing or a part, as a number cut short is a number. A module has a copy,
config_ui a form with the values it believes to be stored (`original`), what stands
in the fields and which are marked. `Configuration` implements `SettingsStore` under
`config <- Settled`: the settings are those of the file, except during a write,
where they are still the old ones. Every step of the detailed specification sets one
valid value, writes the defaults, or leaves the settings as they are, and one that
ends a write without completing it leaves the old ones or a beginning of the new.

### ServiceDiscovery, Forms, Services

A descriptor is data: label, type, and the fields of a message. `SchemaFields`,
`ToProto` and `Seen` are `schema_from_proto_message()`, `dict_to_proto()` and what a
reader of the message makes of it, with presence of optional fields. The descriptor
of a channel keeps one field of each shape that the real one has, among them the two
oneofs that a channel reaches, in `CarPropertyValue` and in `CarControl`, which
contains itself by way of a group. `schema_from_proto_message()` ends at a message
it is already inside of, so that the cycle is a tree, and the descriptor is unrolled
as far. A form is a tree of widgets; that of a oneof has a choice and the widget of
the branch chosen. `Given` is what `get_value()` returns for it, and a gesture
changes one widget. `Services` follows the list of channels from the form through
the file and oaa_control_channel to the modules that channel_manager starts
(`LaunchList`: the channel, the module chosen for it and the kind it takes itself
for).

### Bluetooth

`Pairing` has one worker per confirmation, the agent's event, flag and pair of
D-Bus callbacks that they share, and the dialogs on the screen. `PairedDevices`
has a call of `Connect()` per caller, with reply, error and watchdog in steps of
test and set, and follows the autoconnect loop; the old and the new thread of a
stop and start may overlap. `FoundDevices` has sessions of the discovery, the
findings on their way and the list. `BluetoothWindow` starts with
both modules at their boot. Pairing shares no variable with the rest, so a
behaviour is seen from one of four sides (`side`).

### Media

`ChannelFeed` gives the order of messages: opening and closing by
channel_manager, the end of the session by oaa_control_channel, frames by
tcp_server until it hears of that end. A behaviour follows one channel, chosen by
the scenario; its process is new in each session, `audio_manager` and `video_ui`
live on. A piece of sound or a picture is the number of its stream. Threads: in
`AudioManager` the bus thread, the polling and the udev thread, which list the
devices and fall back in steps of their own; the user's choice (`wanted`), what
audio_manager takes for it and the devices there are are three things; in `MicChannel`
a reader thread per capture; in `VideoScreen` bus, Qt and decoder thread.

### Message bus

`BusClient` numbers a message in one step of its thread and sends it in another,
as `publish()` does. `BusTrace` follows an event from `emit()` to the report.
`LogBus` follows a record from the logger through four queues to the window.
`MessageBus` puts them side by side: they share no socket.

## 3. Runs

Deadlock is not checked in any run: the modules wait for a phone that may never
come, the bounds on connections, edits and messages are used up, and
`system.stop` ends a process.

| run | instance | shows |
|---|---|---|
| `channel_manager_sessions` | one channel, two sessions, with time-out, crash and failing `Popen`; and two channels, one session, every fault | children of two sessions never coexist, `stopped` is true, no child outlives the manager; `channels_ready` is true and each session gets ready or loses its children |
| `frame_codec_relay` | two channels, two messages of 1, 2, 3 or 5 units in chunks of 2, one restart | only whole messages are published, a restart costs what was on its way and nothing else, everything arrives |
| `frame_codec_f_decrypt` | one encrypted message of 1 or 3 units | **violation**, see section 5 |
| `tcp_server_restart` | three connections, two restarts, `system.stop` with up to two connections; the port, the phone and the network may fail | one server unless handshakes follow one in a teardown, ends are announced, a restart completes |
| `aa_session_sessions` | two connections, two configuration changes, a ping, quits, failing channel modules; `decrypt()` works or is that of the code | services are told when they run, no modules are left behind, a phone that stays gets a session with the configuration of now, if what it encrypts can be read |
| `wifi_bring_up` | two connections of phones, two starts of the access point, one fault of any kind, `system.stop` | a handshake owns its socket, the key sent is that of the network, the teardown leaves nothing, a pending phone is served |
| `boot_levels` | the broker and three modules at levels 0, 1, 2 that may be late or crash, shutdown by window or signal | levels in order, nothing left at the end but what was being launched, who is heard is started, the shutdown completes |
| `configuration_saves` | an `int` and an optional message in the file; three edits, two saves, a reload, a write that fails, a restart of config_manager, either of which may leave the beginning of a write | copy and form follow the file; config_manager implements `SettingsStore` |
| `services_saves` | files with one default channel of each shape, with the car's controls and their oneofs, or with video and a row to fill in; two gestures, two saves | an untouched form costs what the file holds for a oneof and nothing else, what is told is served, a sensible form becomes the session |
| `bluetooth_connections` | two devices; two starts and a stop of the loop, two discoveries and a foreign one, two confirmations, a pairing, a cancel, four clicks, two searches | a pairing is answered for a reason, the window keeps up, a stop is heeded, calls are reported |
| `media_channels` | fifteen scenarios: sound with and without AAC, a user's choice between two devices that come and go, a failing listing, volumes, a dying player; microphone; video with each decoder; input; sensor | sound and picture are of the current stream, sound is on the device the user has chosen, the label is right, a closed channel is quiet |
| `message_bus` | two modules with three publishing threads, queues of two, three messages, a second launch; four trace events; three log records, limits of one and two lines | alarms are true, the trace adds up, the window shows the tail |

The bounds are the least with which the interesting cases occur. Two sessions,
connections, streams or starts are needed for anything stale to meet something new;
a third adds no new kind of meeting. `TcpServer` needs three: one whose thread is in
its teardown, one that completes its handshake meanwhile, and one that is let in
beside it. After `system.stop` two are enough (`MaxStopped`), as what a third one
does is over with the process. Two devices are needed for one to be chosen while
another is fallen back to. One channel is enough for the generations, as the
children of a session do not interact, and two are needed for "all are ready". Sizes
1, 2, 3, 5 with chunks of 2 are one frame, exactly one full frame, FIRST with LAST,
and FIRST, MIDDLE, LAST. A queue of two, or a view of one line, can be full and can
have room again. Three modules are enough for a level below, a level with the
channel manager in it and one above. In `services_saves` a file has one row of each
shape because the rows of a form do not interact but by their number and their
order, for which the file with two rows stands.

What a property excepts is part of its statement. `SessionKept` leaves out
`FileNotFoundError` and a thread switch between test and use of `_session`;
`OneSession` restricts what is said of a startup to a single session; `OneServer`
what a handshake in the middle of a teardown leads to (`overlaid`);
`ClosedUnlessRestarted` an end after a restart has begun (`restarted`);
`SessionComesUp` supposes that what is encrypted can be read (`decrypts`) and
excepts a change that comes during a restart (`hasty`) and a ping before the answer
(`early`); `NothingIsLeft` excepts the one process that was being launched when the
signal came; `OneSettingAtATime` and `TypeOK` of `Configuration` say what a write
that failed or was cut off may leave (`spoilt`); `UntouchedFormIsHarmless` leaves
out what the file holds for a oneof; `SoundFollowsChoice` excepts a choice made
before a refreshment in progress has fallen back, a device that has been gone and a
listing that has failed (`Excuses`), and the sound after pacat or pw-cat has died
(`playerDeaths`, `micDeaths`); `AlarmsAreTrue` a module whose numbers were overtaken
(`overtaken`); `WindowKeepsUp` a search that the module has ignored (`ignored`);
`CopyFollowsFile` and `FormFollowsFile` a failed write (`lost`) and the fields whose
save was refused or overtaken (`doubtful`); `AnsweredForAReason` confirmations that
overlap (`entangled`); `TornDown` and `SentKeyIsCurrent` the faults of `trouble`;
`PendingServed` a message nobody had subscribed to. These flags are set by the
action in which the code does what section 5 describes, so that each exception is a
listed deviation and not a convenience.

### Fairness

- ChannelManager: threads and children are scheduled, a wait ends by its time
  limit at the latest, `stop_all()` terminates and then kills, main.py answers
  `system.shutdown` with `system.stop`. Nothing is fair about the phone (opening,
  shutdown, restart) or about crashes.
- FrameCodec: the relay thread reads on, the bus thread completes its handler.
- TcpServer: threads go on (`accept()` has a time limit), a handler that has
  begun completes, a queued answer is handled.
- AASession: every process handles what it is sent, the phone answers, the
  channel modules report. Nothing is fair about pings, quits, connections,
  configuration changes.
- WifiBringUp: the threads of the three programs are scheduled, D-Bus calls
  return or time out, and so does a read of the RFCOMM socket, which has a time
  limit. Nothing is fair about phones, faults and `system.stop`.
- Boot: main thread, listener and module processes are scheduled; every wait of
  the orchestrator has a time limit. Nobody has to ask for the shutdown.
- Services: every process handles what it is sent (`WF_vars` of `Program`).
  Nothing is fair about the user and the phone.
- BluetoothManager: loops, watchdogs and discovery sessions go on, as their waits
  have limits. Nothing is fair about BlueZ, which may never reply, nor about
  users.
- MediaChannels: every thread goes on and the polls of audio_manager repeat; a
  channel whose session has ended is closed. Nobody has to plug in a device, to
  choose one, to speak, or to end a session.
- Configuration and MessageBus: none. Their properties are invariants and a
  refinement, which is about steps only.

## 4. Theorems

Eight modules hold theorems; each extends the composition it is about
(`SessionProofs` and `TcpServerProofs` two modules each), hence has its variables,
its next-state relation and its assumptions. Every inductive invariant was given to
TLC on the instance of the run before it was proved, that of `FrameCodec` with clear
and encrypted messages mixed.

| module | theorem | statement |
|---|---|---|
| `SessionProofs`, of `ChannelManager` | `TypeCorrect` | `Spec => []TypeOK` |
| | `BookkeepingCorrect` | `Spec => []Bookkeeping` |
| | `StoppedMeansExitedCorrect` | `Spec => []StoppedMeansExited` |
| | `LiveChildrenAreCurrentCorrect` | `Spec => [](SessionKept => LiveChildrenAreCurrent)` |
| | `SingleGenerationCorrect` | `Spec => []SingleGeneration` |
| | `NoOrphanAtExitCorrect` | `Spec => []NoOrphanAtExit` |
| | `ChannelsReadyMeansAllReadyCorrect` | `Spec => ChannelsReadyMeansAllReady`, of one level |
| of `AASession` | `SessionTypeCorrect` | `SessionSpec => []SessionTypeOK` |
| | `ChannelsFollowSessionCorrect` | `SessionSpec => []ChannelsFollowSession` |
| | `SdrWhenChannelsUpCorrect` | `SessionSpec => SdrWhenChannelsUp`, a property of steps |
| `TcpServerProofs`, of `FrameCodec` | `WholeOrCiphertextCorrect` | `Spec => []WholeOrCiphertext`, whatever is encrypted |
| | `OnlyWholeMessagesCorrect` | `Spec => []OnlyWholeMessages`, in the clear or without a restart |
| | `ResetSparesTheClearCorrect` | `Spec => []ResetSparesTheClear`, whatever else is encrypted |
| | `ResetCostsOnlyInFlightCorrect` | `Spec => []ResetCostsOnlyInFlight`, in the clear |
| of `TcpServer` | `ServerTypeCorrect` | `ServerSpec => []ServerTypeOK` |
| | `OneServerCorrect` | `ServerSpec => []OneServer`, for any number of connections |
| `WifiBringUpProofs` | `TypeCorrect` | `Spec => []TypeOK` |
| | `HandshakeOwnsSocketCorrect` | `Spec => []HandshakeOwnsSocket` |
| | `TornDownCorrect` | `Spec => []TornDown` |
| | `SentKeyIsCurrentCorrect` | `Spec => SentKeyIsCurrent`, a property of steps |
| `BootProofs` | `LowerLevelsFirstCorrect` | `Spec => []LowerLevelsFirst` |
| | `NothingIsLeftCorrect` | `Spec => []NothingIsLeft` |
| `ConfigurationProofs` | `SettingsTypeCorrect` | `Spec => []TypeOK` |
| | `OneSettingAtATimeCorrect` | `Spec => OneSettingAtATime`, the refinement of `SettingsStore` |
| | `CopyFollowsFileCorrect` | `Spec => []CopyFollowsFile` |
| | `FormFollowsFileCorrect` | `Spec => []FormFollowsFile` |
| `BluetoothProofs` | `AnsweredForAReasonCorrect` | `Spec => []AnsweredForAReason` |
| | `WindowKeepsUpCorrect` | `Spec => []WindowKeepsUp` |
| `MediaChannelsProofs` | `ClosedIsQuietCorrect` | `Spec => ClosedIsQuiet`, a property of steps |
| | `SoundIsOfThisStreamCorrect` | `Spec => []SoundIsOfThisStream` |
| | `LabelTellsTheStreamCorrect` | `Spec => []LabelTellsTheStream` |
| | `PicturesAreShownCorrect` | `Spec => []PicturesAreShown` |
| `MessageBusProofs` | `BusTypeCorrect` | `Spec => []BusTypeOK` |
| | `AlarmsAreTrueCorrect` | `Spec => []AlarmsAreTrue` |
| | `TraceAddsUpCorrect` | `Spec => []TraceAddsUp` |

### From which assumptions

The assumptions on the constants are those the modules declare and TLC evaluates:
bounds are natural numbers, a limit is not zero, a model value is no member of the
set it stands beside, the defaults of a schema satisfy it; the keys of a schema and
the devices of BlueZ are finite sets, as they are the keys of dictionaries. The
bounds have no upper limit, and the sets of modules, channels, devices, settings and
scenarios are arbitrary. Two assumptions are stated by the theorems that need them:

- `OneLevelOnly` (`ChannelsReadyMeansAllReadyCorrect`): the children of a session
  have one priority. All channel modules of the tree have `PRIORITY` 1. With
  several levels the statement is false, as a level that timed out is forgotten
  when the next one succeeds (section 5).
- `InTheClear` (`ResetCostsOnlyInFlightCorrect`, and `OnlyWholeMessagesCorrect`
  unless there is no restart): the messages are not encrypted. Without it the two
  statements are false: an encrypted message is not published while the cryptor is
  active, which is the violation of section 5, and is published as the ciphertext
  that came while it is not, which a restart makes it. What is true of encrypted
  messages and of a mixture, which is what a phone sends, needs no assumption:
  `WholeOrCiphertext` (whatever is published is a whole message as it was sent, or,
  after a restart, the whole ciphertext of an encrypted one) and
  `ResetSparesTheClear` (`ResetCostsOnlyInFlight` of the messages in the clear).

The exceptions of section 3 (`SessionKept`, `overlaid`, `lost`, `spoilt`,
`doubtful`, `entangled`, `ignored`, `trouble`, `overtaken`) are part of the
properties, here as there.

### Along which arguments

**ChannelManager.** `SingleGeneration` is not inductive: nothing in it says why
`OpenChannels` may spawn. What says it is that the launcher of a session holds
every live child (`Bookkeeping`), so that `stop_all()` returns only when none is
left, and that the session the bus thread shuts down first is the only one with
live children (`LiveChildrenAreCurrent`). The latter depends on the wait thread
resetting `_session` only after its own `stop_all()`, hence on test and store
being one step, and fails when a session object is dropped with processes that
are already running; these are the two faults that `SessionKept` leaves out.
`TypeOK /\ Bookkeeping` is inductive with all faults; with
`LiveChildrenAreCurrent` and `NoThreadAtStore` it is inductive under
`SessionKept`, which no step changes. `ChannelsReadyMeansAllReady` adds what the
wait thread has heard at each point of a startup (`Startup`).

**AASession.** `ChannelsFollowSession` is about a moment when all queues are empty;
what makes it true is spread over six queues before. A handshake runs in a ring of
processes, and what is on its way tells how far it has come: the versions
(`Young`), TLS (`Shaking`, `Secured`), the request for the services (`Late`).
Restarts and new connections may put several handshakes into the ring, but each
ClientHello replaces the cryptor, so that only the bytes of the last one lead on,
and whatever is younger is behind them (`Order`). Hence TLS completes for one
handshake when no other is in an earlier stage (`Stages`), which asks for the
services once (`LateOnce`), after one confirmation of TLS in each direction
(`Confirming`, `Confirms`). Each step moves one message to the next queue, as
itself or as its answer (`MoveRing`), loses messages (`FewerRing`) or starts a
handshake. While a handshake is in the ring channel_manager has nothing open and
nothing to open (`QuietBefore`), for which a restart on its way to tcp_server
must be followed by a request for the version (`Restarts`), and the end of a
connection must be heard before the next one begins (`Gone`). Then the last
message on its way to channel_manager is the request of the handshake that is past
it, or nothing will be open (`Follow`), and a handshake that waits for its
channels has one of four pictures before it (`Awaits`), only one of which lets it
answer the phone.

**FrameCodec.** The proof follows the messages as they are carried (`carried`), an
encrypted one as its ciphertext. What is under way of a channel are the frames of
some of its messages from some frame of one of them on (`Wired`), and the buffer of
the channel holds what has been read of the message whose frame comes next
(`Assembles`). Frames of other channels in between change neither. A message
sent in the clear after the last reset is published, in hand, under way, or partly in
the buffer (`Keeps`); a reset starts that count afresh and leaves frames that no
FIRST precedes, which the assembler ignores. Ciphertext is published only by a relay
that finds the cryptor deinited, hence after a restart (`CiphertextTellsRestart`).

**TcpServer.** The guard of `on_handshake_completed()` asks whether a server is
starting or there is one, so what has to be shown is that it sees every
connection that is there: `_server` is the connection that is served or has just
ended, or `_server_starting` is set for it (`Kept`). A `_teardown()` could take
either away. That of the thread of an earlier connection can when a handshake
completes in the middle of it, which `overlaid` tells; the connection that was let
in then is still the only one (`Single`), and the property says nothing of what the
next handshake does. Before that, such a thread is gone while a connection is
there (`Alone`). The `_teardown()` of the bus thread can take it away as well, but
then the bus thread is being stopped and completes no other handshake, unless
it raises and goes on; it does not raise when a connection is there, because nobody
else drops what it has found (`Undropped`). Types are
needed for one thing that is not obvious, that `_teardown()` has no step in which
`_cryptor` is dropped alone.

**WifiBringUp.** The pending socket is open, and its thread is past the choice to
take it (`SocketsKept`). For the teardown, the mode tells what is up, and what is
up when nobody waits for it is what hostapd_helper believes (`ModeTells`), unless
hindered. For the key: the network stays what it is between two starts
(`NetworkStays`), and wherever a key is kept or on its way it is that of the
network that is up (`KeysAreCurrent`).

**Boot.** A module hears of a level only after those below have passed (`InOrder`,
with `LoopsOn` for where the loop is), where a level passes when its modules
are ready or have ended, or when it is given up. The orchestrator knows every
process it has launched (`Known`), and its main loop ends only after the listener
has terminated them (`Terminated`). A signal comes between two steps of the main
thread, which launches one process at a time and the broker before the modules
(`OneByOne`): what the handler does not know is that one.

**Configuration.** A write under way makes one step of what was in the file, and
so does the answer that follows it (`OneStep`, `Stored`); under the mapping
every step of the detailed module is then a step of `SettingsStore` or a stutter. What
is left of a write can be read as values of some type (`Readable`), from which
config_manager and the form go on; that all of them are valid holds until the first
such write (`ValidInv`).
For the copy: the last message on its way that concerns a setting brings its
value, and where there is none the copy has it (`Telling`). For the form, per
field: a set that no reload follows was sent when the form had that value; the
last settings on their way are those the file will have; with nothing on its
way the form is right (`FieldInv`). These speak of the last element of a queue
with some property, for which the module proves what appending and removing do.

**Bluetooth.** As long as no confirmations overlap only one thread of a
confirmation runs, it is that of the last request, and the agent holds its
passkey and callbacks (`OneAtATime`, `Own`); what it is about to answer has been said
(`Justified`). The window: a device that was removed is still to be taken off the
list and off every list on its way (`WindowInv`, with `RemovedAfter`); what the last
session found is in the rows or on its way to them (`ScanInv`).

**MediaChannels.** Whether a state is a good one depends on what is on its way.
`Leads(T, Q, a, s, b)` says that an automaton with transitions `T` comes from `a`
to `b` reading the messages `s`; lemmas say what one message more or less does.
Three automata are used: the phone's protocol reads the messages of a channel
(`Fed`), so that a frame is handled only in the states that fit; one that
knows whether the stream plays reads the news on their way to the window
(`Shown`), and one that knows the label reads its queued calls (`Tells`).
`ClosedIsQuiet` and `SoundIsOfThisStream` rest on what the threads of a capture may
be doing when they are stopped and started (`OneReader`, `OfThisCapture`).
`PicturesAreShown` rests on the order of hidings and pictures over the two queues
and the pipeline (`LastWord`): a hiding is heard before every picture of the stream
that plays, as streams are numbered when the state that hides is sent
(`Numbered`), unless the end of the session is announced and the channel has not
heard of it (`Ending`).

**MessageBus.** What a subscriber will report is computed over the messages on
their way (`Foreseen`), a function on `0..Len(wire)`: all that it will
call missing are numbers that were lost, and the numbers of the first life of a
module ascend (`Explained`). The trace is a sum in which every step moves one
event from one term to another, or leaves it (`TraceInv`).

### What is only model-checked

- Liveness, as the prover handles neither fairness nor `ENABLED`:
  `SessionResolves`, `EverythingArrives`, `RestartCompletes`, `SessionComesUp`,
  `PendingServed`, `HeardIsStarted`, `ShutdownCompletes`, `SessionOffersTheForm`,
  `StopIsHeeded`, `CallsAreReported`, `SoundFollowsChoice`, `ClosedUnlessRestarted`.
- `UntouchedFormIsHarmless` and `ToldIsServed`: `Forms`, `ServiceDiscovery` and
  `Services` are about recursive data (schemas, forms, messages), for which
  induction is not available to the installed provers. `ViewIsTheTail` is about a
  fold over the records, for which the same holds.

## 5. Deviations

One run ends in a violation: `frame_codec_f_decrypt`. `AACryptor.decrypt()`
(`tcp_server/aa_cryptor.py`) returns `b""` whatever the record holds, as it
extends its result after the loop with the empty chunk that ended it. No
encrypted message is published. The unit test of that function expects the
plaintext.

What follows was seen while the models were written. The models contain the
behaviour, unless it says otherwise; the properties except it (section 3).

**channel_manager.** The wait thread of a session that was ended while it started
up times out after the next one has begun and runs `shutdown()` again: its
`module_stop` is a broadcast, ends the children of the next session, and the
monitor closes the application. `module_ready` and `module_ready_to_start` of an
old child count for the session that is current. The acknowledgement of a stop
is published as `name` and read as `module_name`, so none is ever recorded
(`AckedName`). `FileNotFoundError` leaves children without a session, and a
thread switch between test and use of `_session` lets the wait thread forget a
new one or the monitor end on `None`. With several priorities, a level that times
out is forgotten when the next one succeeds, as `ok` is overwritten.

**tcp_server.** While `_restart_pending` is set, `_on_session_closed()` returns at
once: a connection that ends within the three seconds of a restart is not torn down,
and every later handshake is ignored because `_server` is still set.
SHUTDOWN_RESPONSE is awaited on the thread that would handle it, so it is never seen
in time. `tcp.session.connected` goes out before `_relay` is set, so the answer may
be dropped (`SendFirst`). Two teardowns may meet, and that of `system.stop` raise
(`TearFails`). `_teardown()` resets `_server_starting` last, and drops `_server`
before: a handshake that completes in between is served, loses its flag to the end
of that teardown, and a third one is served beside it (main.py:412). Frames that an
ended session has queued are sent in the clear to the next one, and ciphertext that
was on its way at a restart is published as it is. `join()` gives up after three
seconds.

**oaa_control_channel.** With `decrypt()` as it is the request for the services does
not arrive, and no session comes up: the assumption `decrypts` of `SessionComesUp`.
Two values that are saved at once lead to two restarts, the
second of which overtakes the handshake of the first (`hasty`; main.py:179).
A ping in WAITING_CHANNELS makes the session active, and `channels_ready` is then
ignored (`early`). When the channel modules do not start nobody is told.
`channels_ready` of an ended session is kept from the next handshake only by the
three seconds of the restart. What arrives before the first subscriptions is lost.

**Bring-up.** The documentation of `APFailed` speaks of the death of a daemon, which
is never signalled; when one of the two has died `Stop()` is refused and the
other one stays. SIGTERM in the middle of `Start()` leaves what was set up.
A message that is published before its subscription leaves a phone pending.
Any CONNECT_STATUS counts as success. An empty configuration ends
`_on_config_loaded()` before `system.ready` in hostapd_helper, audio_manager,
log_viewer and zmq_trace.

**Orchestrator.** A module whose announcement comes before the subscription in
`_collect_module_ready()`, or after the window, is taken to be of level 1
(main.py:114), at which a module of another level does not start.
`system.readytostart`, which the same comment says is published, is published by
nobody. A signal that comes while a process is
launched, after `Popen` and before what it returns is stored (main.py:505 for the
broker), leaves that process: the handler finds `None`, or a list without it.

**Configuration.** A failed save is silent. The file is truncated and then
written piece by piece (main.py:130): a crash or a full disk leaves the
beginning of the settings, which may end in a number cut short or a key without
a value. That is not what `config_client.py:89` calls "persist atomically". What is
left is not validated: config_manager hands it out, and the form shows "0", an empty
box or the first choice in place of a value of another type. A file that
cannot be read, or of which nothing is left, is overwritten by the defaults.
A removed optional key is stored as null. Fields of an `int` with a step and
structured fields are saved again unchanged, which restarts the session. A reload
that is overtaken by a save, and a refused value, leave a form that is wrong
about what is stored. Structured values are stored without validation; a repeated
value that is no number leaves `dict_to_proto()` with an exception (`BuildFails`), and the
phone's request stays unanswered. A required field that is not set makes the encoding fail:
`encode_proto()` returns `b""`, and `open_channels` goes out with an empty response,
of which channel_manager makes nothing; the control channel waits for channels
that never come, and the phone is not answered either (`Encoded`). The widget of
a oneof looks for its value under the name of the group, while the file has it under
the name of the branch: the form never shows a stored branch, and
saving a form that nobody has touched drops it (`UntouchedFormIsHarmless` excepts what
the file holds for a oneof). A branch that is chosen in the form is stored under the
name of the group, which `dict_to_proto()` ignores, so that the phone is never
told. A channel without a module aborts every session
without a word; one that is skipped is offered all the same. Of several ticked
kinds the first wins, and two channels with one number configure themselves
from the first. The default microphone channel has a "codec", which its message
does not know. A list of modules that arrives before the window exists is lost.

**Pairing and connections.** Closing the dialog tells nobody, and nobody publishes
`reject_pairing`. Overlapping confirmations lose the D-Bus callbacks of one of
them, stale dialogs stay in front. The watchdog of a connection reports a
cancellation and cancels nothing; reply and watchdog may both report. An adapter
reset drops connected phones. A request to connect automatically is ignored
while the old loop ends. The window is not told of phones that come, go or pair
by themselves. The search button empties the list before the request, which may
then be ignored, so that devices already found are not listed again. The
error "Adapter not ready" cannot be published: its handlers are subscribed when
there is an adapter.

**Media.** After the reader of the microphone has died, its retry joins the thread
it runs on, raises, and the microphone stays silent. Captured sound is sent only
when the phone says something. A prebuffer that is not full when the stream ends is
dropped. After a broken pipe the player is not opened again in that session, not
even when another device is chosen. The decoder for AAC is opened only for the codec
of the service discovery response. A new process plays on the default device until
it is told the choice. Channel volumes are not applied at the start, and one that is
set before the player runs is lost. A listing that fails or takes too long gives the
default device alone, and the user's choice is replaced by it although the device is
there; a refreshment that began before a choice may fall back after it, and the
choice is lost (`Excuses`). The choices a form offers are those there were when the
module registered its schema: a device that is plugged in later cannot be chosen. A
picture that is decoded after `set_streaming(False)` shows the video of a dead
stream. When the end of the session overtakes the state of the video the label stays
on INTERRUPTED. Frames are acknowledged with the session id of the moment.

**Input and sensors.** `on_channel_close()` leaves the bindings and the codec data
of the channel. The first ping resets an opened channel to IDLE although the log
says "input ready" (`channel_modules/input/main.py`), and touches are dropped. A
binding without a supported key forwards every key. Nobody publishes `input.touch`,
`input.key` or `sensor.*`, and the numbers the sensor module uses for its sensors
are not those of the protocol, so no reading is sent for an offered sensor.

**Bus.** A PUB socket drops silently: `zmq.Again`, and "publish DROPPED" with it,
never happens. Two threads may number and send in opposite orders, which is reported
as a gap and a duplicate, as is a module that is launched again. Gaps and errors of
callbacks are not counted as drops. The reporter makes one more report after the end
only if the stop finds it asleep and the process lasts long enough; otherwise the
last window of the metrics is lost. A record of several lines makes the log view
longer than `max_lines`. The queue of the drain thread is lost at the exit.
`publish()` after `bus.stop()` raises.

**Not in the models**, found while reading: a media body is first parsed as a
message and only then as time stamp and data, and some time stamps parse (the
byte 0x12 at the place of the tag). `on_frame()` of the wifi and bluetooth
channels is called with an argument it does not take; the second `ConfigClient`
of the wifi channel replaces its own handlers. The serializer's frame types
differ from those of `frame_codec.py`.

## 6. Not modelled

- Byte layouts, TLS records, certificates, codecs and time stamps are data the
  properties do not distinguish. This leaves out the parser of media bodies,
  `message_to_proto()`, `proto_explorer`, the generated `*_pb2.py` and the
  serializer.
- A ZeroMQ socket used from two threads at once is undefined; the models take
  one call of `send_multipart()` as atomic. Between the processes of one
  composition queues are reliable; loss at the high-water mark is in `BusClient`,
  loss before a subscription in `WifiTopics`, `Boot` and `Configuration`.
- The wifi and bluetooth channel modules keep no state that anybody relies on;
  `_template` is not started.
- Of pairing: `RequestPinCode`, which old phones use and which only tells the
  window a number; `_trust_device()`, which sets a property of BlueZ that nothing
  reads; `reject_pairing`, which nobody publishes.
- What a closed file holds is taken to be on disk when the power is cut. The model
  of a beginning of a file keeps whole keys and takes the rest of a word for a text,
  although YAML may read it otherwise (`nu`, `null`). Only the bus thread of
  config_manager opens the file, so nobody reads it while it is written.
- Of a message that contains itself one level is kept (`CarControl`), as
  `schema_from_proto_message()` goes no further.
- Layout, painting, shaders and wording of the user interfaces.
- Version 1, packaging and scripts are not part of the system that `v2` starts.

## 7. Plan

1. Abstract specifications of a channel service and of a TCP service, which
   `ChannelManager` and `TcpServer` implement, as `Configuration` does `SettingsStore`.
