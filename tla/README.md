# A formal model of PlexPaper

PlexPaper (`src/src/`, Rust, tokio) is a proxy that listens in front of one
Minecraft server, puts the server to sleep when nobody plays and wakes it when
somebody logs in. This directory holds TLA+ modules for its core, TLC runs that
check them on small instances, and TLAPS proofs, for every value of the
constants, of all the safety properties they check and of all four refinements.
Line numbers below are those of the files under `src/src/`.

## 1. Inventory

| Part | State it keeps | Operations | Interacts with |
|---|---|---|---|
| **Server cell** `server.rs` | `state` (an atomic), the `watch` channel, `kill_at`, `last_active`, `keep_online_until`, `status`, `pid`, RCON semaphore and cooldown, banned IPs, whitelist | `update_state_from`, `update_status`, `should_sleep`, `should_kill`, `start`, `stop`, `force_kill` | shared by every task through an `Arc` |
| **Server process** `server.rs` `invoke_server_cmd`, `os/mod.rs` | the child process, its pid, `crashed` | spawn, register, wait, take the pid, cool down, set Stopped, restart after a crash | started by `start`; signalled by `stop` and `force_kill` |
| **Monitor** `monitor.rs`, `service/monitor.rs` | the result of the last poll | status request, ping, `update_status`, sleep, kill | every poll interval, against the Minecraft server's port |
| **ctrl-c** `service/signal.rs` | none | stop the server, or exit | `Server::stop` |
| **Joining** `service/server.rs`, `join/*` | per client: the join method it is at, its `watch` receiver | route, start, kick, hold, forward | `Server::start`, the `watch` channel |
| **Client session** `status.rs`, `proto/packet.rs`, `proxy.rs` | read buffer, protocol state, `inbound_history`, two copy loops | read a frame, answer, log in, hand off, relay | the client's and the server's TCP streams |
| **Access lists** `service/file_watcher.rs`, `mc/ban.rs`, `mc/whitelist.rs` | banned IPs, whitelist; the directory watch | load, watch, reload, rescan | the files the Minecraft server writes |
| **Lobby** `lobby.rs`, `join/lobby.rs` | a fake game per client, keep-alive loop | login, play packets, wait, move to the real server | `watch` channel, probe results |
| **Probe, Forge** `probe.rs`, `service/probe.rs`, `forge.rs` | `probed_join_game`, `forge_payload` | connect as a client and record packets | Server cell |
| **server.properties** `mc/server_properties.rs`, `action/start.rs` | the file | rewrite, read a property | the Minecraft server, which loads and stores it; its operator |
| **Configuration, command line** `config.rs`, `main.rs` | ports, the java command, constants | `Config::runtime`, `build_command`, `java_args` | environment, everything else |
| Play packets, Windows API, favicon, errors, styles | – | encodings, constants, output | – |

What is hard here:

* **Concurrency.** Every connection, every spawned process, the monitor and the
  signal handler are tasks of a multi-threaded runtime over one object whose
  fields have a lock each. `update_state_from` is a swap, a send and a write of
  deadlines, in three steps; `update_status` reads the state and overwrites it
  later; `stop` copies the pid, signals, and only then changes the state.
* **Failure.** The Minecraft process may hang, crash, stop by itself, fail to
  spawn, or miss a poll; an RCON session may fail before or after its command
  got through; the file watch may break.
* **Timing.** Poll interval, start and stop timeouts, the 2.5 s quit cooldown,
  the idle time, the minimum online time, the RCON cooldown and the hold timeout
  all race.
* **Streams.** TCP cuts the bytes anywhere; what is read ahead of a login must
  reach the server once and in order.

What makes each part correct: *cell and process* – one Minecraft process at a
time, "Stopped" means that none runs, a deadline belongs to the current state,
a start and a stop end; *monitor* – only an idle server sleeps, an idle server
does sleep; *joining* – no wake-up is lost, nobody is held for nothing;
*session* – byte-exact hand-off however the stream is cut, no complete packet
left waiting; *lists* – memory follows the disk, and never lets in whom the disk
refuses; *poll* – it ends, and believes a server that answers and no other;
*lobby* – the client can read all it is sent, across the two connections that
become one; *server.properties* – Minecraft comes up where the proxy dials it.

The hazards, each with its line and the properties that watch it, are in
`PROJECT.json`.

## 2. Modules

```
ServerCell ── StopServer ─┬─ StartServer ── Joining ─┐
                          └─ Monitor ────────────────┴─ PlexPaper ── MCPlexPaper
SleepCycle (abstract) ◁── implemented by ── PlexPaper
PlexPaper ── PlexPaperProofs ── SleepCycleProofs

PacketStream ─┬─ PacketSession (abstract) ◁── implemented by ──┐
              └─ ClientSession ────────────────────────────────┴─ MCClientSession
PacketStream ── PacketStreamProofs ── ClientSessionProofs, StatusPollProofs

PacketStream ── StatusPoll ── MCStatusPoll

AccessLists ── MCAccessLists, AccessListsProofs

Compression ── Probe ── Lobby ── MCLobby, LobbyProofs
LobbyVisit (abstract) ◁── implemented by ── Lobby

ServerProperties ── Launch ── MCLaunch, LaunchProofs
PropertyMap (abstract) ◁── implemented by ── Launch
```

| Module | Models | Notes |
|---|---|---|
| `ServerCell` | the `Server` object, `update_state_from`, time | constants and variables of the whole core |
| `StopServer` | `stop`: freeze, RCON, SIGTERM; ctrl-c; signals | one action per access to shared state |
| `StartServer` | `start`, `invoke_server_cmd`, the Minecraft process | a process and the task that waits for it share a name |
| `Monitor` | `monitor_server`, `poll_server`, `update_status`, `should_sleep`, `should_kill`, `force_kill` | |
| `Joining` | `route` to a sleeping server, `start`, `occupy`, `kick`, `hold`, `forward` | |
| `PlexPaper` | all tasks together; properties; fairness | `service/server.rs` |
| `SleepCycle` | *abstract*: Wake, ComeOnline, Doze, Rest | what the proxy promises of a server |
| `PacketStream` | var-int lengths and frames | functions on sequences of bytes |
| `ClientSession` | `serve`, hand-off, `proxy_with_queue` | bytes and chunks |
| `PacketSession` | *abstract*: whole packets | what the proxy promises of a connection |
| `StatusPoll` | one poll of the monitor, byte by byte: `poll_server` and what it calls | what `FetchOk`, `FetchFail` and `Ping` of `Monitor` sum up |
| `AccessLists` | the file watcher, and the lookups at login | |
| `Compression` | the forms of a frame: plain, or compressed or not under a threshold | `proto/packet.rs`; functions |
| `Probe` | the probe, and the watch channel as a receiver sees it | `probe.rs`, `service/probe.rs` |
| `Lobby` | one lobby client, from the replayed Forge login to the relay | `lobby.rs`, `join/lobby.rs`, `forge.rs` |
| `LobbyVisit` | *abstract*: Enter, Connect, Move, Show, Leave | what the lobby promises a client |
| `ServerProperties` | `rewrite_contents`, `read_property` and the torn write; what Minecraft reads from the same lines | functions on sequences of lines |
| `Launch` | starts of the proxy, the rewrite, Minecraft loading and storing the file, the operator; ports and the java command | `config.rs`, `main.rs`, `action/start.rs` |
| `PropertyMap` | *abstract*: Set, Skip, Lose | what a rewrite may do to a file |
| `*Proofs` | | the proofs of section 5; `PacketStreamProofs` holds the lemmas on var-ints and frames that two of them rest on |

### How the core corresponds to the code

`pc[t]` is where task `t` is. A step of the model is the code from one access to
shared state (an atomic, a lock, the channel, a signal) to the next. `upd[t]`
is the rest of an `update_state_from` that `t` is inside: "send", then "arm"
(deadline, idle timers); `Free(t)` says that it is inside none, and no action of
`t` but `Send` and `Arm` is enabled otherwise. The pid a task copied out of its
lock is `copied[t]`.

`proc[p]` is the operating system's view of a process: booting, online, closing
(it was told to stop), frozen by SIGSTOP, condemned (frozen and told to stop),
exited (not yet reaped), none. A thawed process is "booting" again: it has to
answer before it counts as online. The Minecraft side (`Boots`, `Shuts`, `Ends`)
is under no obligation: it may hang for ever, in any of these states.

The watch channel is a value, whether it was ever sent, and the set of held
clients whose receiver has not seen the latest version. The receiver that `hold`
clones belongs to the server and never marks anything as seen, so a clone finds
any earlier send unseen (`Subscribe`).

Instants are kept as distances to now, in ticks, saturated where the code no
longer tells them apart. A tick is of the order of seconds, as is the quit
cooldown of a process task: ticks, and the end of a cooldown, happen while every
task waits for something outside the processor (`Settled`), and not within a
straight run of steps. The fault "stall" lifts this and lets a tick fall
anywhere; the theorems hold with it, and no run includes it.

The settings are chosen at the start from `Configs`. `Config::runtime`
(`config.rs` 41-69) fixes all of them but the addresses and the command;
`rcon.enabled` is `cfg!(windows)`. `freeze_process`, `wake_on_start`,
`wake_on_crash` and zero timeouts are off in it, but the code handles them, so
some runs turn them on.

`Faults` lists what the environment may do beyond the happy path: "exit",
"mute", "sigint", "spawnfail", "rconfail", "stall" (see `ServerCell`).

`up_time`, `quiet` and `rcon_age` are history variables: no action looks at
them. `poll = "pong"` keeps apart a poll whose ping was answered; `update_status`
treats it as any error, as the code does.

### How the client session corresponds to the code

`wire` holds the client's bytes nobody has read, in order. `ReadMore` takes any
number up to `BufSize`. `Incomplete` and `BadLength` are the conditions of the
two loops of `read_packet`; the actions named after `serve`'s branches are its
branches, in its order. A refused login (lockout, ban, whitelist) is an open
choice, since what it looks at is modelled elsewhere. `inbound_history` carries
the login handshake, the login start and all that was read ahead of them; `Queue`
writes it to the server before the copy loops run. `Base` stands for the 128
of a var-int byte and is small, so that a frame of 4 bytes has a two-byte
length and one of 16 a three-byte length. `2 * Base` is then the 256 of a byte:
`packet_id as u8` (`proto/packet.rs` 36) keeps the id modulo that, so a packet with
id 256 is a handshake or a status request to `serve`, and a status to the poll.

### How the access lists correspond to the code

One action per file read. `load_dir` reads `whitelist.json` and `ops.json` one
after the other, so a change may fall in between; `loaded` is its local list.
Events of one file are merged, as by the debouncer. `missed` is history: the
files changed while nothing watched them and not read since. A login looks its
name up in `banned_ips` and `whitelist` at any moment (`IsBanned`,
`IsWhitelisted`). `server.properties` is never unreadable here: see section 7.

### How the lobby corresponds to the code

`at` is where the client's task is in `occupy` and `serve`. The state of the
server is whatever the channel says: `Announce` sends any state at any time, so
nothing depends on the order in which the core sends them. `script` is all that
the Minecraft server sends on the connection made for the client, `sock` what is
left of it in the socket, and `server_buf` the one buffer that goes through
`connect_to_server`, `wait_for_server_join_game` and `route_proxy`; `ReadServer`
reads any number of packets ahead. Frames cut by TCP are `ClientSession`'s
subject and not repeated on this side. On the client's side they matter to
`drain_stream`, and a packet is two halves there. `forge_payload` is a number
of recorded requests; it is read twice, as in `forge.rs` 152 and 158, with the
probe's two writes anywhere around. While its answers are waited for the client
may send anything else as often as it likes (`Strays`): such a packet is read and
does not count, and the timeout, which runs only while there is nothing to read,
starts afresh. A write of the lobby succeeds or fails: a
client that stops reading until its TCP window is full is not modelled.

A frame has an id, a size and a form. `compression` and `probe_compression` are
the atomics of the three `Client` objects, `config.threshold` is the server's own
`network-compression-threshold`. What the proxy writes takes its form from
`encode_compressed`, which compresses above the threshold; Minecraft compresses
from the threshold on, and refuses a compressed packet that is smaller. `shown`
holds all frames written to the client, from the replayed ones to the relayed.

### How the poll corresponds to the code

`at` is where `poll_server` is. `wire`, `buf`, `Incomplete` and `BadLength` are as
in `ClientSession`. The timeout is a step of its own, enabled only where the task
waits for bytes: `tokio::time::timeout` looks at its timer when the future inside
it yields, and at no other time. With a length that cannot be read `read_packet`
returns at once and the loop goes round; that is a stuttering step.

### How the launch corresponds to the code

A line sets a key, spelled as Minecraft spells it (`exact`) or in other capitals,
or sets nothing. The proxy compares keys trimmed and in lower case and changes
the first line that has one; `java.util.Properties` compares them as spelled and
believes the last. Of the properties the proxy sets, two stand for all: the port,
which is a constant of the start, and the RCON password, which every start makes
up anew (`starts`). `Rewrite` is reading, changing and writing the file;
`TornRewrite` leaves any prefix of the new one, the last line cut in its key or
its value, and the proxy alive or not. `minecraft` remembers what the process was
run with; it stores the file before it opens its port, as Minecraft does, with
its own defaults for what is missing. `sure` is history: the file was in order
when it was rewritten, and only Minecraft has written to it since.

## 3. Runs

| Run | Question | Instance |
|---|---|---|
| `benign` | Nothing fails: does every interleaving keep to the sleep cycle, run one process at a time, clear the deadline of a settled server and hold nobody for nothing? `SingleProcess`, `NoStaleDeadline`, `HeldIsWaiting`, `ImplementsSleepCycle` | shipped settings on unix and Windows, a server that sleeps frozen, one without deadlines; 2 clients, 2 process slots |
| `crashes` | Servers crash, end, lag, cannot be spawned: types, `PidOwned`, `NoLostWakeup` | 1 client, 2 slots |
| `operator` | ctrl-c against the monitor, RCON sessions that fail, restart after a crash: `SleepsOnlyWhenIdle`, `RconSpacing`, `NotAbandoned` | no client (boot and crash start the server), 2 slots, RCON cooldown of 2 ticks |
| `live` | A start and a stop that still have their kill deadline end although the process hangs, an idle server sleeps: `StartEnds`, `StopEnds`, `IdleSleeps` | 1 client, 2 slots, with fairness |
| `session` | However eight streams are cut, closed or broken: `ImplementsPacketSession`, `AllHandled`, `RelayComplete` | reads of up to 3 bytes, 2 bytes from the server, with fairness |
| `lists` | Files change at any time: `ListsCurrent`, `ListsSettle`, `NeverLetIn` | one name, four files, with fairness |
| `lobby` | A lobby client beside the probe: types, `FramesReadable`, `ImplementsLobbyVisit`, `VisitEnds` | four kinds of server with four compression thresholds, plain and Forge settings, a client that sends stray packets without end, with fairness |
| `launch` | Two starts of the proxy over any file: types, `MinecraftReachable`, `CommandAsMeant`, `ImplementsPropertyMap` | files of up to two lines out of seven, edited at any time; three values of `SERVER_PORT` |
| `poll` | However the server answers: `PollIsTruthful`, `PollEnds` | up to three frames out of seven, or two out of nine, on either connection, with fairness |
| `pinged`, `spawnfail`, `spinning` | Messages and limits of the program that the code contradicts (section 6) | one client, one fault; one long status |

Deadlock is checked everywhere but in `ClientSession`, `StatusPoll` and `Launch`,
where a closed connection, a poll that is over and a proxy that was started often
enough have nothing left to do.

**Bounds.** Two process slots are what it takes for two runs to overlap, which
is what `SingleProcess`, `PidOwned` and `ImplementsSleepCycle` are about; a
third spawn waits for a free slot. Two clients race for one start and hold at
the same time; the clients are otherwise independent of each other, as they meet
only in the cell. Timeouts and the idle time are one tick: each may be reached,
or not, before anything else happens, and it is the order that matters. The RCON
cooldown is two ticks where its spacing is the question, so that there is an
inside. `Base = 4` and reads of one to three bytes put every cut of a frame –
inside its length, between length and body, inside the body, after it – in
reach; the streams contain every branch of `serve`, ids that pass for 0 and 1, and
a last frame without content. One name in any of the
files, or a file that cannot be parsed, is enough to tell an old list from a new
one. The four servers of `lobby` let the client in (one with packets before and
after its join game, one that asks Forge's questions first), demand encryption,
or send it away; two recorded requests are enough for the sending and the
counting of answers to differ by more than one, and one packet in two halves for
the drain to fall inside it; thresholds off, below, at and above the proxy's own
meet packets below, at and above it. Two lines are what it takes for a key to
appear twice, or spelled in two ways; Minecraft adds lines of its own, and the
second start finds what the first left. Three frames put any other packet
before, or between, a status or a pong. `MaxStarts` bounds the starts of the
proxy, `MaxHalves` what a lobby client sends of the game (of its stray packets one at a
time is unread, their number has no bound), `HistoryCap` the ages that are
told apart. Clients and process slots are symmetric in the safety runs; the
liveness runs use no symmetry.

**Where promises end.** `SingleProcess`, `NoStaleDeadline`, `HeldIsWaiting` and
`ImplementsSleepCycle` are checked where nothing fails, on purpose. When a poll
of a running server fails, the monitor marks it as Stopped and the next login
spawns a second process; the code has no defence against that, and no text that
promises one. `PidOwned`, `NoLostWakeup`, `SleepsOnlyWhenIdle` and `RconSpacing`
do not depend on the absence of faults, and are proved with all of them.
`NotAbandoned` is about a process that is registered, polls that tell the truth,
a build with signals (elsewhere `stop` has RCON alone, which may be in its
cooldown or fail), and a proxy that nobody logs in to meanwhile. Between spawn
and registration (`server.rs` 373-383), or after a failed poll, ctrl-c exits and
leaves the process behind. With a login it may do so with every poll answered: a
server that was told to stop while it booted answers one more poll, which makes
it Started, and then no more, which makes it Stopped; the login spawns a second
process, and a ctrl-c that copied the first pid finds that one reaped, and
exits. `NeverLetIn` begins once the lists are loaded: earlier logins meet empty
lists. `MinecraftReachable` begins with a file that exists and gives every key
once and as Minecraft spells it: on the very first launch there is none,
Minecraft makes one with port 25565, which is the proxy's own, and only the next
start of the proxy puts that right. `FramesReadable` lets a client down where
the program says that it may: with a server that compresses more than the client
was told, or not at all. `StartEnds` and `StopEnds` are about starts and stops
whose deadline is armed: one that was lost is an observation of section 6.
`AllHandled` leaves out a last frame of one byte, which holds no packet: the first
loop of `read_packet` waits for a second byte, so `serve` sits on it until more
comes or the client closes. `VisitEnds` leaves out a client that goes on sending
packets which answer nothing; without that TLC finds it in its login for ever.

## 4. Fairness

* *Core.* Weak fairness of `Run(t)`: the runtime polls every task that is ready,
  and each step here is a piece of straight code, a lock that is released, or a
  timeout (a failing poll). Strong fairness of `Tick` and `Cool`: time passes
  however busy the tasks are; both are enabled only between straight runs, so
  again and again rather than for ever. Nothing is assumed of clients, players,
  operator or the Minecraft process, so that `StartEnds` and `StopEnds` rest on
  the kill deadline alone.
* *Session.* Weak fairness of `serve`, of each copy direction and of the join of
  the two. Nothing of the peers: the client may stay silent for ever. What was
  sent before a side closes still arrives.
* *Lists.* Weak fairness of the thread's own steps. Strong fairness of `Update`
  for each file: a batch of events is worked through before the next is
  received, so no file's event waits for ever while others keep coming.
* *Poll.* Weak fairness of the connection attempts, the handling of a frame and the
  timeouts, each of them only where it is enabled for good. Nothing of the server.
* *Lobby.* Weak fairness of the client's task, and of its timers. Nothing of the
  client, the probe, the Minecraft server or the states it goes through; since
  each packet of the client starts the timeout for Forge's answers afresh, weak
  fairness of that one gives nothing while the client goes on sending.

## 5. Proofs

TLAPS proves every safety property the passing runs check: the invariants,
`RconSpacing`, `NeverLetIn` and the four refinements, for any number of clients,
process slots, names, starts, files, streams and thresholds. "All faults" means
any set of faults, and no hypothesis beyond the assumptions named below.

| Theorem | States | Under | Argument |
|---|---|---|---|
| *`PlexPaperProofs`* | | | |
| `TypeCorrect` | `[]TypeOK` | all faults | inductive as it stands; one lemma per group of actions |
| `PidOwnership` | `[]PidOwned` | all faults | inductive with `TypeOK`: only a process's own task registers its pid, and it takes the slot empty on its way out, whoever's pid is in it |
| `NoWakeupIsLost` | `[]NoLostWakeup` | all faults | `WakeInv` adds `FirstSendPending`: before anything was sent, a client that read "Starting" read a state whose send is still on its way, since a clone finds nothing unseen then |
| `SleepsWhenIdle` | `[]SleepsOnlyWhenIdle` | all faults | `SleepInv`: only the monitor ever sets Started, it ends that update before it looks at a timer, and outside of one `last_active` and `keep_online` belong to the start detected last |
| `RconIsSpaced` | `RconSpacing` | all faults | `RconInv`: the semaphore holder alone is inside a session, and cooldown and age together cover `RCON_COOLDOWN`, except while the holder has yet to note its command |
| `NobodyIsAbandoned` | `[]NotAbandoned` | `Unattended` | `QuitInv`: at most one task starts or waits at a time; Started means that no process boots, Stopped that none boots or is online; and what the monitor and a task inside `stop` know stays true until they act on it |
| *`SleepCycleProofs`* | | | |
| `OneProcessAtATime` | `[]SingleProcess` | `NothingFails` | `CycleInv`, below |
| `DeadlinesAreCurrent` | `[]NoStaleDeadline` | `NothingFails` | `CycleInv` |
| `NobodyHeldForNothing` | `[]HeldIsWaiting` | `NothingFails` | `CycleInv` |
| `CycleIsImplemented` | `ImplementsSleepCycle` | `NothingAtAllFails` | `CycleInv`, and `StartIsLive`: Starting has a starter or a run |
| *`AccessListsProofs`* | | | |
| `ListsAreCurrent` | `[]ListsCurrent` | – | `ListsInv`: which files have been read since they changed last, at every step of a scan or a reload |
| `NobodySlipsIn` | `NeverLetIn` | – | a step lemma for each list: a name that was refused, and that the files refuse, is refused afterwards, and is not on a list that is being read; the temporal part is PTL |
| *`LobbyProofs`* | | | |
| `LobbyTypeCorrect` | `[]TypeOK` | – | `LobbyInv`, below |
| `FramesAreReadable` | `[]FramesReadable` | `AsksFirst` | `ReadInv`: each reader decodes with the threshold that the frames it has read told it, and each writer's frames from there on are encoded with that one |
| `LobbyVisitIsImplemented` | `ImplementsLobbyVisit` | – | `LobbyInv`: what is in the buffer and in the socket is the tail of what the server sends, and `at` says on which side of the login success and the join game it begins |
| *`LaunchProofs`* | | | |
| `LaunchTypeCorrect` | `[]TypeOK` | – | `LaunchInv` |
| `MinecraftIsReachable` | `[]MinecraftReachable` | – | `LaunchInv`: while `sure` holds, every managed key is on one line, as Minecraft spells it, with this start's value; lemmas say that `Updated`, `Rewrites` and Minecraft's own `Stored` keep or establish that |
| `PropertyMapIsImplemented` | `ImplementsPropertyMap` | – | lemmas on what a rewrite, whole or torn, does to the first line of a key and to every other line |
| `CommandIsAsMeant` | `[]CommandAsMeant` | – | `java_args` keeps what stands behind its own words; then what `Has` says of a concatenation |
| *`StatusPollProofs`* | | | |
| `PollBelievesTheServer` | `[]PollIsTruthful` | – | `PollInv`: what is buffered and unread is the stream from some frame on, and no frame before it was what the poll waits for |
| *`PacketStreamProofs`* | about the operators, no state | | |
| `ReadBack` | a length is read back wherever it is cut | – | the bytes of a length but its last say that another follows; the value is rebuilt from the last byte to the first |
| `WhatReadPacketSees` | when `read_packet` waits and when it calls a well-formed frame malformed | lengths of at most five bytes | `ReadBack` |
| `FirstFrame` | what `read_packet` takes off its buffer | – | `ReadBack`; two ways of cutting the same bytes agree |
| *`ClientSessionProofs`* | | | |
| `SessionIsImplemented` | `ImplementsPacketSession` | – | `SessionInv`: `buf \o wire` is the stream from packet `handled` on, whenever `serve` is about to read |

`CycleInv` relates the positions of all tasks at once. One starter has won
the compare-exchange, one process task is unfinished (`OneStarter`, `OneRun`).
Each state says what that process is doing (`StatePhase`, `FrozenPhase`,
`ClosingPhase`); what the monitor read is still true when it acts on it
(`MonitorPhase`); and what is left of an update belongs to the present state or
to Stopped (`UpdatePhase`, from which `DeadlinePhase` and `WatchPhase`). None of
the three invariants it implies is inductive alone: `SingleProcess` breaks at a
spawn from a state nobody has ruled out.

**Hypotheses.** They are those under which the property is true (section 3), and
each is met by a run.

* `NothingFails`: no fault but "spawnfail", and `sleep_after > 0`. Without the
  latter the monitor may put a server to sleep that it has just seen start,
  while its starter is still on the way; `Config::runtime` sets 300 seconds.
  `NothingAtAllFails`: nor "spawnfail", after which Starting is never left. The
  hypothesis is tight: with one client, two process slots and one more kind of fault
  ("exit", "mute", "rconfail", "stall", "sigint") allowed, TLC finds `SingleProcess`
  and `NoStaleDeadline` violated each time, and `HeldIsWaiting` with each but
  "sigint", for which it finds nothing within 17 million states.
* `Unattended`: no "mute" and no "stall", no clients, and builds with signals. RCON may
  fail, processes end and crash, and restart, as often as they like.
* `AsksFirst`: a server announces its compression after Forge's questions and
  before it lets the client in, as Minecraft does. All servers of `lobby` do. Both
  halves are needed, and TLC finds `FramesReadable` violated without either: a
  question that was recorded compressed is replayed as it is to a client that was
  told of no compression yet, and a server that lets in first and compresses after
  is read with the threshold it had before.

The named assumptions on constants: in `ServerCell`, tasks have distinct names,
`NoPid` is no process, settings, faults and cooldown have their types; in
`PacketStream`, `ClientSession` and `StatusPoll`, `Base > 1`, reads of at least a
byte, streams of bytes; in `Compression` and `Probe`, a threshold of the proxy's
own that is positive, the thresholds are numbers and the scripts packets; in
`ServerProperties` and `Launch`, keys and values are told from none, the ports are
values, a value cut short is none of the proxy's settings (`CutIsNoSetting`; it
could only hide that a write broke off), and the lists of arguments hold none
of `start`, `run`, `-jar` or nothing, each of which the program takes for its own
(`ArgListsPlain`). TLC evaluates them in every run.

**How.** `PlexPaperProofs` first sums up what each group of actions does to program
counters and to the cell (`StopSummary`, `StartSummary`, ...); the invariants are
then preserved by the summaries, and only the few actions that matter are opened.
Recursive functions (`EncodeFrom`, `VarIntVal`, `JavaArgs`, ...) are reasoned about
with one lemma, that a set of numbers that is not empty has a least member: it
gives both that such a function exists and that two of them agree, without the
library's induction rules. `PacketStreamProofs` builds from it that a length is
read back wherever the bytes behind it are cut (`ReadBack`), and that `read_packet`
finds the frames of a stream one after the other (`FirstFrame`). `WhatReadPacketSees`
is the other half of the finding of `spinning`: a well-formed frame is called
malformed exactly while two bytes or more of it are there and its length is not
complete, so that only lengths of three bytes or more are exposed to it.

Facts on which bytes are whose are kept behind an operator of their own (`Remains`,
`CutOff`, `FirstOff`) and opened only where they are used: an equation between two
concatenations in plain sight is expanded element by element in every step below it.

**What the proofs changed in the model.** Conditions of `CASE` that overlapped in
`Lobby`, `Compression` and `ClientSession` were made exclusive; packet ids
are read as var-ints and kept to their low eight bits (`PacketId`); a server may
only say what it could encode (`Sayable`); `PropertyMap` keeps the place of every
line it leaves alone, not only its content; and the scope of `NotAbandoned` became
what section 3 says, after its invariant failed for a proxy with a client.

**Only model-checked.** All liveness (`StartEnds`, `StopEnds`, `IdleSleeps`,
`AllHandled`, `RelayComplete`, `ListsSettle`, `VisitEnds`, `PollEnds`): the prover
handles neither fairness nor ENABLED. The three contradictions of section 6 are
counterexamples, and TLC's alone.

## 6. What the runs found

* `pinged` – `poll_server` returns an error even when the ping after a failed
  status request succeeds (`monitor.rs` 76), so a running server is marked as
  Stopped. The message at `monitor.rs` 46, "Failed to poll server status, ping fallback
  succeeded", is in an arm nothing reaches.
* `spawnfail` – when the command cannot be spawned (`server.rs` 373) the state
  stays Starting for ever: the deadline passes, and there is no pid to kill.
* `spinning` – `wait_for_status` and `wait_for_ping` go on after every error
  (`monitor.rs` 157, 191). `read_packet` waits for two bytes and then reads the
  length (`proto/packet.rs` 133-157); a length of three bytes, that of a status of
  16384 bytes or more, of which two have arrived is an error that leaves the
  buffer as it was. The loop spins, `STATUS_TIMEOUT` never fires, and the monitor
  neither polls nor sleeps nor kills again. `serve` refuses such a frame as
  malformed, and closes the connection.

Of the message at `monitor.rs` 56, "Force killing server, took too long to start or
stop", `spawnfail` shows one exception; there is another, which TLC reaches in the
instance of `live` and which that run excludes. `kill_at` is written last in
`update_state_from` (`server.rs` 99-107): the task of the last run, which has
swapped the state to Stopped, may be overtaken by a login that starts the server
and arms its deadline, and then clear it. A start that hangs after that is not
killed.

Six more observations contradict no text, and have no run of their own. The
swap of the state and its send are two steps (`server.rs` 78-97), so the task of
the last run may send Stopped after a login has moved the state to Starting, and
a client held for that start is let go. `drain_stream` (`lobby.rs` 522) may end
inside a packet of the client, whose rest is relayed to the server. An RCON
session has no timeout (`server.rs` 446), so a server that accepts one and hangs
keeps the monitor inside `stop`. `serve` does not look at a last frame of one byte
until more comes, and a client that sends something else every few seconds while
its Forge answers are waited for (`forge.rs` 182-213) stays in its login for ever.
And ctrl-c may find the process it was to stop
reaped, and exit beside a second one that a login has spawned since (section 3).

## 7. Not modelled

* Reuse of a pid by the operating system for an unrelated process: a slot is
  used again only when no task holds its pid.
* What becomes of a Minecraft process once the proxy has exited.
* A connection routed straight to a started server, in the core: it does not
  touch the cell. The relay itself is in `ClientSession`.
* PROXY protocol headers, negative frame lengths, the contents of a status response.
* The expiry of a ban. Logins that arrive before the lists are loaded
  (`service/server.rs` 53-58). A `server.properties` that cannot be read, or was
  read half written: it turns the whitelist off until the next event
  (`service/file_watcher.rs` 127).
* An edit of `server.properties` between the proxy's reading and writing it.
* RCON sessions that neither succeed nor fail.
* The lobby's keep-alives. `select!` may drop the loop that sends them half way
  through a packet (`lobby.rs` 233); the model's writes are whole.
* Titles, the sound, and the contents of packets, Forge's included. Servers that
  ask Forge's questions after they turned compression on.
* Play packets, the rest of the configuration, the Windows API, favicon, errors,
  styles: encodings, constants and output without state of their own.

## 8. Plan

Written in this order, the most important behaviour first:

1. done – `ServerCell`, `StopServer`, `StartServer`, `Monitor`, `Joining`, `PlexPaper`,
   `SleepCycle`: the sleep cycle and the tasks around it, with types, `PidOwned`,
   `NoLostWakeup`, `SleepsOnlyWhenIdle` and `RconSpacing` proved.
2. done – `PacketStream`, `PacketSession`, `ClientSession`.
3. done – `AccessLists`, with `ListsCurrent` proved.
4. done – `Probe`, `Lobby`, `LobbyVisit`, with `Compression`.
5. done – `ServerProperties`, `Launch`, `PropertyMap`.
6. done – `StatusPoll`; the lookups at login in `AccessLists`; `NotAbandoned`.
7. done – the proofs of section 5: an inductive invariant of every component and
   all refinements.
8. done – every leaf proved in a fraction of the provers' time limits, and the
   hypotheses of section 5 shown to be tight. What a client is owed when the
   process ends or RCON fails would be properties of their own.
9. open, proofs – `HeldIsWaiting` with ctrl-c, for which no counterexample is known,
   and `NotAbandoned` with clients of a server that nobody stops while it boots.
10. open, models – the expiry of a ban, var-ints with 32-bit widths, keep-alives
   that are cut off.
