# kanade in TLA+

Models, model-checking runs and proofs for kanade, a self-hosted music server:
a Rust server keeps the queues, remote *output nodes* play them through MPD, and
web, terminal and UPnP clients control it. The paths below are relative to `src/`.

    QueueOps            queue arithmetic (pure operators)
    QueueOps_proofs     lemmas about it
    Projection          queues, the projections loaded into MPD, reports back
    Projection_proofs   type correctness, the index stays in range, edits keep the
                        track, MPD mirrors the queue
    MCProjection        instances of Projection (Projection_*.cfg)
    NodeSessions        registration, loss and return of nodes, selection
    NodeSessions_proofs  types, outputs, the selection, one process per connection
    MCNodeSessions      instance of NodeSessions (NodeSessions*.cfg)
    LocalSessions       sessions of devices that play by themselves, their owners
    LocalSessions_proofs  types, ownership, one node per device, the selection
    MCLocalSessions     instance of LocalSessions (LocalSessions*.cfg)
    PlaylistLists       what playlists are to clients (abstract)
    Library             playlist commands and scanner on one database
    Library_proofs      types, contiguous positions, tracks that are up to date,
                        Library implements PlaylistLists
    MCLibrary           instance of Library (Library.cfg)
    Remux               a music file into the segments of a stream (pure operators)
    HlsCache            generation, eviction and use of cached streams (extends Remux)
    HlsCache_proofs     audio, durations and segments of every format; types,
                        whole entries, the limit, requests that are alone
    MCHls               instances of HlsCache (Hls.cfg)
    Media               signed URLs: keys, their rotation, the proxy, ranges
    Media_proofs        types, redirects, lifetime of keys and URLs, ranges
    MCMedia             instances of Media (Media.cfg)
    Fanout              a change on its way to clients, plugins and the database
    Fanout_proofs       types, one snapshot is stored, no scrobble is lost
    MCFanout            instances of Fanout (Fanout.cfg)

## 1. Inventory

| Part | State | Operations | Talks to |
| --- | --- | --- | --- |
| Playback core (`kanade-core/src/controller.rs`, `state.rs`, `model.rs`) | `PlaybackState` (nodes with queue, index, status, repeat; selected node), `outputs`, `transport_state`, each behind its own `RwLock` | transport, queue, selection, local sessions, handoff, cleanup, `sync_node_state` | outputs (calls), broadcasters and persisters (calls, in `broadcast`) |
| WebSocket adapter (`kanade-adapter-ws/src/server.rs`) | a task per connection, media keys, owners of local sessions | `run_node_mode`, `run_ui_mode`, `dispatch_command`, `handle_request` | the core; nodes and clients over sockets |
| HLS (`kanade-adapter-ws/src/hls.rs`) | cache directory, a lock per track and variant | remuxing, `get_or_generate`, trimming | files, blocking threads |
| Remote output (`kanade-adapter-node-server/src/output.rs`) | an mpsc channel of 64 commands | the `AudioOutput` calls, 2 s timeout | the connection's task |
| Output node (`kanade-node/src/main.rs`) | projection generation atomic, update channel | sessions, `execute_command`, reconnect loop | server, MPD adapter, proxy |
| Media proxy (`kanade-node/src/proxy.rs`) | key and its generation | redirect, refresh | MPD, server |
| MPD adapter (`kanade-adapter-mpd`) | none of its own; polls every 500 ms | renderer commands, `poll_status` | MPD |
| Server process (`kanade/src`) | SQLite through `persist.rs` | restore, persist, periodic cleanup | core, database |
| Database (`kanade-db`) | library, playlists, node states | playlist edits, upsert, purge, save and load | SQLite, a connection per command, per save and for the scanner |
| Scanner (`kanade-scanner`) | none between scans | walk, extract, upsert, purge, every 300 s | music directory, database |
| Plugins (`kanade-core/src/plugin.rs`, `kanade-plugin-lastfm`) | previous state, pending scrobbles | `diff_events`, scrobbling | Last.fm |
| OpenHome, TUI, web client, WASM host | | | the core or the server |

What is hard here is the concurrency: every client connection and every node
connection has a task of its own, each core operation takes two or three locks
one after the other and awaits between them, commands travel to a node over a
channel and a socket while reports travel the other way, nodes drop and return
under the same id, and MPD goes on playing by itself. `PROJECT.json` lists each
hazard with its line. What makes the parts correct:

* **queues and projections** – the current index stays a position of its queue; an
  edit keeps the current track; MPD holds the projection the core thinks it
  holds; a report is applied only to the projection it is about, and the index
  follows MPD; an operation stays on one node;
* **nodes** – an output belongs to a live connection; the selected node is
  listed; a node that stays connected ends up connected, with the status its MPD
  has; clients learn of each change;
* **local sessions** – one node per device, one owner per session, expiry only
  of nodes that are gone;
* **broadcast and persistence** – after a save that succeeded, what is stored is one
  state, whatever saves overlap, fail or were cut short before it; clients that lag
  come to show what was sent last;
* **media keys** – a URL that was handed out is accepted for as long as it should
  be, a key ends with its connection, the proxy gets back to an accepted key;
* **library** – playlist commands take effect on the list as it is or not at all;
  the tracks follow the music directory, and what looks up to date is;
* **HLS** – the segments hold all of a file's audio once, with its durations; an
  entry that can be seen is whole; the cache keeps its limit;
* **scrobbles** – none is lost while the service fails and answers.

## 2. Models

### QueueOps

Positions are 0-based like the code's, `None` is `Option::None`. `NextIndex` and
`PrevIndex` give the target of `next` and `previous` (or `None` for the
`QueueEmpty` errors); `Removed`/`IndexAfterRemove` and `Moved`/`IndexAfterMove`
what `remove_from_queue` and `move_in_queue` do to queue and index;
`OutputPosition` the clamped position sent to MPD; `Suffix` is
`build_queue_file_paths`.

### Projection

| Variable | Code |
| --- | --- |
| `queue`, `index`, `repeat` | `Node.queue`, `current_index`, `repeat` of each node |
| `selected` | `PlaybackState.selected_node_id` |
| `transport` | `NodeTransportState`: generation, start, loaded length |
| `task` | what each running core operation still has to do |
| `channel` | the command channel and socket to each node, in order |
| `mpd`, `sample` | MPD's queue and song; the poller's last reading |
| `storing`, `nodeGen` | the node between MPD's answer and the store; its atomic |
| `updates`, `projected` | reports under way; the index computed in `sync_node_state` |

An operation is an action for its first lock section, and a list `todo` of steps
that are actions too: one per later lock section or send. The order of `todo` is
the order of the code; `ReadOutputs` is the second call of `active_node_id` that
most operations make. So any other task can run wherever the code awaits.
Commands are executed in order, and the node stores a generation in a step of
its own after MPD has accepted the queue (`StoreGeneration`); the poller reads
MPD and stamps the reading with the generation later (`PollStatus`, `Report`);
`sync_node_state` computes the index under one lock and writes it under another
(`ReceiveUpdate`, `ApplyUpdate`). Generations do not wrap (64 bits in the code).
`set_queue` stores the start index that the client sent, in or out of its list
(`Starts`; `usize::MAX`, which overflows at `controller.rs:1140`, is left out), and
projects nothing from one outside it (`ProjectionAt`). MPD runs a command list up
to the entry it refuses, and its answer may be lost (`MpdAfterFailure`). A node that
is not among the `Pollers` is one whose poller has lost its connection to MPD and
spins (`state_sync.rs:99`): it reports nothing more.

MPD is external: `play` starts at the first song when none is current, deleting
the current song goes on with the next one, a queue replaced by `set_queue` is
stopped, songs advance by themselves.

### NodeSessions

Follows one connection from the socket's accept to its close: `RegisterOutput`,
`AddNode`, `sync_connected_node_to_logical_state` in its four sections, the check
against the selected node, the relay loop, and the way out with the grace
period of 5 s (`EndGrace`, `UnregisterOutput`, `HandleDisconnected`, again three lock
sections). The node's end is `ClearPlayer` (the session empties MPD before its
loop), `Execute`, `Drop`; the server's `TimeOut` is a ping, heartbeat or send
that gives up first. Client tasks run `select_node`, `play`, `pause` and `stop`.
The commands of a connection are lost with it. `announced` is the selection in
the last broadcast. A node's queue is taken to be nonempty, and positions and
volumes are left out.

### LocalSessions

| Variable | Code |
| --- | --- |
| `nodes`, `selected` | the nodes of `PlaybackState` with `connected`, `device_id`, and `disconnected_at` as never, recent or at least 30 s ago; `selected_node_id` |
| `owners` | `AppState.local_session_owners` (`server.rs:98`) |
| `local` | `local_node_id`, a variable of each connection's task |
| `pc`, `arg` | where that task is, and what it carries over the next await |
| `cleaner` | the cleanup task (`kanade/src/main.rs:235`) |
| `stored` | the node rows and the selection in the database |
| `mixed` | whether a restart has met a snapshot saved half-way (an observation) |
| `spent`, `restarts` | uuids already made; bound |

A command is one action per section between two awaits. `local_session_start`
is the conflict check (`RequestStart`), the core's part under its lock (`TakeUp`
or `MakeNode`), the broadcast, the release of the session held before (`Adopt`)
and the claim (`Claim`); stop, update and the end of `run_ui_mode` follow the
same pattern. `persist` commits the selection, each node's row and the removal of the
other rows separately (`persist.rs:78-102`). Nothing reads the database while the
server runs, so `Broadcast` stores its snapshot in one step, but a `Restart` that
comes while somebody still has to broadcast may find any part of that snapshot
stored (`PartlySaved`); `mixed` remembers that one did. `Restart` builds the nodes
from `stored` the way `restore_state` does. A save that fails without a crash is
in Fanout. The order of the nodes is left out,
so "the first connected node" is any of them. Remote nodes come and go by
themselves (`RemoteChanges`); NodeSessions has the details.

### PlaylistLists and Library

| Variable | Code |
| --- | --- |
| `kinds`, `entries` | the tables `playlists` and `playlist_tracks` (`schema.rs`, version 8): kind of each playlist, track at each position |
| `task` | the playlist command that each client's connection executes (`dispatch_playlist_command`), and what its transaction has read |
| `tracks` | the table `tracks`: modification time, and the content the row was read from |
| `scan` | `scan_dir`: files found with their times, files left to look at, the one extracted |
| `disk`, `present` | the music directory |
| `spent`, `events` | playlist ids made; bound |

The scanner, every playlist command and every save of the core's state open a
database connection of their own, so all of them interleave. An action is one
statement, or one transaction from its first write to its commit; in between,
SQLite admits no other writer. `append` and `move` read first: their transaction
is deferred, sees the database as it was at that read (`Read`), and cannot write
once another connection has committed (`Outdated`; WAL mode, external). Such a
command ends without effect and with a warning in the server's log (`GiveUp`),
also when the other commit was the scanner's or the saved state's (`StateIsSaved`)
and had nothing to do with playlists. Deleting a playlist cascades to its entries;
nothing refers to tracks, so a playlist keeps the entries of purged ones.

The scanner compares the modification time of the walk with the stored one
(`Skip`), otherwise reads the file as it is by then (`ExtractTrack`) and stores
it with the time of the walk (`UpsertTrack`). `PurgeMissing` passes all paths as
parameters of one statement, which SQLite refuses above its limit
(`PurgeRefused`, `MaxVariables`). Files change, go and come between any two steps.

`PlaylistLists` is the abstract specification: lists, and one pending command per
client that is applied at once or dropped. Library implements it with
`lists <- Lists` (the entries by position) and `pending <- Pending`.

### Remux and HlsCache

Remux has the pure part of `hls.rs`: for each format, from what its parser sees
(frame headers and their lengths, metadata blocks, chunks, pages with their lacing
values, demuxed samples) to the samples, their sample entries, and the segments of
`split_into_segments`. The bytes of a frame are not modelled, only where its
headers are, whether their checksum fits, and what they say of lengths and
durations; header lengths are constants. `IsFile` says what the parsers can see of a
file: lengths and durations are natural numbers, and a frame of MP3 is not empty.
A FLAC frame may run into the next sync code, an ADTS frame may claim no length, and
chunks, pages and samples may lie beyond the end of the file. `AudioIsKept`, `SegmentsFit` and
`DurationsFit` state independently of the parsers what a stream must be.

| Variable of HlsCache | Code |
| --- | --- |
| `source`, `stream` | the music files, and what remuxing makes of them |
| `dirs` | directories of the cache, as inodes: name, files, last access |
| `holder` | `HlsCache.locks`, a mutex per track and variant |
| `task` | a request of `get_or_generate` and what it serves afterwards |
| `now`, `boot` | `current_unix_secs` and the process id, which name temporary directories |

A request is one action per file operation: it takes the lock, lists the entries
(`collect`), evicts the oldest one by one (`evict`, `remove`: the files of a
directory go one at a time), touches an entry that is there or generates it in a
temporary directory, replaces and renames. The lock is per track, so requests for
different tracks evict and generate side by side. The process may stop at any
step (`Crash`), and a client may hang up (`HangUp`): its handler is dropped at its
await and the lock with it, while the blocking thread goes on. Two generations of
one track then may share a temporary directory if they start within one second
(`hls.rs:250`); `Shared` marks such an entry as torn, and the properties except it.
Emptying a left-over temporary directory and making the new one are one action, and a
muxer or file error in the middle of the writing is not told from a remux that fails:
both would only leave more files in a temporary directory that no request opens.

### Media

| Variable | Code |
| --- | --- |
| `store`, `cleaned` | `MediaKeyStore.keys` with their times of creation; its last cleanup |
| `conns` | tasks of `run_node_mode`: active, next and announced keys, acks on the way |
| `doomed` | tasks spawned to revoke a rotated key after the overlap |
| `link`, `proxy`, `refresh` | the node's session, `ProxyState`, the refresh channel |
| `fetch` | requests of MPD to the proxy: probe, wait, second probe, redirect |
| `ui`, `urls`, `reply` | client sessions with their key, the URLs signed for them, the last answer |

A key is a number, and a signature is its key. The clock counts units of five
minutes, the greatest common divisor of the intervals (10 minutes between
rotations, 5 of overlap, 15 for a URL, 20 for a key). `Tick` waits for everything
that is due within a unit (`Due`): timers, keys on the way, the seconds that a
request of the proxy waits. That is an assumption of all the timing properties: a
network or scheduler that delays something by minutes is outside. `ParseRange`
and `ServeFile` are the arithmetic of range headers, `Answer` the four handlers.

### Fanout

| Variable | Code |
| --- | --- |
| `state`, `task` | `PlaybackState`; an operation with its snapshot in `Core::broadcast` |
| `sent`, `client` | the `tokio` broadcast channel of 64 messages, and its receivers |
| `prev`, `points` | `PluginBridge.prev`, the scrobble points found |
| `jobs`, `pending`, `accepted` | tasks of the Last.fm plugin, `pending_scrobbles`, what the service has taken |
| `rows`, `holder`, `persisted` | the table `playback_state` and the mutex of the persister |

`broadcast` synchronizes the top level under one lock and takes the snapshot under
another; then it calls the WebSocket broadcaster, the plugin bridge and the persister
in turn, each of which has its own order of tasks: the bridge compares with `prev`
under its lock and calls the plugin after it, the persister saves the global row,
a row for each node and prunes. `SaveFails` is a database error, `Restart` a crash
at any step and `restore_state`, against a library that may have lost tracks. A
client subscribes, is greeted with the state, and when it lags it goes on with the
oldest message kept. A scrobble job calls the service and on failure pushes to the
list; a flush drains a batch, retries it and puts back what failed. A failed call may
have been accepted and its answer lost, so the service can get a point twice.

## 3. Runs

Projection: two tracks, queues of two or three entries (three is the least that
has a track before, at and after the current one), two operations (one to be
overtaken and one to overtake), update channels of one entry (a second report is
lost, as on a full channel). `MaxChannel` is 1 where the full channel is the
point and larger than what two operations send elsewhere.

| Run | Question | Result |
| --- | --- | --- |
| `projection_list` | Two nodes, one client that jumps, appends, clears, replaces and switches nodes: do both MPDs hold the projection (`MirrorAgrees`), and does the index catch up with the MPD that is polled (`IndexCatchesUp`)? | holds |
| `projection_edits` | Two clients edit, clear, skip and replace concurrently (with good and bad starts), MPD fails commands half-way, the channel is full: `IndexStaysInRange`, `EditsKeepCurrentTrack` | holds |
| `projection_remove` | `MirrorAgrees` with removals | violated: the position sent counts from the current track, MPD's from the projection's start; once a song has ended, removing the current track deletes the one played before it from MPD (`controller.rs:1009`; `protocols.md:99`) |
| `projection_clear` | Does an operation stay on its node (`QueueOpsStayOnNode`), with two clients? | violated: `clear_queue` empties the queue of the node that another client selects while its command is sent (`controller.rs:990`; `PER_NODE_QUEUE.md:196`) |
| `node_sessions` | Two processes, one connected; one loss, one command: `OutputsAreServed`, `SelectedIsListed`, and eventually `SessionsSettle`, `StatusSettles` | holds |
| `node_sessions_select` | Are clients told of every selection? (`SelectionIsPushed`) | violated: `select_node` returns early when an output is gone (`controller.rs:606`; `protocols.md:221`) |
| `local_sessions` | Two connections, a device that may have left a node and a duplicate, a session without device id, a remote node, one restart that may cut a save short: `OwnersHoldTheirSession`, `HeldNodeIsTheOnlyOne`, `SelectedIsListed` (until a restart met a half-saved snapshot), `LostSessionsExpire` | holds |
| `local_sessions_takeover` | Is the node of an owned session listed while its connection is idle? (`SessionKeepsItsNode`) | violated: the conflict check, the start and the claim are separate (`server.rs:1030`), and a connection's end marks the node of its session whoever owns it by then; the cleanup then removes the node under its new owner (`PER_NODE_QUEUE.md:50`) |
| `library` | Two clients, two playlists, two files, a scanner: `PositionsAreContiguous`, `UpToDateTracksAreRead`, `PlaylistsAreLists` (the refinement), `LibraryFollowsDisk` | holds |
| `hls` | Two clients, two tracks and a cache for one of them, a crash, a broken source, hang-ups; and a few thousand files of every format: `VisibleIsWhole`, `LimitHolds`, `NoAudioIsSkipped`, `SegmentsPartitionTrack`, `DurationsMatchSource`, `LoneRequestsSucceed`, `RequestsEnd` | holds |
| `media` | A node that loses connections or is refused while its proxy answers MPD; a client that signs and fetches: `RedirectsLast`, `NodeKeysEndWithTheirConnection`, `FreshUrlsLast` (of open sessions), `RangesAreExact`, `ProxySettles` | holds |
| `fanout` | Concurrent broadcasts to a lagging client, a failing service, a database that fails or dies with the server: `StoredIsOneSnapshot` (except from a failed or crashed save to the next one that ends), `NoScrobbleLost`, `ClientsCatchUp` | holds |

Why the bounds are enough: the interesting cases need one operation overtaken by
one other step, which two operations on top of unbounded playing, polling and
reporting give; the index arithmetic only compares positions with the current
one, and for queues of any length it is proved. In `node_sessions` a connection
lost during its registration, in its relay loop, or while its successor
registers all happen with one loss and two connections. With three connections
the check of `EndGrace` can be overtaken by a whole registration
(`server.rs:952-955`): the node is then listed as disconnected although it
serves its output; no document says how soon it must be right again. In `local_sessions` the races are
between two connections of one device, a duplicate is what makes the
deduplication matter, the remote node is what a selection falls back to, and the
restart is the only way a listed node has no connection left to mark it. In
`library` two commands give every pair of transactions, on the same playlist or
not, and lists of up to three entries have a first, a middle and a last; two
changes of files give one between the walk and the extraction and one after it,
three contents include one that cannot be read, and `MaxVariables = 1` puts the
purge on both sides of its limit.

In `hls` the concurrent instances have two or three requests: two for an eviction
under a reader or beside a generation, a third for the request that comes after a
failure, with one crash or one hang-up, and a clock of two seconds (same or
different temporary names). The files are short but cover each parser's cases:
false sync codes with and without a fitting checksum, frames that overrun the file,
resynchronization over junk, changed sample entries, chunks in any order with odd
sizes, packets over pages, media without audio (about 640,000 states in all). In
`media` the node instances have one fault or none and one or two requests of MPD
over five units, long enough for two rotations and an age limit, and the client
instance seven units, past the lifetime of its key (about 620,000 states). The
channels of `fanout` hold one message and one retried scrobble, so that one change
lags a client and two points overlap a flush; its four instances are clients,
persistence, restart and scrobbling (about 1,250,000 states).

Two things the model shows that no document promises otherwise. A local node
that was connected when the server stopped comes back without a time of
disconnection (`kanade/src/main.rs:160`), and the cleanup never removes it unless
its device returns. And a connection that starts a second session (for another
device, or without one) gives up the ownership of the first, whose node stays
listed as connected.

With two clients `MirrorAgrees` and `IndexCatchesUp` do not hold: two operations
may take generations in one order and send their queues in the other. The runs
that check them have one client; the code promises nothing else.

### Fairness

`Projection!Fairness` and `NodeSessions!Fairness` are weak fairness of what tasks
do on their own: an operation or connection task goes on after each await (tokio
schedules ready tasks, sends and lock waits end, with a timeout if need be), a
node executes received commands and polls every 500 ms (those among the `Pollers`), and its process
reconnects forever (`main.rs:185`). No fairness is assumed of clients, of songs
ending, of failures or losses. `ServeStep` leaves out what depends on the other
end (`ReceiveUpdate`, `TimeOut`). `LocalSessions!Fairness` is the same for the
tasks of connections, the cleanup interval (60 s) and the passing of 30 s; a
client may keep its session open, or never close it. `Library!FairSpec` assumes
only that the scanner goes on (`background_scan_loop` scans every 300 s, and every
step of a scan ends); its failures are bounded by `MaxEvents`.
`HlsCache!FairSpec` lets every request go on: files are read and written, locks are
freed by the requests that hold them, and nothing waits for a client.
`Media!Fairness` is about timers, the node's reconnecting and reading of its socket,
the requests of the proxy with their deadlines, and the clock; not about faults,
clients or MPD. `Fanout!FairSpec` is about the tasks that broadcast and clients that
read; no property there needs the service to answer.

## 4. Proofs

Checked by tlapm for all nodes, clients, tracks, queues and bounds, from the
named assumptions of the modules only: nonempty finite sets of nodes, queues over
the tracks and natural bounds in `Projection`; node ids of different kinds that
are different in `LocalSessions`; an id for each process, and connections enough for
those that have joined, in `NodeSessions`; sources that are files (`IsFile`), nonempty
headers, and marks for no client and no path in `HlsCache`; a finite set of files, lists over them, and
`Smart` and `Nothing` different from lists and commands in `Library`; capacities
above zero, and starts that are states of the core, in `Fanout`.

* `QueueOps_proofs`: what `Removed`, `Inserted`, `Moved` contain
  (`RemovedProperties`, `InsertedProperties`), that a move keeps the length and
  the adjusted index on its track (`MovedProperties`), that the adjusted index
  after a removal is valid and, unless its own track went, on the same track
  (`IndexAfterRemoveProperties`).
* `TypeCorrect`: `Spec => []TypeOK`, one lemma per step of a task and per group of
  actions.
* `IndexAlwaysStays`: `Spec => IndexStaysInRange`, for all starts that clients may send.
  `RequestRange`, `TaskStepRange` and `NodeStepRange` show it for an operation's first
  section, its other steps and the node's, with the lemmas on removal and move; the
  exception is the step that stores a list with a start outside it (`StoresBadStart`,
  `controller.rs:1164`; `play_index` checks its index).
* `EditsKeepCurrent`: `Spec => EditsKeepCurrentTrack`, from the types and the two lemmas.
* `MirrorAlwaysAgrees`: `Spec => []MirrorAgrees`, when operations do not overlap
  (`OneAtATime`), no send times out (`NoSendTimesOut`), MPD does not fail
  (`~FaultyMpd`), no operation is `remove` or `move` (`OpsAreLoads`), and clients start
  their lists at a position of the list (`StartsFit`). Each of these is needed: with two clients a later generation can be sent first, a `set_queue` that
  times out is numbered and never sent (a channel of one command shows it), a command
  that MPD fails is not repeated, removals are the subject of `projection_remove`, and an index outside its list
  has nothing that MPD could hold. With `StartsFit` every index is in its list
  (`IndexInv`: a task that still has to store a list carries a position of it).
  `MirrorAgrees` speaks of moments when nothing is under way; `MirrorInv` says of all
  others what each node will have. `Leads(h, ch, e)` is a walk: a node that has the list
  and generation `h` will have `e` after the commands `ch`. An empty channel leads to
  what the node has, a command sent extends the walk (`LeadsOn`), a command executed is
  its first step (`LeadsFrom`, `ExecuteFollows`); the generation counts as held from the
  moment MPD has the list, so that `StoreGeneration` changes nothing. `Due` says how
  `e` compares with the queue and the transport entry, by what is left of the operation
  under way: the same (`Settled`), without the tracks pushed and not sent (`Adding`),
  anything as long as the projection was built from the list (`Building`) and carries
  the entry's generation (`Loading`), or ahead of a list that is stored last
  (`Writing`). Each step moves a plan from one group to the next (`PlanSteps`), and one
  lemma per step says what it does to what is owed (`DuePush` to `DueReplace`).
* `OneClientIsAlone`: with one client operations do not overlap.

`LocalSessions_proofs`, for any number of connections, devices, duplicates and
restarts:

* `TypeCorrect`: `Spec => []TypeOK`.
* `OwnersAlwaysHold`: `Spec => []OwnersHoldTheirSession`. Not inductive by itself: it
  needs `TasksOK`, which ties what a task carries to where it is (a claim is for
  the session the connection has just adopted; a stop, release or disconnect is
  of a session it holds).
* `HeldNodeIsAlwaysTheOnlyOne`: from the same invariant; the step that matters is a
  start of a second connection, which either finds the node of the first or is
  the one that drops the duplicates.
* `SelectedIsAlwaysListed`: with `StoredSelectionIsListed`, since a restart takes
  the selection from the database; both say nothing once a restart has met a snapshot
  saved half-way (`mixed`), which may select a node that has no row.

`NodeSessions_proofs`, for any number of processes, connections, losses and client
tasks:

* `TypesHold`: `Spec => []TypeOK`, with `TargetsOK` and `TasksOK`: a connection or a
  client's task that works on a node knows which. The fallback of
  `handle_node_disconnected` is in the list because a nonempty set of positions has a
  least one (`LeastNatural`, `FallbackListed`).
* `OutputsAreAlwaysServed`: `Spec => []OutputsAreServed`. Inductive with `OwnersOK`,
  an output is of a connection of that id which has not begun to leave, and
  `NewcomersOK`, a connection that is still registering is not on its way out.
* `SelectedIsAlwaysListed`: `Spec => []SelectedIsListed`.
* `SessionsAreAlwaysDistinct`: two processes never use one connection, also when one
  takes over the id of the other.

`HlsCache_proofs`, for any clients, tracks, files of every format, limits, clocks,
crashes and hang-ups:

* `SegmentsAlwaysCover`: `split_into_segments` cuts any samples into segments that
  follow each other without a gap, fit the target, and have one sample entry each.
  The invariant of the loop is `Split`.
* `SegmentsAlwaysPartition`: `Spec => []SegmentsPartitionTrack`, from the former and
  from the type of what each of the six parsers returns. The parsers are recursive
  functions over positions or offsets. That such a function exists, and that its
  values are of a type, is shown by induction over numbers, as the absence of a least
  counterexample (`Induction`, `Recursion`, `WalkExists`).
* `AudioAlwaysKept`: `Spec => []NoAudioIsSkipped`. `AudioKept` is its part about files,
  with a lemma per format. `FlacKept`: the search finds every sync code with a fitting
  checksum (`FlacStartsAre`), and the frames tile the rest of the file. `Mp3Kept`,
  `AdtsKept`: `ScanKeeps`, by induction from the end of the file on; a frame that the
  search passes is a sample (`FrameAdded`), lies in one, or lies behind one that cannot
  be used and everything that is kept. `PcmKept`: the pieces and the packets tile the
  data that `WalkedChunks` finds, in the file. `OpusKept`, `Mp4Kept`: what is left of a
  sequence when some elements are dropped has the others at their places (`Filtered`),
  and their offsets add up (`FilteredSums`); the entry that holds for a sample is the
  last that was reported (`LastReported`).
* `DurationsAlwaysMatch`: `Spec => []DurationsMatchSource`, for instances whose ordinary
  PCM files have a channel and samples of whole bytes (`WholeBytes`); others are an
  exception of the code (section 6). `FlacDurationsAddUp`: what is left of the excess
  after the last `i` frames has a closed form (`TrimmedSum`), and what the first `k`
  frames have lost is a difference of two such rests. `PcmDurations`: every cut is at a
  multiple of the frame, so that whole frames and one rest add up (`FramesAddUp`).
* `VisibleIsAlwaysWhole`: `Spec => []VisibleIsWhole`. The inductive invariant `Inv` has a
  part for each thing that could go wrong. `Whole` is the property for every
  directory, temporary ones too, since a rename makes one visible. `Written`: what a
  generation has still to write is a tail of its list, whose last file is the
  playlist, and what came before is in its directory. `LockOK`: a task that was not cut
  off holds its track's lock, so that a directory that is made again under a generation
  was made by one that was cut off (`Shared`), and is torn. `Removing`: what is being removed is
  torn already, or gone. `NamesOK`: a path names one directory. `TaskOK` and
  `SourcesOK` say what a task carries and that `stream` is what remuxing makes.
* `TypesHold`: `Spec => []TypeOK`, part of the same invariant.
* `LimitAlwaysHolds`: `Spec => []LimitHolds`. The property says nothing of a state in
  which somebody trims, so the invariant `LimitInv` says who still has to: a trim is
  owed, or a request generates (it will trim), or a trim is under way whose count is
  not outdated (`Counts`), or the entries fit. A count is not outdated if there is a
  set of segments, not more than its total, that has those of every entry but the one
  it is removing, and every entry is planned or preserved; a set and not a number,
  since entries shrink under it, and others remove what it has planned. The total of
  `collect` is the number of segments (`SizesAddUp`), by induction over the sum's own
  recursion (`SumSteps`). While nobody generates, entries only shrink (`QuietStep`).
* `LoneRequestsAlwaysSucceed`: `Spec => LoneRequestsSucceed`. `LoneInv` says of a request
  that is alone what the steps before have left for the next: a generation has its
  directory, which is not torn (`LoneMaking`); a removal finds the files it has listed,
  and never removes what was just made (`LoneRemoving`); what was made, or opened, is
  still there with the segments that were counted, unless a removal of it was never
  finished (`LoneServing`). One lemma per step; `AloneStays` shows that only a new
  request becomes alone. A step that ends the request is then one the property allows.

`Library_proofs`, for any clients, playlists, files and
lists:

* `TypeCorrect`: `Spec => []TypeOK`.
* `AlwaysContiguous`: `Spec => []PositionsAreContiguous`. Inductive only with
  `ReadsAreCurrent`: what a transaction that may still write has read is the list
  that is stored, because every other commit outdates it.
* `UpToDateAlwaysRead`: `Spec => []UpToDateTracksAreRead`, from `TimesInv`: time of
  the walk <= content extracted <= content on disk, for stored tracks and for the
  one in the scanner's hands. If the stored time is the file's, the three agree.
* `PlaylistsAlwaysLists`: `Spec => PlaylistsAreLists`, the refinement, step by step.
  A commit is `Apply`, an end without commit `Drop`, a request `Send`, all else
  stutters. It needs `ReadsAreCurrent` again, and `KindsOK`: a playlist that was
  seen to be normal still is, or is gone, since ids are not made twice. The lemmas
  `OrderedRows`, `OrderedAppended`, `OrderedWithout` relate tables to sequences.

`Media_proofs`, for any number of connections, sessions, requests, paths, files and
ranges, and for all intervals with `Overlap <= RotateEvery`, `Overlap <= UrlTtl` and
`RotateEvery + Overlap <= MaxKeyAge` (`MediaConstants`; the program's constants
satisfy them):

* `TypesHold`: `Spec => []TypeOK`, a lemma per variable.
* `NodeKeysEnd`: `Spec => []NodeKeysEndWithTheirConnection`. `Owned` says whose a key
  is: the keys of two connections are disjoint, and a key that waits for its
  revocation is neither active nor next anywhere. `HeldKept` shows that a key that is
  held stays so unless its own connection ends.
* `RedirectsAreAccepted`: `Spec => []RedirectsLast`. The invariant adds `Timely` (the
  active key is as old as its rotation, which is at most `RotateEvery` ago; one that
  waits for its revocation is in the store, and young enough for the cleanup until
  then), `ProxyCurrent` (what the proxy holds or is about to receive is the active
  key or was until this unit) and `FetchesLast` (a request's key was rotated after
  its URL was made). The assumptions are used exactly where the program's constants
  could go wrong: a longer overlap and the cleanup would drop a key in use.
* `ClientUrlsLast`: `Spec => []FreshUrlsLast`, with `UrlInv`: the key of a URL never
  is a node's, so that only its age can remove it. The property speaks of the URLs of
  open sessions; the code keeps those of closed ones, too (section 6).
* `AnswersAreExact`: `Spec => []RangesAreExact`, by the arithmetic of `ParsedExactly`.

`Fanout_proofs`, for any nodes, tracks, clients, tasks, capacities and starts:

* `TypesHold`: `Spec => []TypeOK`. The invariant `TypeInv` is in parts, for the core and
  the database, the tasks and what they have still to write (`WritesOK`), the clients,
  and the plugins with what a job holds (`JobsOK`). What a restart keeps of a queue,
  `KeptType`, is shown by induction over the length of the queue.
* `StoredIsAlwaysOneSnapshot`: `Spec => []StoredIsOneSnapshot`, with `SavingOK`: the
  saving task holds the mutex, and the rows it has written are those of its snapshot.
* `ScrobblesAreNeverLost`: `Spec => []NoScrobbleLost`, with `JobsOK` (what a job has in
  hand at each of its steps), `EventsOK`, `MarkedOnce` (a track whose point was found
  is marked) and `PointsHeld`.

Only model-checked: everything about liveness.

## 5. Plan

In this order:

1. **NodeSessions**: an abstract specification of what a node's life looks like to a
   client (listed, connected, playing) and the refinement to it; a run with three
   connections.
2. **Projection**: `MirrorAgrees` with `move`; a refinement of an abstract "current track"
   specification for one client; `handoff` and the operations on local nodes' queues.
3. The poller's reconnection to MPD, and the web client's local player on top of
   LocalSessions.

## 6. Not modelled

The queries of the library (searches, smart filters, albums) and its artwork,
tags, HTTP routing, the boxes and encoded packets of HLS segments, OpenHome parsing, the terminal and
web presentation and the WASM host have no state of their own that the parts
above depend on, or are I/O. Modification times are whole seconds: a file that
changes twice within one second, or that is replaced by an older one with its
time, is left out of Library. `kanade-server-http` and the server of
`kanade-adapter-node-server` are superseded by the WebSocket adapter. Positions in
a track, volume and shuffle (a flag no code reads) are left out. Authentication
data is abstracted.

What the code does and no run is about, seen while modelling:

* A queue that is played without a current index is loaded without a start, so that
  MPD's positions are not mapped back (`controller.rs:726`;
  `kanade-node-protocol/src/lib.rs:87`).
* `set_queue` stores the index it is given unchecked (`controller.rs:1164`): the one
  exception of `IndexStaysInRange`.
* A crash between the commits of one save can leave a selection whose node has no row,
  and the next start takes both as they are (`persist.rs:78`, `kanade/src/main.rs:124`).
* The key of a client session is dropped after 20 minutes although the session is
  open (`server.rs:89`), and is not revoked when it closes (`server.rs:645-653`),
  although `protocols.md:283` and `326` say that it is: URLs of a closed session go on
  being accepted until they expire. `CloseSession` models it, and `FreshUrlsLast` is
  about URLs of open sessions with young keys, so that it would hold of either.
* While the node reconnects after up to 30 s (`kanade-node/src/main.rs:207`), the proxy
  waits 5 s for a new key (`proxy.rs:39`), and MPD gets a 503.
* A track counts as changed when the index changes (`plugin.rs:85`; `plugin.rs:14` says
  otherwise): an edit before the current track is announced as a new one, and a
  replay is never scrobbled again.
* PCM of 20 bits at ordinary rates is cut into frames of `channels * 20 / 8` bytes
  (`hls.rs:862`, `904`), although its samples take three each; the files of the `hls`
  run that have 20 bits are of high rates, which are encoded as ALAC instead.
* The MPD poller spins when MPD closes its connection (`state_sync.rs:99`).
* `handoff` is four lock sections without a common lock (`controller.rs:473`).
