# ThatDAMToolbox: TLA+ specifications and proofs

Specifications of the parts of ThatDAMToolbox in which several actors meet:
goroutines, threads and processes, a broker's connection, a changing disk,
crashes. TLC checks them on small instances; TLAPS proves the most important
results for all instances. Paths below are relative to the repository's root
(`host/services/capture-daemon/main.go` is `src/host/services/...` in
`PROJECT.json`).

    tlc -config CaptureDaemon.cfg MCCaptureDaemon     # a run
    tlapm CaptureDaemon_proofs.tla                    # a proof

## 1. The system

ThatDAMToolbox captures video on small Linux hosts and manages it as digital
assets. Go services run on the host next to the devices, a Python application
keeps the media index and the store, and a Next.js application is its face.
RabbitMQ carries events between them.

| Part | Code | State it keeps | Operations | Interaction |
|---|---|---|---|---|
| capture-daemon | `host/services/capture-daemon/{main,registry,runner,scanner}` | device map, cancel func per device, a goroutine and an ffmpeg per device | poll, update, launch, stop all; capture loop | runner and poll loop share contexts; publishes events |
| its broker | `.../broker/broker.go` | bounded channel, one connection | `Publish`, `Close`, dial and pump | called from every goroutine; AMQP with confirms |
| media database | `video/db.py` | SQLite file, lock file, `files`, `files_fts`, `copies` | start and migrate, upsert, search, clean up | many processes and threads, one file |
| scanner | `video/scanner.py` | pool of threads, jobs | stat, hash, probe, upsert | reads the disk, writes the database |
| uploads, ingest | `video/modules/uploader`, `video/core/ingest.py` | staging directory, content-addressed store | stream, hash, move, register | coroutines, background threads, file system, database |
| stdlib server, CLI | `video/server.py`, `video/cli.py` | job table, `sys.stdout` | post, poll, delete, clean up jobs; in-process CLI calls | a thread per request and per job |
| command dispatch | `video/cli.py`, `video/api`, `video/tui.py` | none of its own | shell, standard input, REST and text interface send commands to `dispatch` | the tables, the disk, the configuration |
| photo sync, backup | `video/sync.py`, `video/__init__.py` | `copies` table, destination folders | sync an album, back up files | share `copies` |
| WAL proxy, storage engine, snapshots | `video/storage`, `video/bootstrap.py` | temporary database, snapshot | flush, copy | threads beside the writers |
| WebSocket recording | `video/ws.py` | recorders, status tasks, clients | start, stop, broadcast | coroutines under two locks, threads |
| previews, hardware capture | `video/ws.py`, `video/modules/hwcapture` | frame pool, device list, jobs, captures | WebRTC tracks, recordings over HTTP, of several devices | coroutines, threads, ffmpeg; each stop ingests a folder |
| processor, artifacts | `video/core/{processor.py,factory.py,artifacts}` | batches, their counters and states | build, start, complete, fail, finalize | a thread per request |
| events, lifecycle | `video/core/event`, `video/lifecycle.py` | bus, cleaners | start, publish, shut down | signals, atexit |
| configuration | `video/config.py` | `video.cfg`, one parsed copy per process | add and remove network paths | every process writes the whole file |
| trim-idle, motion extractor | `video/modules/{trim_idle,motion_extractor}` | none that stays | find still or moving frames | OpenCV, ffmpeg |
| camera agent | `docker/camera-agent` | `agent.yaml` | discover, register, store, stream | gateway; Docker restarts it |
| WiFi manager | `docker/touch-display/pi` | status, status file | poll, answer | two threads and signals |
| DAM | `video/modules/dam` | vectors, hierarchy, metadata | ingest, search | HTTP |
| camera-proxy | `host/services/camera-proxy` | device map, streams | discover, stream | HTTP, WebSocket |
| gateway, middleware | `host/services/{api-gateway,proxy,shared}` | rate limits, cache | request chain | HTTP |
| pipeline-manager, schema-registry | `host/services/...` | subscribers; schemas | start, stop, send; store | FIFO; AMQP |
| user interfaces, containers | `docker`, `video/web`, `scripts` | browser state, configuration | | HTTP |

What is hard in it, and what must hold:

* **capture-daemon.** A device can vanish and return while its old goroutine is
  being stopped, ffmpeg can fail at any time, and a signal can arrive between
  any two steps. Every goroutine must stay stoppable, no two may capture one
  device unless one is on its way out, events must bracket ffmpeg.
* **broker.** The connection fails with messages on the wire, in hand and in
  the buffer. Nothing may be repeated or reordered, and the loss must be bounded.
* **database start.** Several processes migrate one file, some are killed.
  Whoever gets a database must get a complete one.
* **index and scanner.** Files change between stat, hash and upsert. No change
  may be missed for good.
* **ingest.** Ingests of one content race, the server crashes and drops the
  ingests it had queued. No answered upload may vanish.
* **jobs.** Jobs are deleted under their workers and every call shares
  `sys.stdout`. No deleted job may return, results must not mix.
* **WebSocket recording.** Clients start and stop one feed at once, vanish, or
  do not read what is broadcast under a lock. One recording per feed, nobody
  left believing in one that cannot be stopped, nobody waiting for ever.
* **previews and recordings.** Tracks share a pool of buffers, recordings a
  folder that each stop ingests. No buffer and no recording may get lost, no
  device may stay open.
* **copies and snapshots.** Sync and backup run at once and crash, the table can
  go back in time, two threads checkpoint the database while one copies it. What
  the table remembers must be on disk, a snapshot must be whole.
* **batches, lifecycle, configuration.** Videos fail, signals run shutdown on top
  of shutdown at any of its steps, processes write back what they read long ago.
* **commands.** Four front ends phrase commands in their own ways. What is
  answered must be what was done, also when a later step of it fails.
* **the agents.** The camera agent is killed anywhere, the WiFi status is shared
  by two threads.

`hazards` in `PROJECT.json` has one entry for each place where such a thing can
go wrong, at its line, with the properties that cover it.

## 2. Plan

Most important first. All but the last are done.

1. `CaptureDaemon`, with proofs of all its safety properties.
2. `Broker`, with the abstract queue `LossyFifo` it is proved to implement.
3. `DbInit`, `MediaIndex`, `Intake`: the database's start, its tables with the
   scanner, uploads with ingest; each with the proof of its safety properties.
4. `CliCall`, `Jobs` (which extends it) and `Recorder`, with proofs.
5. `MCServices`: `Copies`, `Snapshots`, `Batches`, `Lifecycle`, `NetPaths`,
   `FrameTools` and `Commands`, with proofs of all their safety properties.
6. `MCDevices`: `DeviceCache`, `Captures`, `Preview`, `Wifi` and `CameraAgent`,
   with proofs of all their safety properties. What is claimed of `Preview` and
   `Wifi` is liveness; the safety that the first one's rests on is proved.
7. The other Go services: `camera-proxy` (device map that is cleared and rebuilt
   while streams run), the gateway's middleware, the pipeline manager.

Composition: `Jobs` contains `CliCall`'s steps. `CaptureDaemon` announces through
`Broker`, and `LossyFifo` is what a composed model would use for it; `Captures`
ends in ingest, whose steps per file it repeats with files that are still
being written, which `Intake`'s are not.

## 3. The modules

`MC*` modules extend the module they are named after for TLC. Definitions
marked `Fault` are variants of the one after them, as a plausible error in the
code would have it; each property has one that breaks it (`mutants` in
`PROJECT.json`). `PROJECT.json` also maps each definition to its lines.

### CaptureDaemon

`mainPc` is where `main`'s loop is, `todo` the rest of the `List()` snapshot it
iterates over. `devices` and `stopFuncs` are the registry's maps; a cancel func
is represented by the goroutine it stops. Per goroutine: `runPc` (the place in
`RunCaptureLoop`), `runDev`, `fails`, `cancelled`, whether a
`recording_started` is open (`announced`) and whether its `ffmpeg` lives. A
slot of `Runners` is reused once its goroutine has returned and no cancel func
refers to it; a launch that finds no free slot waits, so `Runners` must be
large enough (below).

| Action | Code |
|---|---|
| `Check`, `Return` | the select at the loop's head, `StopAll`, return |
| `Poll` | `ScanAll`, `Registry.Update`, `List` |
| `Launch`, `Skip`, `LaunchDone` | the launch loop and the sleep |
| `MkOutDir` .. `RetryDelay` | `RunCaptureLoop`, step by step |
| `FfmpegExits`, `FfmpegKilled` | `cmd.Run` returns by itself, or by its context |
| `Signal`, `Replug` | SIGINT or SIGTERM; the environment |

A scanner that fails contributes no device (`scanner/scanner.go:35-37`) and so
looks like devices that vanish. The exit on "Not a tty" is left out: `cmd.Run`
returns the exit status and never ffmpeg's standard error, so the text does not
occur. Device attributes, file names and the REST server are left out.

### Broker and LossyFifo

Messages are numbered in the order of the `Publish` calls; 0 is the
`service_up` message. `buf` is the channel, `pc` and `hand` the goroutine's
place and the message it has taken, `wire` and `acks` the two directions of the
current connection, `delivered` what the exchange got. `believed` is a history
of the messages after whose publication an ack was read. `CloseConn` models the
deferred closes: they do not return while more than one ack is unread, because
nobody reads the channel of capacity one any more. `Receive` and `Break` are
RabbitMQ and the network. Backoff times are left out, and so are an empty
`AMQP_URL` (nothing is sent) and `BROKER_BUFFER=0` (a send would need a waiting
receiver).

`LossyFifo` is the promise: messages are delivered in order, at most once, and
may be lost. `FifoSpec` substitutes the buffer, the hand and the wire for
`pending`.

### DbInit

Each instance is a process in `MediaDB.__init__`. A lock file is an inode;
`file` is what the path names, `holder` who has an inode flocked, so that a
lock on a removed file excludes nobody who opens the path later. The script's
statements commit one by one; its three triggers count as one statement, since
whoever gets past the virtual table created it. `Bootstrap` may fail when
another instance is in the locked part. `Exit` is the atexit hook. `torn` and
`overlapped` are history variables for `FailureHasACause`. The fallback lock
file under `/tmp` is left out.

### MediaIndex

`disk` gives each path a content and a stamp, which stands for (mtime, size);
every write changes it, so two writes of one size within a second are outside
the model. A file that is moved keeps its stamp; `been` remembers where it has
been before, and `returned` that one came back. `rows` is the `files` table by
path, `fts` the entries of the
full-text index, reduced to the one word a path consists of. A worker's `job`
holds what it has read: first the stamp, then the hash. `HashesOf` includes the
hash of the path, which `quick_hash` returns when the file cannot be read.
`Upsert` is the statement with its conflict on `path` and its IntegrityError on
`id`, and the trigger; `DeleteRow` the delete, whose trigger finds no content
row to take the words from. `CleanFiles` and `CleanFts` are two steps because
the connection commits each statement; `stripped` is a history of the rows that
a scan stored between them, whose entries the second takes.

`Search` asks the index first and the table itself when the index has nothing.
What is searched for is the query: a word outside `Barewords`, such as one with a
dot or a dash, is a syntax error, which `search_files` passes on. That most file
names are refused is described here and in `hazards`; `SearchFinds` is about the words
that are not. What could hide a listed file is an old entry, since one hit, of
whatever row, keeps the search from the table. Columns for versions are left out.

### Intake

A request streams two chunks, one per await, into the staging file its client
named; `ingest_files` knows only that path. Files are inodes, so a file that is
moved while a request has it open is written to at its new place. Staging and
store are one file system. `collided` marks that an upload began under the name
of an unfinished one; the properties are about the histories without that. A crash
leaves a request whose body was still coming `aborted`, which nobody has been
answered, and drops every ingest that was queued or under way (`dropped`): such an
upload counts as answered, and must stay where the crash left it.
`Register` always fails: `video.DB` has no `add_video`.

### CliCall and Jobs

`CliCall` is `run_cli_from_json` in many threads, one action per access to
`sys.stdout`; `CallRaises` is a call in which `dispatch` or anything around it raises,
which only puts `sys.stdout` back. A caller stands for its current buffer; buffers of calls that
have ended are all `Lost`. `Jobs` adds the job table of `video/server.py`: each
access under `_job_lock` is one action, `Record` includes the KeyError of a
record that is gone, and a worker's step that calls the command line is
`CliCall`'s steps. `created_at` is abstracted to the order of ids; clean-up may
remove any prefix of them. Results are abstracted to whose they are. (For
`transcode` and for the creation of a batch, `dispatch` has no action and
answers with an error object; the worker does not look into it and reports the
job as completed.) GET of a job reads one record under the lock and is left out.

### Recorder

One feed of `video/ws.py`. `pc` is where each client's coroutine is, `recLock`
and `cliLock` hold the two locks' owners, `todo` the rest of the snapshot a
broadcast iterates over. `recorder` is the feed's entry in `_recorders`,
`processes` the ffmpeg processes alive, `taskPc` and `cancelled` the status
task. `heard` is a history of the last event each client received. The thread a
coroutine awaits is one step, with every other coroutine free to go on before
it. Clients that lag and clients that are gone are the environment; a send to
the first waits, a send to the second may raise. One status task is enough: it
is cancelled before the end is announced and gone when the loop next runs it,
long before another start returns from its thread. "Stop failed" is
unreachable, since `stop_recording` catches the one exception its calls raise.
The preview and WebRTC sockets and the replies to a single client that hold no
lock are left out.

A start that fails leaves its recorder entered (`StartProcess`): the next start
is refused until somebody stops a recording that never was. No comment promises
otherwise, so this is described and not a finding.

### MCServices: the services around the database

`MCServices` chooses one of these parts in the initial state and runs it alone;
they share no variables. Each part's module has a next-state relation of its own
and can be extended by itself, as the proofs do.

* **Copies.** `_sync_photos_album` and `backup` as runs over one `copies` table:
  look up the hash, open and write the destination, remember. `Target` gives each
  item its destination: a sync builds the name from the second of the asset's
  creation and a count that never moves, because `upsert_file` raises for want of
  a `preview_path` before the count is raised, so two assets of one second have one.
  `flushed` is the table as the thread of `wal_proxy.py` last wrote it back, and
  a crash goes back to it. `excused` is a history of the destinations that
  `RememberedIsThere` makes no claim about, each for a reason its comment names.
* **Snapshots.** The thread of `bootstrap.py` that checkpoints, copies the
  database page by page and renames the copy, beside a writer whose checkpoints
  go page by page too; either part of the thread's round can fail (`LoopFails`).
  With `SamePath` the snapshot is the database itself. That is the default
  configuration, with neither of the two environment variables set, and there
  nothing can be promised: the rename leaves an open connection on the old file,
  so that what it commits is lost, and a copy that was torn by a checkpoint
  becomes the database, of which the next copy is torn without an overlap.
  `SnapshotIsWhole` is therefore claimed for a snapshot with a path of its own, in
  the run and as the premise of its theorem.
* **Batches.** From `factory.py` to the end of `process_batch`, one video after
  the other, and what other threads are told of a batch meanwhile. Videos fail
  through their worker; the default one always does.
* **Lifecycle.** The main thread of a process that imports `video`, with a stack
  of `shutdown` calls (`frames`) that signal handlers put on top of each other.
  A handler can run between the test of the list, the pop and the call. A
  shutdown on top empties the list, so the pop of the one below raises
  IndexError, outside its `try` (`PopRaises`): that unwinds the calls up to one
  that was inside a cleaner and so catches it, or the main thread, which may end.
  A cleaner that a frame had popped and not called is then lost (`lost`).
  The handler replaces `KeyboardInterrupt` and returns, so Ctrl-C does not end
  what waits for it (`hwcapture/commands.py:31`).
* **NetPaths.** `add_network_path` and `remove_network_path` by threads of
  several processes: change the parsed configuration, truncate the file, write.
  Writers that overlap can leave a file that does not parse (`Garbled`), and a
  process that dies an empty one; `AddedIsKept` speaks of a file that can be read,
  and holds again from the next write on. `contested` is a history of the paths
  that were removed, or overtaken by a change from a list that lacked them.
* **FrameTools.** Both ways to trim still stretches and the extraction of
  moving frames, as loops over a film, against definitions with quantifiers:
  `Stretches` are the maximal still pieces, `Gap` is what lies between two of
  them, and `Inverted` which of these `_invert_ranges` keeps. Each kept range is
  one `trim` filter in `Chained`. `span` is `int(freeze_dur * fps)`, which is 0
  for a short duration or a low rate: a count of still frames starts at 1 and
  never equals it, so OpenCV then finds no stretch. What is described and not a finding:
  the OpenCV way takes the length of the film from the two values that one read
  returns (`trimmer.py:225`) and fails for a film that is still throughout; the
  ffmpeg way chains one `trim` filter per kept range (`trimmer.py:133`), which is
  empty for more than one; the route hands out a file from a directory that is
  gone (`trim_idle/routes.py:34-50`); quick extraction ignores the rate it is asked for.
* **Commands.** What each front end sends, what `dispatch` does with it and what
  is answered. The shell loses the verb of `paths` and `batches`; the REST search
  and removal send a key that `dispatch` does not read; jobs send `transcode` and the
  creation of batches, which it does not know, and are completed all the same
  (`api.py:238`); outside iOS a sync raises. `reply` is what the caller is given,
  a list with a result or an error object for each command, a failure, or that a
  job is completed. `RepliesAreTrue` reads it against the state (`holdings`, the
  disk) and two histories, the commands of the `request` and the state `prior` to
  it: what a list calls done is there unless a later command undid it, nothing else
  has changed, a single command that failed has done nothing except
  `batches add`, which has scanned before it fails, and a completed job has done nothing
  at all. What a workflow of several steps did before one of them failed stays,
  with nothing printed; of that nothing is claimed.

### MCDevices: the programs around the cameras

* **DeviceCache.** `get_devices` sets the list and its time in two steps after a
  scan. `cache` holds when the list's devices were probed; that nobody has a list
  older than the time to live and one scan does not depend on who sets what.
* **Captures.** Recordings over HTTP, of `record_multiple`, of
  `record_with_witness`, and readers. A file is an inode with a version, so that
  ffmpeg writes on into what was moved. `stop_recording` is patched by
  `core/auto.py` to ingest the whole folder: `scan` is what a stop has listed,
  `hashed` the file it has in hand, `choice` what it has decided on when it looked at
  the place of the hash. `disturbed` is a history of the inodes that
  were stored while another recording wrote them or had taken their name.
* **Preview.** WebRTC tracks and the pool of frame buffers. A track whose
  session description is refused keeps its capture open (`ws.py:429`, "stuck").
* **Wifi.** The poll loop with its errors (the ESP32's answer, the system's, the
  file), the status file, the API's two reads, signals.
* **CameraAgent.** Configuration, discovery, registration, the answer with the
  credentials, storing, restarts; the answer or the writing of the file can be
  lost, and the agent be killed anywhere. `spoilt` counts the registrations whose
  credentials were lost on their way to the file, and
  `LossesExplainRegistrations` holds the gateway's registrations against it. The
  streaming loop is `async for` over a plain generator and raises at once.

## 4. Runs

| Run | Distinct states | What it shows |
|---|---|---|
| `capture_daemon` | 227,424 | goroutines stay stoppable; one active goroutine per device; events bracket ffmpeg; stable devices and stops are served |
| `broker` | 5,923 | implements `LossyFifo`; losses only with a connection and bounded; a lasting link empties the buffer |
| `db_init` | 140,038 | a ready instance has the whole schema; a failure has a cause; every start ends |
| `media_index` | 569,485 | stale rows are detected; a search for a listed file finds it; scans converge |
| `intake` | 639,914 | the store is addressed by content; answered uploads are kept, dropped ingests included, and the others stored in the end |
| `jobs` | 619,347 | a lone call that returns gets its own result; no deleted job returns and progress is monotone; jobs settle |
| `recorder` | 76,202 | one recording per feed and none without its recorder; whoever was told of one can stop it; no status after the end; all commands end |
| `services` | 379,455 | remembered copies exist; snapshots are whole; batches add up and end; cleaners run once; answered additions stay; frames are chosen as defined; replies are true |
| `devices` | 593,056 | device lists are recent; nothing stays open; stored recordings are whole, and kept; losses explain registrations; waiting tracks are served; the WiFi status converges |

Bounds, and why they are enough:

* `capture_daemon`: two devices and two slots. A device that returns while its
  old goroutine is alive takes the second slot, and the other device then waits
  for one: the overlap, and independent devices, both occur. `MaxFails` is 2
  instead of 5; what matters is one failure below the limit and one at it.
* `broker`: buffer of two and four messages: it overflows, and a message can be
  on the wire with one in hand and others behind it.
* `db_init`: three instances: one that holds a lock, one that waits on its
  inode, one that opens the path after the unlink. One kill.
* `media_index`: two paths, one of whose names the query syntax accepts, with two
  contents, two scan threads, two changes of
  the disk, one `clean_all`, one failing analysis: a rewrite or a move during a
  scan, and two rows with one content. Convergence is about a quiet disk, so the
  bound on changes is part of its premise. A file that comes back with its old
  stamp to a path whose content was replaced meanwhile needs three changes and
  more; the run has two, so `returned` stays false there, and the theorem covers
  the longer histories.
* `intake`: three uploads, two of one content, two names, one crash.
* `jobs`: a job of up to two files and two more callers with two calls: three
  calls overlap, also around a call that begins on a dead buffer.
* `recorder`: two clients, so that each can be in the other's way at either
  lock, with the status task as a third party to broadcasts. Locks are taken by
  one at a time, so a third client would only lengthen the queue.
* `services`: two runs over three items of which two have one name and one
  content occurs twice; two pages and two transactions, so that a file can be half
  moved; up to three videos; three signals, one on top of a handler on top of
  the main thread's shutdown; two threads of one process and one of another;
  films of up to seven frames with stretches of two, which hold two stretches
  with a gap between and a frame behind; three commands, as many as a workflow needs to fail in its middle.
* `devices`: two threads over two lifetimes of the list and more; a recording that
  shares a name with one of a pair; three viewers of two buffers; two
  connections; two kills and two answers or writes that are lost.

Runs that violate a statement of the code's own comments (`findings`):

| Run | Statement | What happens |
|---|---|---|
| `media_index_search` | `db.py:359,364` | words of deleted rows stay in the index and lead to the row that gets the number next |
| `broker_ack` | `broker.go:135` | the ack read belongs to the message before |
| `jobs_cli` | `cli.py:347-349` | overlapping calls get each other's output |

Two more statements are contradicted, in the models as in the code, without a
run of their own: `db.py:70` calls the lock file that of boot and migration, but
the path is unlinked after the unlock, so two instances can hold locks on
different inodes (`overlapped` in `DbInit`); `ingest.py:67` says that files are
registered, but `WALProxyDB` has no `add_video` (`Register` in `Intake`).

## 5. Fairness

* The capture loop and each goroutine are weakly fair: the Go scheduler runs
  them, timers fire, a killed ffmpeg exits. That ffmpeg ends by itself, a signal
  arrives or a device changes is not assumed.
* The broker's goroutine and RabbitMQ's handling of what it received are weakly
  fair. Whether a dial succeeds or a connection lasts is not assumed; the
  liveness property has the lasting link as its premise.
* An instance inside `__init__` is weakly fair, and strongly fair in getting the
  lock: the kernel grants a lock that becomes free again and again.
* Scans start again and again and their threads run. Clean-ups need not happen.
* A request that is past `open` keeps receiving its chunks and queued tasks run;
  uploads need not begin and crashes need not happen.
* Worker threads run. No fairness for handlers, deletion or clean-up.
* Coroutines that can go on do. A coroutine that waits for a lock is strongly
  fair, because `asyncio.Lock` serves in order, and so is a send, because a
  client that lags is read from or dropped by the server's pings, and cannot lag
  faster than a send completes for ever. Clients need not send commands.
* A request's thread takes its batch to the end (`services`).
* A track that waits for a buffer is served when one is free: `asyncio.Queue`
  serves in turn. The WiFi loop and the API's threads run on; asking the system for its
  connection, which can fail at any time, does not fail for ever (strong fairness
  of `Poll`).

`CHECK_DEADLOCK FALSE` in every configuration: the daemon exits, bounds are used
up, requests and instances end.

## 6. Proofs

All theorems hold for every value of the constants that satisfies the modules'
named assumptions, which say that bounds are numbers, that the values for
"nothing" and "nobody" are none of the things they stand in for, that a
function like `Target` has its domain, and that the readers, the recordings of a
group and those of the routes are different ones. `SnapshotsAreWhole` has the
premise that the snapshot has a path of its own. Nothing else is assumed of the
constants: in particular a still stretch may be asked for of no frame at all. What
the properties themselves except is in their comments. TLC evaluates the
assumptions in every run.

**CaptureDaemon_proofs.** `IInv` is `TypeOK`, `NoOrphanRunner` and
`StopFuncMatches`, with two facts that make them inductive: a living goroutine
has used fewer than `MaxFails` failures (or `fails` would leave its type), and
`todo` contains listed devices only (or `Launch` could register a cancel func
for a device that is not in the registry). `NoOrphanRunner` and
`StopFuncMatches` need each other: a poll cancels what it forgets only if the
func it finds under a device stops that device's goroutine. `OneActiveRunner`
follows at once: two uncancelled goroutines of one device would both be the one
registered for it. `CancelOnlyWhenGone` is proved step by step from `IInv`, and
`AnnouncementsMatch` from a second invariant that gives, for each program
counter, whether a recording is announced and whether ffmpeg lives.

**Broker_proofs.** Typing first: the message in hand is a proper number while
it is published and awaited. Then the order invariant: the delivered messages,
the wire, the hand and the buffer are each sorted, in this order, and below
`nextMsg`. This is what the refinement needs: the abstract `Deliver(m)` requires
that nothing below `m` stays pending, and the head of the wire is the least of
all. Every step is then a `Send`, `Lose`, `Deliver` or a stutter. `LossIsBounded`
needs to know how much can be on the wire (`WireInv`): while the goroutine pumps
it reads one confirmation per message and is one behind, because nobody reads
`service_up`'s, so a failing connection takes at most two messages.

**DbInit_proofs.** The invariant says what a script has created by each
statement, that `user_version = 1` implies the whole schema, and that without an
overlap or a kill a database without a version is empty but for what the one
running script made. The lock plays no part in the first result:
`ReadyMeansMigrated` holds because `user_version` is set last and no object is
ever dropped, although instances can overlap.

**MediaIndex_proofs.** A stamp that a row or a thread remembers is followed to
the file that has it now. `SeenAt`: that file is where it was read, or has been
there. `Agrees`: once the hash is made, the file with the stamp has that content
or has left the path. Stamps are unique, since each write makes a new one. A file
that has left the path and has not come back cannot be the one the row is about,
so the stamps differ. That it may not come back is necessary: stat `a`, move `a`
away, write another file to `a`, hash it, move the first back, store. The row
then has the wrong hash under the right stamp, and no scan looks again. The
exception is part of `StaleIsDetected` (`returned`). For `SearchFinds` the
index is followed: every row has its entry but those that `clean_all` has
stripped (`IndexInv`), through deletions that leave entries, numbers that are given
out again, and clean-ups between two steps of a scan.

**Intake_proofs.** Without a collision of names, of the uploads under one name
all but one are done, so a name that is opened has no file and the new inode is
nobody else's; each inode has one place, in the staging directory or in the
store; each stage of an upload has as much of the body in its file, and its digest,
as its place says. From this both invariants follow. A crash turns a request whose
body was still coming into one that owns its file and never goes on, and drops an ingest,
whose file is then whole in the staging directory or in the store, wherever in
the ingest the crash came; that is kept by whatever later uploads do.

**Jobs_proofs.** `sys.stdout` is, or will be again, a buffer of a call in
progress, the console or a dead one; a call that none has overlapped is the only
one inside, and what it has printed is in its buffer (`LoneCallIsRight`), whatever
raised before it. For
the job table, where the worker is bounds the file it is at and the progress it
has recorded, and whoever is at work finds no final status.

`Commands`: while a front end is at work, the results so far already are what a
caller could rely on (`AtWork`), so that printing them only shows it. The step is
one lemma (`ObjectKeeps`), with what a command changes as its premise; each way
through `dispatch` then says what it changes. That a removed path is not on the
list any more needs that none is on it twice (`MountsDiffer`).

`FrameTools`, for films of any length. While `_run_opencv` scans, the still frames
it counts are those since the last motion, and the list has the long stretches
that ended (`ScanInv`); with the last one the list is complete. For a duration of no
frame the list stays empty (`NothingKeeps`). Ranges that are
apart leave gaps that cover all frames outside of them, and nothing else. A chain
of `trim` filters is a recursive function. The library's induction theorems cannot
be used, since they have an operator as parameter, but its theorem that the order
of the numbers is well founded has none, and gives induction over sets of numbers
(`SetInduction`). With it the function is shown to exist and followed: what is left always lies in
the first gap kept, because each filter counts from the start of what the one
before has left, and a second gap begins behind all of it. For the extraction, the
frame looked at last is one interval back (`SampleInv`).

**Recorder_proofs.** Whoever holds `_recording_lock` may count on the feed's
process and recorder being what its place says. A broadcast under way has
reached some members and not others; those it has reached have heard what it
announces or later. `ToldIsStoppable` needs that a live status task implies a
recorder or somebody who is stopping it, and `NoStatusAfterStop` that nobody has
heard the end while the task lives.

`Captures`: where a recording or a reader can have the device open, and that
what is over has not (`PlacesInv`); which name an inode has, and that it is in the folder
or in the store but not in both (`InodesInv`); that a file that was hashed can only
have been changed by another recording that had it open, and that nobody writes to a
stored one that was left alone (`ContentInv`). Stops that ingest one folder at the
same time are any interleaving of these steps.

**Services_proofs.** `Copies`: both tables, the current and the flushed, are
true, because a crash goes back to the second; a destination a run has open is
nobody else's or is excused. `Batches`: what was taken and what is left make
up the batch, and the counters count what was taken. `Snapshots`: there is one
file, and the pages that a checkpoint has moved agree with the log until it is
emptied, whoever moved them. The copy's pages are those of
the file as long as no checkpoint of the writer overlaps it, and the file is
whole when the copy begins (`WholeInv`). `~SamePath` is a premise: TLC shows the
property false without it. `Lifecycle`: a cleaner is not registered yet, on the
list, in the hands of one frame, or called, or lost with the frame that had it;
the bus cleaner is registered first, so when a frame has it the list is empty and every
frame on top only tests it, which is why an IndexError can never lose it
(`OnTopOfBus`); the list is empty when the process leaves its exit handlers.
`DeviceCache`: the time that is kept is no later
than the list by more than a scan. `CameraAgent`: the registrations are those that were
spoilt and, while credentials are on their way or stored, one more (`AgentInv`).
`NetPaths`: a process keeps on its list what its threads have set, and the
file has what any process has written, both but for what is contested; between
truncation and write there is a file without a section or one that cannot be
parsed, and each needs its own case (`NetInv`). `Preview`: a buffer is in the
pool or was lost to a frame of another shape, so that a track that waits finds
one or all were lost that way; a capture is open until the connection ends,
and for ever if the session was refused (`BuffersAreNotLost`).

Only model-checked are the liveness properties of the runs, for which the prover
has no support here (fairness and ENABLED): `StableDeviceIsServed`,
`StopsAreServed`, `StableLinkDelivers`, `StartTerminates`, `ScansConverge`,
`UploadsAreStored`, `JobsSettle`, `CommandsEnd`, `EveryBatchEnds`,
`WaiterIsServed` and `StatusConverges`, with the last one all that is claimed of
`Wifi`. Every invariant and action property of the passing runs is
the consequence of a theorem. No module declares a recursive operator; recursion is
by functions over an interval of numbers.

## 7. Not modelled

`components` in `PROJECT.json` lists every part with its status.

* **DAM.** Every entry point fails at its first step at this commit
  (`HierarchyManager` has no `get_video_duration`, `get_video_info` answers
  None), so that nothing the rest would do is ever reached.
* **camera-proxy, gateway and middleware, pipeline manager, schema registry.**
  Stand-alone Go services; the first two are the plan's last step.
* **Within modelled parts**: `capture_multiple`, NDI streams (which raise a
  NameError) and the choice of encoders; the fallback lock file under `/tmp`;
  the preview socket; the shape of results and option parsing; subscriptions of
  the event bus and the plug-in scan; WHIP negotiation of the camera agent;
  `handle_new_credentials` of the WiFi manager, which has no caller.
* **Abstracted away, and worth knowing**: staging directory or folder and store are
  one file system, so that a move into the store is a rename; two recordings that start within one
  second on one device have one file name (`ffmpeg.go:144`); `Publish` after
  `Close` panics (`broker.go:81`), but nothing calls `Close` at this commit; a file that cannot be read for a moment is
  stored under the hash of its path with its real stamp and not looked at again
  (`scanner.py:148`; `StaleIsDetected` and `ScansConverge` allow for it).
* `server.py` breaks off in the middle of a statement at line 419 and cannot be
  imported at this commit; `Jobs` models what the lines before it say.
* User interfaces, installers, container files and drivers hold no state the
  properties are about; image analysis, embeddings and ffmpeg are others' code.
