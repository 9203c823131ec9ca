# Mekami in TLA+

Mekami keeps a SQLite index of a source tree up to date and answers questions
about it. This directory holds TLA+ models of the parts whose correctness
depends on the order of events, the TLC runs that check them on small
instances, and proofs, checked by TLAPS, of what holds for every instance.

Line references are to `src/`; `PROJECT.json` maps every definition to the
lines it stands for, lists the hazards with the properties that would catch
them, and lists as findings, each with both places, the disagreements between
the code and what its documentation or comments say that we met while modelling.
Three of them have a run of their own that shows them.

## The system

| Component | State | Operations | Talks to |
|---|---|---|---|
| **Watch loop** (`mekami-cli/internal/watch`) | events map, timer, wakeup token of the Coalescer; the Source's channel; the reader, pump and loop goroutines | receive, filter, `Add`, flush, `Drain`, `handleBatch`, `FlushImmediately`, shutdown | kernel (events), ingest (builds), daemon process (ctx) |
| **Poller source** (`poller_source.go`) | last snapshot of size and mtime | tick, walk, diff, emit, stop | the watch loop, as another Source |
| **Watcher daemon process** (`watch/daemon.go`, `ipc_server.go`, `heartbeat.go`, `log.go`, `paths.go`) | `watcher.pid`, `watcher.sock`, heartbeat file, log and three backups, the signal ctx and the `stopped` channel | boot, one handler per connection, stop, reload, signals, beats, log rotation and its failures, the defers | supervisor (IPC, signals), watch loop |
| **Supervisor** (`internal/supervisor`) | one `Daemon` record per root under `s.mu`, done channels | `Start`, `Stop`, `Restart`, `Reload`, `HandleQuit`, `checkOne`, `waitProcess`, adoption, `LoadFromRegistry`, `shutdownAll` | daemons (fork, signals, IPC), clients, registry |
| **Registry** (`registry.go`) | a slice of records, `daemons.json` | `Find`, `Upsert`, `Save`, writes through pointers | every goroutine of the supervisor |
| **Watchdog** (`watchdog.go`, `sentinel.go`, `cmd/mekami`) | `supervisor.pid`, `supervisor.sock`, `watchdog.pid`, the stop sentinel, the miss counter | ping, kill, respawn, retire; quit and quit-all; `ensureSupervisor`, uninstall | supervisor, clients |
| **Inotify budget** (`inotify_budget.go`) | watches per daemon | levels, warnings | supervisor |
| **Ingest** (`mekami-cli/internal/core/ingest`) | rows by file, content hashes, meta keys, one transaction | `Build`, `BuildIncremental`, prune, sweep, commit | store, frontends |
| **Store** (`core/store`) | SQLite tables, meta | transactions, `WriteParseResult` | SQLite (external) |
| **Queries** (`core/queries`, `core/graph`, `core/path`, `core/diff`) | none between calls; within a call, a frontier, a tree, a stack | `SELECT`s; breadth-first search, shortest path, import cycles, diff | store, and the disk for `diff` and bodies |
| **Tool handlers** (`internal/handlers`) | none between calls | one handler per read tool: queries, caps, trims, marks | queries |
| **MCP server, formatting, naming** | none | registration, texts of answers | tool handlers |
| **Command line, configuration, frontend installation** | files of the user | parsing, service files, tool chain | all of the above |

What is hard, and the properties that make each part correct:

* *Watch loop.* `Add` signals after it unlocks and `Drain` takes the token
  before it locks, with a timer callback in between; three bounded queues; a
  build that takes long while the files under it change; failures that are
  logged and never tried again; a shutdown that has to get three goroutines out
  of the way in order. It is correct when no wakeup is lost, no save is lost
  without being logged (a file that a build skips is only counted), rows never go
  backwards, the index settles, and a cancelled watcher stops.
* *Supervisor.* Every operation releases the lock around everything that
  blocks, so commands, the health tick and the `waitProcess` goroutines
  interleave in the middle of each other; daemons and supervisors crash
  anywhere; both files of a daemon outlive it and are removed *by name*. It is
  correct when a project has at most one watcher, when the watcher it has can be
  found again, when a stop leaves none, when every command returns, and when a
  death is noticed.
* *Ingest.* Several builders share one database and no lock of their own; each
  looks at the database, the tree and every file at different times; a build can
  fail, or be refused by SQLite, anywhere; a build by hand may unlink the
  database. It is correct when rows that differ from their file are awaited by
  somebody or logged, when two builds never overwrite each other's commits
  unseen, and when the rows catch up.
* *Poller.* A walk takes time, and files change between the look at the first
  and the look at the last; the snapshot is replaced before its differences are
  emitted, so what is not emitted then is never compared again. It promises what
  the inotify source promises.
* *Daemon.* Main waits in turn for a ctx and for a channel, which are ended by
  different things (a signal ends only the first); signals are caught only from
  `NotifyContext` to the first `cancel`, and kill the process before and after;
  every connection has a goroutine of its own, which may log when the log is
  closed; a log call may fail at each of its file operations; a panic or a kill
  skips all of the defers. It is correct when what it leaves behind has one of
  the causes that can be named, when a stop it acknowledged takes effect, when
  one that has gone deaf can be told by its heartbeat, and when its log lacks
  nothing but what a failure has cost.
* *Watchdog.* Four files, each written without a look at who wrote it before and
  removed by name, two processes that decide by timers that the other has died,
  and calls whose failure is only warned about. It is correct when there is one
  supervisor, with a watchdog, when a hung supervisor is replaced and when a stop
  is final.
* *Registry.* `Find` returns a pointer into a slice that other goroutines sort
  and grow. It is correct when a root has one record and what the table knows
  gets to the file.
* *Queries and tools.* A tool is several queries without a transaction around
  them, so builds commit in between; limits cut an answer at several places, and
  a cut that is not marked reads like a complete answer. They are correct when
  an answer read in peace is exact within its limits, and when one read while
  the index moves is at least well formed.

## Modules

| Module | What it is |
|---|---|
| `IndexSync` | Abstract specification: what any watcher promises about disk, index and the losses it has written down |
| `WatchLoop`, `MCWatchLoop` | `RunLoop`, `Coalescer`, `FsnotifySource`, `handleBatch`; its instance for TLC |
| `PollerSource`, `MCPollerSource` | the other Source, against the same `IndexSync` |
| `Daemon`, `MCDaemon` | one daemon process from the inside |
| `Supervisor`, `MCSupervisor` | one project root: the supervisor's goroutines and the daemons they fork |
| `Registry`, `MCRegistry` | several roots: the supervisor's table in memory and on disk |
| `Watchdog`, `MCWatchdog` | supervisors, watchdogs and clients as processes of one machine |
| `Ingest`, `MCIngest` | the builds of one index by several processes |
| `Queries` | the index as rows, one operator per `SELECT`; no state |
| `Search`, `MCSearch` | `dependents`, `trace_calls`, `circular_imports` over `Queries`, one query per step |
| `Handlers`, `MCHandlers` | the listing tools over `Queries`, one query per step |
| `WatchLoopProofs`, `PollerProofs` | inductive invariants, safety and the refinement of `IndexSync` |
| `DaemonProofs` | how a daemon leaves, and what its log tells |
| `SupervisorProofs` | type correctness; one watcher per root, adoptable, and stops that stop, until one of four troubles; the soundness of `Registry` |
| `WatchdogProofs` | one guarded supervisor, and stops that are final |
| `IngestProofs` | type correctness, serializability of builds by hand, no silent staleness |
| `SearchProofs` | the tree stays a tree; what trees, paths and cycles say of the stored rows |
| `HandlersProofs` | the one panic, the body of a symbol, the buckets of `show_changes`, the head of a trimmed tree |

How they fit together: `WatchLoop` and `PollerSource` are two implementations of
`IndexSync`. `Daemon` is the process around a watch loop, which it sees as a
`loop` that returns when its ctx is done; `Supervisor` sees that process from
outside, with its successors; `Watchdog` sees the supervisor from outside, with
its successors, and its daemons as one step of shutting down. `Registry` is the
table behind `Supervisor`'s `reg`. `Ingest` is the build that `WatchLoop` starts,
together with the builds by hand beside it, and its commits are what `Commit`
and `Reindex` do under the searches and handlers.

`WatchLoop` abstracts a build to the versions it reads and commits; `Ingest`
abstracts the watcher to a set of paths it has events about, and shows what one
build is made of and what happens when others run beside it. `Supervisor` sees a
watcher from outside only.

### WatchLoop

A file is a member of `Files`, its content a version number that grows with
each save (`disk`). `index` is the version its rows reflect. A path is either
accepted by `Filter.Accept` (`Files`) or not (`Noise`); the kind of an event is
left out, because the loop only prints it. The state follows the code:
`kernel` is the fsnotify queue, `out` the Source's channel, `pending` the keys
of `Coalescer.events`, `wakeup` the token in its channel of capacity one,
`timer` its debounce timer, `stop` the channel that ends `Drain`, and
`reader` and `loop` are the places where the two goroutines are.

| Actions | Code |
|---|---|
| `EditSeen`, `EditOverflows`, `EditUnseen`, `EditNoise`, `SourceCloses` | the environment: saves, seen or not, and a Source that breaks |
| `Pump` | `FsnotifySource.run` |
| `ReaderRejects`, `ReaderAdds`, `ReaderDrops`, `ReaderSignals`, `ReaderExits` | the reader of `RunLoop` and `Coalescer.Add`, split at its unlock |
| `TimerFires` | `Coalescer.flush` |
| `StopCloses` | the goroutine that turns `sourceDone` into `stop` |
| `DrainWakes`, `Drained`, `DrainStops` | `Coalescer.Drain`, split where it has the token and not yet the lock |
| `HandleBatch`, `ReadFile`, `SkipFile`, `BuildCommits`, `BuildFails` | `handleBatch` and the build it starts |
| `Attach`, `FlushReturns` | the start and the end of `Run` and `RunLoop` |

Two bookkeeping variables make "lost in silence" something one can state:
`noted` is the newest version whose loss is logged (a kernel overflow, a full
coalescer, a failed build) or whose file a build has skipped, and `unseen` the
newest version that no Source was in a position to see. No guard reads them. A
skipped file leaves less of a trace than the others: it is counted in
`stats.SkippedByReason`, which `handleBatch` drops without a line in the log
(`watcher.go:294-302`, a finding). `Ingest` keeps the two apart.

### Supervisor

A daemon process is a number, in the order of forking, and `ps` says how far it
is: `forked`, `named` (pid file written), `doomed` (told to stop while
booting), `serving`, `deaf` (answers IPC, watches nothing, waits for the stop
that only IPC brings), `closing`, `unbound`, `zombie`, `gone`. `pidfile` and
`sock` are the project's two files. `d` is the `Daemon` record, `reg` and
`policy` the record in `daemons.json`; done channels are numbers (`made`,
`closed`), and `waiters` are the `waitProcess` goroutines. `pc` is where each
thread is: IPC requests (`Clients`), restart goroutines of `checkOne`
(`Backoffs`) and the `Run` goroutine. One action is the code between two points
where `s.mu` is released, so a command is 5 to 9 actions, and everything else
may happen in between.

| Actions | Code |
|---|---|
| `StartChecks` ... `StartFinishes`, `StartCannotSpawn`, `StartTimesOut`, `StartGivesUp` | `Start`, `tryAdoptAtStart`, `adoptDaemon`, `cleanStaleDaemonState`, `SpawnDaemon`, the probe |
| `StopBegins` ... `StopPersists` | `Stop` and `killProcess`; also the first half of `Restart`, and `shutdownAll` |
| `AsksStart`, `AsksStop`, `AsksRestart`, `AsksReload`, `AsksQuit` | the commands of the IPC server; `Reload` where it differs from the others |
| `HealthSnapshots` ... `HealthPersists`, `HealthSchedules`, `BackoffWakes` | `checkOne` and its restart goroutine |
| `WaiterReturns` | `waitProcess` with its deferred `close` |
| `RunShutsDown`, `RunReturns`, `SupervisorCrashes`, `SupervisorStarts` | the life of the process, `LoadFromRegistry` |
| `WritesPid`, `Binds`, `BootFails`, `LosesSource`, `Unbinds`, `Exits`, `DaemonCrashes` | the daemon from outside (`DaemonEntryPoint`) |

A dead child stays a zombie or does not, chosen at the fork from `Unreaped`:
`{FALSE}` is Windows, where a dead child is no longer reported alive; `{TRUE}` is
Unix, where `SpawnDaemon` (`spawn.go:128`) releases the child, nobody waits for
it, and signal 0 goes on reaching it until its supervisor ends; with `BOOLEAN`
each child chooses, which covers both. Daemons boot and leave at any pace, so
every timeout of the supervisor may run out. `Serial` says whether a run looks
only at behaviours in which commands do not overlap; it restricts a run, and no
property or theorem rests on it.

The code does not keep a project to one watcher unconditionally. `trouble` is a
history variable with the first of four things to happen, which no guard reads:

* `overlap`: a command or a restart begins while another is under way. Start
  releases `s.mu` between its check and its mark, so two of them both fork.
* `timeout`: Start gives up on a daemon that is still booting. It comes up later,
  and by then the record says that there is none.
* `stale`: `cleanStaleDaemonState` leaves a socket nobody listens on, because the
  process in `watcher.pid` is a zombie. The probe of the next daemon finds that
  socket at once, and the health check takes the daemon that boots for crashed.
* `unseen`: a supervisor comes up while a daemon boots or leaves.
  `LoadFromRegistry` finds no socket that answers and marks the record crashed.

`OneWatcherPerRoot`, `WatcherIsAdoptable` and `StopLeavesNoWatcher` are claimed
while it says "none", and `CommandsReturn` and `CrashIsNoticed` always. Two
violation runs show what the documentation says without such a condition:
`NeverTwo` (`watch-mode.md:53`) does not survive an overlap, and `StaleIsCleaned`
(`watch-mode.md:55`) not even one command after the other on Unix: a Start, a
`stop --force` that leaves a zombie with its socket, a Start whose cleanup spares
that socket, and a Start that finds nothing to adopt yet and forks a second.

The other disagreements here are findings without a run. The death of a zombie is
not noticed, so no restart follows on Unix: `CrashIsNoticed` speaks of processes
that are gone. `done` has two closers (`supervisor.go:601` and `:1175`), and
`WaiterReturns` has the panic of the second, through which the properties hold. A
supervisor that dies between the fork and the save of the registry leaves a
watcher that `LoadFromRegistry` does not look for; the next Start finds it.

### Ingest

`disk[f]` is the content of a file, or `Gone`; a content and its sha256 are one
value. `rows[p]` is what the database has committed about a path: the hash in
its `files` row and the content its symbols were made from, which the code
obtains by two different reads. `Own` are the files of the language that is
built, `Foreign` paths of a language the project has since dropped. `hasRoot` is
the meta key `last_root`. A builder is at `pc`, has compared with `prev`, has
`todo` left, has hashed but not parsed what is in `hashed`, and will commit
`staged`. SQLite is external, and three variables are all there is of it:
`writer` holds the write lock, `snap` says whether a transaction has read
anything and whether that is still the latest state, `orphan` that its database
file has been unlinked.

| Actions | Code |
|---|---|
| `Edit`, `EditStructural` | the environment; every edit is an event for the watcher |
| `TakesBatch`, `NoLastRoot` | `handleBatch`: full or incremental, and its second try |
| `ByHand`, `ByHandClean` | `mekami build`, with `--clean` |
| `Stamps` | `last_root`, `last_build_at`, each in a transaction of its own |
| `Walks` | `walk.MatchingFiles` |
| `ListsLangs`, `DropsLangs` | `pruneDisabledLangs`: the read that fixes the snapshot, the deletion that takes the lock |
| `LoadsPrev` | `queries.AllFiles`, on a connection outside the transaction |
| `Checks` | the first hashing in `BuildIncremental`, and its deletions |
| `Unchanged`, `Hashes`, `Parses`, `Skips` | a worker of `ingestFilesParallel`, file by file, with any other builder and any save in between |
| `Writes`, `Commits` | `WriteParseResult` of everything, the sweep, `Commit` |
| `Fails`, `Busy` | any error, a done ctx or the death of a build by hand; `SQLITE_BUSY` |

A build may lose track of a file and say nothing, in three ways. `lapsed` is the
history of the files this has happened to, until they are saved again or the
database is made anew: the watcher skips a file that cannot be read or parsed and
drops the count; a full build *with* the project's languages, as the supervisor's
daemons make it (`langs`), keeps the rows of files that are gone
(`build.go:208`); a full build *without* them, as `mekami watch` in the
foreground makes it, sweeps by row id, and ids are used again, so it may delete
the rows of a file it has just indexed (`build.go:212`). All three are findings;
`how-it-works.md:24` promises that files which disappeared are removed in the
same pass.

A file is hashed and then read again to be parsed (`build.go:406`), and it may be
saved in between, in the model as in the code. If that save is undone later, the
row has the right hash and the wrong symbols, and no build looks at it again (a
finding: `fingerprint.go:13-14` relies on the opposite). So what the properties
can speak of is what the index believes: `Believed(f)` says that the file has the
content of its row's hash or of its row's symbols.

### PollerSource

A file's version has a stat (`StatOf`): a pair of size and mtime that two
versions may share, or `Gone`. `seen` is the snapshot, `cur` and `left` the walk
that is under way, `todo` the differences still to be emitted, `out` the channel.

| Actions | Code |
|---|---|
| `Edit` | the environment: saves and removals, also in the middle of a walk |
| `Tick`, `Look`, `LookFails`, `WalkEnds` | `run`'s ticker, `takeSnapshot` file by file, and the replacement of the snapshot in `diffAndEmit` |
| `Emit`, `EmitDrops`, `EmitStops`, `EmitDone` | the rest of `diffAndEmit`, with `tryEmit` on a full channel and on a stop |
| `Stop`, `Exits` | `Stop` and the end of `run` |
| `Consume` | what `RunLoop` makes of an event, in one step (`WatchLoop` has all of them) |

`unseen` are the versions the poller cannot tell from what it saw last: edits
before the first look, and edits that keep size and mtime. A look that fails
leaves the file out of the snapshot (`poller_source.go:135-172`), so the file
looks removed; if it really goes before the next tick, there is no difference
left to see, which the properties count as seen (the consumer looks at the disk,
not at the kind of the event).

### Daemon

One process, from its pid file to its last defer: `main` is where
`DaemonEntryPoint` is, `armed` whether SIGTERM goes to `NotifyContext`, `conn`
where the handler of each connection is, `heart` whether the heartbeat's
goroutine runs, `end` how the process has ended. Log lines are numbers in the
order they were written, of sizes `LineSizes`; `files` are the log and its three
backups, `writer` is `fileLogger.w` with the two ways in which it may be nil, and
`lost` the history of the lines that a failed operation has cost.

| Actions | Code |
|---|---|
| `WritePID`, `OpenLog` (`PreRotates`), `Arm`, `Bind`, `BootFails`, `MainLogs`, `StartLoop` | `DaemonEntryPoint` up to `RunLoop`, with the lines it logs |
| `LoopReturns`, `Leave` | `RunLoop` is done, `<-stopped` |
| `Shutdown`, `Cancel`, `CloseLog`, `RemovePID` (`Defers`) | the rest of the way out, one by one |
| `Signal` | SIGTERM and SIGINT: while `armed` the ctx is done and that is all, before and after they kill |
| `Killed` | SIGKILL, at any point |
| `Connect`, `HangUp`, `HandleReload`, `HandleStop` | `acceptLoop`, `handle`, `dispatch` |
| `OnStopCancels`, `OnStopChecks`, `OnStopCloses` | `onStop`, split where another stop may come in between; its `cancel` also ends `armed` |
| `Beat`, `HeartStops`, `GoesStale` | the heartbeat, and the thirty seconds after which it counts as stale |
| `WriteLine` (`Rotated`, `Writes`), `WritesToNil` | `fileLogger.writeLine`, `rotateLocked` |

Every rename, open and write of the log may fail by itself. `rotateLocked` goes on
after a rename that fails, which overwrites what was in its way; a failed open
drops the line and leaves `w` nil; a failed write is not noticed. None of this
leaves a trace: the note of a failed rotation goes to a stderr that
`detachStdio` has made `/dev/null`. A line written to a nil `w` panics, after a
failed open or, from a handler that is still at work, after `Close`.

A reload reads the configuration and stores what it has just read
(`ipc_server.go:222`), so all it changes is the log. The heartbeat's watch over
the supervisor is left out: `daemon.go:216` reads `_MEKAMI_SUPERVISOR_PID`, which
nobody sets (`spawn.go:92` sets another name), so it never starts; a finding says
so, and that giving up would not have ended the daemon either.

### Watchdog

A process is a number; `pc` says whether it is a supervisor or a watchdog and
where it is. `supPid`, `wdPid`, `sock` and `sentinel` are the four files.

| Actions | Code |
|---|---|
| `ClearSentinel`, `WritePID`, `StartWatchdog`, `Unlink`, `Listen`, `BootFails` | `runSupervisorMain` up to serving |
| `Quit` | `quit` and `quit-all` over IPC; the socket goes at once |
| `DaemonsStopped`, `SetSentinel`, `SignalWatchdog`, `Leave` | `HandleQuitAll` (or `HandleQuit`) and the defers |
| `Wedge`, `Crash` | a supervisor that hangs; one that is killed or panics |
| `Announce`, `Look`, `Tick`, `ProbeAnswered`, `ProbeMissed`, `Kill`, `Sweep`, `Respawn`, `Retire` | `runWatchdogMain`, `watchdogRunTuned` |
| `ClientStarts`, `Cleanup` | `ensureSupervisor`, `service uninstall` |
| `Fails` (`Warns`) | the calls whose failure is only warned about: clear the sentinel, write the pid file, fork the watchdog, set the sentinel, announce, respawn |
| `WatchdogDies` | a watchdog that is killed by anybody but a quit-all |

`trouble` is again a history variable, here ranked, with the worst that has
happened so far:

* `unwatched`: a supervisor runs, or is to run, that no watchdog can look after,
  because a call that only warns has failed or its watchdog was killed;
* `slow`: a supervisor that boots or leaves has missed all but one of the probes
  that the watchdog allows;
* `second`: a client starts a supervisor beside what is left of another. Nothing
  in the code sees to it that it does not: `ensureSupervisor` pings, and
  `commands.go:924` writes the pid file without a look.

That there is one supervisor, and that a stop is final, holds through failed calls
and dead watchdogs, and ends with `slow`; that it is guarded ends with
`unwatched`. `StopIsFinalWhenSlow` makes the claim through a slow stop, as the
comment at `watchdog.go:158-161` does, and `watchdog_slow_stop` refutes it: the
misses are not tied to a pid, the sentinel is set last, and the watchdog kills
whatever process the pid file names by then.

`SignalWatchdog` sends `os.Kill` where its comment says SIGTERM; the model has
what it sends.

### Registry

`mem` is the slice, `array` and `cap` its backing array, `mu` its mutex, `disk`
the file. A record is its root and the number of the last write to it. A
goroutine begins one of three things (`Begin`): `start` (`Upsert`, `Save`),
`note` (`Find`, write, `Save`), `register` (`Find`, write or `Upsert`, `Save`).

| Actions | Code |
|---|---|
| `Find`, `Upsert` | under the mutex |
| `Write` | `ds.LastState = ...` through the pointer, under no lock |
| `SaveLocks`, `SaveEncodes`, `SaveRenames`, `SaveFails` | `Save`: sort in place, encode, rename |
| `Restart` | the supervisor dies, `LoadRegistryAt` |

The write is a data race with the swaps of the sort and with `append`; `Hits` is
the set of records it may end up in: its own, another root's, or none that is
read again. `strayed` remembers which roots that has happened to: the table may
miss such a write, and `TableIsSound` says that it misses no other and that even
these never give a root two records. The comment at `registry.go:86-89` says that
a file lock keeps writers apart; no such lock is taken (a finding).

### Queries, Search and Handlers

`Queries` has the rows of the index as sets of records, and one operator per
`SELECT`, with its filters, its order where a caller depends on it, and its
limit. `Search` and `Handlers` run tools over it: each step is one query with
the work done in memory on its rows, and between two steps a build may commit
(`Commit`, `Reindex`) or a file may be edited (`Edit`).

| Actions | Code |
|---|---|
| `StartDependents`, `ResolveTarget`, `Expand`, `FinishBfs` | `dependents` with `resolvePackageID` and its errors, `graph.BFS`, the marks of `buildDependentTree` |
| `StartTrace`, `CheckTo`, `FollowCalls`, `NoPath`, `Reconstruct`, `Synthesize` | `path.Between` and `reconstruct` |
| `LoadImports`, `PickRoot`, `Look`, `Return`, `ReportCycles` | `queries.ImportCycles`: one query, then a depth-first search |
| `OneQuery` | the tools that are one query and a cap |
| `StartListFile`, `ResolveOutline`, `ResolveSuffix`, `Outline` | `list_file`, with the two queries of `ResolveFilePath` |
| `StartGetSymbol`, `FindSource`, `ReadSource` | `get_symbol` and `SourceSlice` |
| `StartListPackage`, `ResolvePackageID`, `ListPackage` | `list_package` |
| `StartTypeHierarchy`, `ListMembers`, `ListImplementers` | `type_hierarchy` in mode `all` |
| `StartListFiles`, `ListFiles` | `list_files`, `FileTree`, `trimFileTree` |
| `StartShowChanges`, `ReadDirectory`, `Visit`, `FinishDiff` | `show_changes`, `diff.SinceLastBuild` |

What SQL's LIKE matches depends on wildcards in the input and on case, so it is
constant relations: `PrefixLike`, `SuffixLike` and, for the short names of
packages, `Suffixed`; `PathLength` is what "shortest" compares. An assumption
ties them to paths (`LikeAssumption`): what lies below a directory is LIKE its
path and what ends with a path is LIKE it, and more may be. The instance of
`handlers` has two files beside the prefix `b` that LIKE brings in. `Place` is
where `FileTree` hangs a file: at its path when it lies below the prefix, and
otherwise below the prefix by the whole of its path.

Limits are not part of what is searched. `Linked` are all the successors of a node
that the index stores, and a node is `Crowded` when it has more of them than the
`LIMIT` of the query that follows it (100 for `dependents`, 200 for
`trace_calls`), which drops the rest without a mark. Everything a tree or a path
shows is there in the stored graph; that it is complete, or shortest, is claimed
when no node that was met is crowded, and of a crowded one only that as many of
its successors as the limit allows are in the tree. A hop of `trace_calls` is a
stored call, and shows a stored row of the same two ends, which may be of another
kind (`Shows`); the hops made up after a commit are only claimed to join up.

The properties say what is true of the code, which is less than its documentation
says in places, each of them a finding: the silent limits; `max_nodes` = 1, which
always answers "no dependents"; `ref_kind`, with which `dependents` always fails
(`CanAskCallers`); the kinds of hops; the cycles that `circular_imports` misses,
where `CyclesAreFound` says only that the report is empty exactly when the imports
are acyclic and that every package on a cycle is knotted with a reported one; the
siblings in `list_files`, whose cap then does not keep the first files in path
order, and its text, which is not trimmed; the panic of `list_file`; the file that
cannot be read in `show_changes`; and the sense of `include_unexported` in
`unused`. Two more things a reader may not expect are no disagreements: `unused`
applies its limit before it takes the entry points out, and the body `get_symbol`
shows is today's file at the index's lines.

## Runs

| Run | Expect | What it shows |
|---|---|---|
| `watch_loop` | pass | The whole watcher. `NoLostWakeup`: an event in the coalescer always has a wakeup on its way. `NoSilentLoss`: a stale row has an event or a build in flight, or its loss was logged, or nobody could see the save. `FlushFindsNothing`: after `Drain` returns on stop nothing can be left. `RefinesIndexSync`: the rows only move forward and never past the disk. `EventuallySettled` and `ShutdownTerminates`. |
| `poller` | pass | The poller makes the same promises: `NoSilentLoss`, `RefinesIndexSync`, `EventuallySettled`, with edits in the middle of walks, looks that fail and a full channel. |
| `daemon` | pass | `LeavesCleanly`: a daemon that returns has removed its files; they outlive it only after a SIGKILL, a SIGTERM that nobody caught (with the socket up, only after a stop), or one of two panics, each with its cause. `LogIsASuffix`: the log tells the lines in order, and a missing one is older than the oldest kept or is one a failure has cost. `StopEndsTheDaemon`, `DeafGoesStale`. |
| `supervisor` | pass | One command after the other, crashes anywhere, daemons of any slowness, and children of which any may be reaped or stay a zombie: `OneWatcherPerRoot`, `WatcherIsAdoptable`, `StopLeavesNoWatcher` until the first trouble; `CommandsReturn` and `CrashIsNoticed` throughout. |
| `supervisor_two_starts` | violation | `watch-mode.md:53` against `supervisor.go:398`: two overlapping Starts of one root fork two daemons. |
| `supervisor_unix` | violation | `watch-mode.md:55` against `spawn.go:128`: where nobody reaps, a stale socket survives the cleanup, and a second watcher comes of it, one command after the other. |
| `registry` | pass | `TableIsSound`: one record per root, each up to date and saved unless a pointer strayed or a save failed. `NothingIsForgotten`: a root in the file stays in it. |
| `watchdog` | pass | `OneGuardedSupervisor`, `StopIsFinal`, `WedgedIsReplaced`, `WatchdogsLeave`, each until the trouble it is stated for. |
| `watchdog_slow_stop` | violation | The comment at `watchdog.go:158-161` against `supervisor.go:999-1011`: a supervisor whose daemons take long to stop is killed and started again, although it was told to stop. |
| `ingest` | pass | A watcher and a build by hand on one database. `NoSilentStaleness`: a row that differs from its file has an event or a build of the watcher, or was logged, or is one of three silent losses (`lapsed`). `HandsAreSerial`: a build by hand replaces exactly the rows it has compared with. `CatchesUp`: rows that have fallen behind catch up, or their loss is logged, or is such a silent one. |
| `search` | pass | `TypeOK`: a tree stays a tree whatever is committed meanwhile. `TreeIsExact`, `PathIsExact`: what is read in peace is about stored rows, and complete, or marked, when no node was crowded. `CyclesAreFound`. |
| `handlers` | pass | `OnlyEmptyMatchesPanic`, `BodyIsTheSymbol`, `BucketsAreExact`, `TrimKeepsTheHead`, with one edit or commit at any point of a call. |

### Bounds

* `watch_loop`: each of the three queues has room for one, so every one of them
  overflows, and blocks the goroutine before it, within a few steps. One source
  file is saved twice (one save can travel while the other is being indexed, or
  overtake it), `go.mod` once (full builds, and two different paths in a
  batch); one noise path. Behaviours with more edits repeat these; the safety
  properties are proved for all values.
* `poller`: one file that is saved to a new stat and then again with the same
  one, one file that goes and comes back; a channel of size one; one look that
  fails. 68,553 states; the safety properties are proved for all values.
* `daemon`: two connections, so two stops can overlap and a reload can outlive
  another's stop; lines of one or two bytes in files of two, so that a line fits
  or does not; four lines added to a log that begins with two at most (`MCSpec`),
  so that a start rotates or not and the oldest backup is lost; one failed
  operation at any place, which is enough for each way to lose a line and for a
  nil writer. Two failures in one rotation are left to the proof. 424,362 states.
* `supervisor`: two starts, so that a daemon is replaced by another that finds
  its files; two supervisor lives; one client and one restart goroutine, which
  under `Serial` never act at once anyway; every child reaped or not. With
  daemons of any slowness and the liveness properties, 892,777 states.
  `MaxStarts` bounds daemons and done channels; `MayStart` counts the starts
  under way, so that no thread runs into the bound in the middle of a command.
  `supervisor_unix` needs three starts, `supervisor_two_starts` two clients and
  `Serial` off; both stop at the violation. More starts, more lives and
  overlapping commands are left to the proofs.
* `registry`: two roots, two goroutines (interchangeable, hence the symmetry;
  no liveness is checked), five writes, two failed saves or restarts. Two
  goroutines suffice for every race of a write with a sort or a growth.
* `watchdog`: eight processes, three misses, two starts by clients, two faults:
  enough for a supervisor to be replaced, its replacement to crash, a call to fail
  in between, and a client to start over, each time with a watchdog. 138,586
  states. The constraint `Covered` does not follow a behaviour beyond the step in
  which `trouble` becomes `slow` or `second`, from where on nothing is claimed;
  `watchdog_slow_stop` has no such constraint and no faults. Safety is proved for
  all values, with two misses or more (the code has six).
* `ingest`: one own file, one path of a dropped language, two contents (so a
  save can be undone), two edits, one watcher and one build by hand at a time,
  which may come again and again. The properties are about one file and two
  builders at a time; the safety properties are proved for all values. 506,809
  states.
* `search`: four files with a function each, every set of calls or of imports
  along seven possible links, which have cycles of two and three and two paths
  of different length from 1 to 4; `LIMIT` 2, so that nodes are crowded; one
  commit at any point, of any content of any file. 231,263 states.
* `handlers`: four files, two of them of one name, two versions each, one of
  them shorter and, for the two, empty; the disk differs from the index in one
  file when a call begins, and one edit or commit happens at any point. An
  answer that would take two moves during one call to go wrong is beyond this
  bound. 916,836 states.
* Deadlock is not checked in any model: a watcher that has returned, a
  supervisor that is down for the last time, a tree nobody edits any more, a
  call that has been answered, have stopped for good.

### Fairness

* *WatchLoop.* Weak fairness of `Pump`, `Reader`, `StopCloses` and `Loop`: the
  Go scheduler runs each goroutine that can run, and the loop's builds end.
  `ReaderExits` is strongly fair, because the reader's `select` picks one of
  its ready cases at random and so cannot prefer events to a done ctx for ever.
  No fairness for saves, a cancel, a broken Source or the timer: settling does
  not need the timer, as `Add` signals by itself.
* *PollerSource.* Weak fairness of the poller's goroutine (its ticker ticks) and,
  until `Stop`, of the consumer; strong fairness of `Exits`, because the
  `select` of `run` does not take the tick for ever while a stop is ready.
* *Daemon.* Weak fairness of the boot, of the way down once the ctx is done (a
  loop whose ctx is not done need not return), of the steps of `onStop`, of the
  heartbeat's ticks and of time passing (`GoesStale`); strong fairness of
  `HeartStops`, for the same reason as `ReaderExits`. No client has to call and
  nobody has to send a signal.
* *Supervisor.* Weak fairness of each thread's `Start` and `Stop` steps, of the
  restart goroutines, the `Run` goroutine (a ticker) and the waiters, and of the
  steps with which a daemon boots and leaves. Nobody has to issue a command, to
  crash, or to start a supervisor.
* *Watchdog.* Weak fairness of each supervisor's and each watchdog's steps (a
  ping is answered, or not, within two seconds; daemons stop or are killed) and
  of an uninstall under way. No client has to start, and nothing has to fail.
* *Ingest.* Weak fairness of `TakesBatch` and of each builder's steps, where
  being refused by SQLite counts as a step: its wait is bounded. Nobody has to
  edit, nor to build by hand, and nobody has to fail.
* *Registry, Search, Handlers.* None: only safety is checked.

## Proofs

`WatchLoopProofs` proves `IInv`, the conjunction of `TypeOK`, `Handshake`,
`InOrder`, `NoLostWakeup` and `NoSilentLoss`, inductive, one lemma per
goroutine. The strengthening is needed for two reasons. `NoSilentLoss` speaks of
what a build has in hand, which means nothing unless versions are ordered
(`InOrder`: nothing indexed, staged, noted or unseen is newer than the disk, and
rows staged are not older than rows indexed). And `FlushFindsNothing` follows
from the order in which goroutines go (`Handshake`: stop is closed only after
the reader has left, the loop is in `flush` only after stop, and once the reader
has left nothing is added). Then:

* `TypeCorrect`, `WakeupsAreNotLost`, `NoSaveIsLostSilently`,
  `NothingIsLeftToFlush`: the run's four invariants, for any finite set of
  files, any capacities and any number of edits;
* `WatcherRefinesIndexSync`: the initial states map to initial states, each
  step maps to a step of `IndexSync` or a stutter, with `halted` mapped to
  `cancelled \/ srcClosed`.

`PollerProofs` proves, for any files, stats, channel and number of failed looks,
`TypeCorrect`, `NoChangeIsLostSilently` and `PollerRefinesIndexSync`. The
invariant adds to the type that rows are not ahead of the disk, that whatever has
not been looked at counts as unseen (a file may be edited after the walk has
passed it and before the snapshot is replaced), and that a walk begins with
nothing left to emit.

`DaemonProofs` has two independent arguments. `Footing` says which files there
are at each place of main (`FilesByPlace`), that a daemon with a socket that does
not catch signals has been told to stop (`Caught`), that a second close of
`stopped` takes two stops under way (`StopsOverlap`), and that a nil writer takes
an open that failed, and a line that it cost, or a `Close` (`NilIsNoted`);
`Endings` is about the one step in which a process ends. From it
`DaemonLeavesCleanly`. `Chronicle` says of the four log files put together that
they are in order throughout and lack nothing younger than their first line but
what is in `lost`. A line appended (`AppendTells`), a rename that overwrites what
an earlier one has left in its way (`RenameTells`) and a whole rotation in which
any of the three fail (`RotateTells`) keep that; from it `LogTellsAll`.

`SupervisorProofs` proves `TypeCorrect` for any number of clients, restart
goroutines and lives. Its strengthening `References` says where in the code each
local pid and channel has been set; what it excludes in the code is a `close` of a
nil channel and a signal to a process that was never forked.

It also proves `NeverTwoWatchers`, `WatcherStaysAdoptable` and `StopsReallyStop`,
for any number of clients, restart goroutines, starts and lives, overlapping or
not, and children that are reaped or not: the properties themselves say that they
end with the first `trouble`, and nothing else is assumed. The invariant `Sole`,
which holds until then, is about where everybody is when a daemon is in a phase
that adoption does not recognise: a booting daemon has a thread that waits for it
(`BootsAttended`), one that leaves has a Stop that waits for it or a record that
still claims it (`EndsAttended`); a thread that is about to fork knows that
nothing lives (`Knows`), and the pid a Stop holds is the one that lives (`Knows`,
`Owned`), whatever the health check has made of the record's state meanwhile.
`OneAlive` says that at most one daemon lives at all (a watcher is one), and that
the pid file never names another process than the socket leads to. Each of the
four troubles is where one of these breaks: an overlap breaks `OneAtATime`; a
Start that gives up, and a supervisor that comes up at the wrong moment, leave a
booting daemon unattended; a stale socket misleads the probe, which `Knows` says
it cannot be. There is one lemma per action, and `TroubleStays` says that no step
takes a trouble back.

Its last part is about `Registry`: `TableSound` and `RootsSurvive`, for any roots,
goroutines, writes and failures. The invariant `TableInv` adds to `TableIsSound`
that the goroutine that saves has the mutex (`Mutex`), that a pointer into the
array in use points at a record (`PointersFit`), that what waits to be renamed is
the table unless somebody waits to save (`ImageIsMem`), and that the roots of the
file are in the table and in the image that will replace it (`RootsKept`). That
sorting neither loses nor doubles a record (`SortedPermutes`) is shown by
counting: the place of a record is the number of records that are not greater,
which makes a bijection, so the `CHOOSE` in `Sorted` has something to choose. That
a write through a stale pointer never creates a second record of a root is then a
matter of what it leaves alone: it changes a record's last write, never its root.
The attempt corrected the model: the decoder's slice may be larger than what it
holds, so `Restart` leaves `cap` open.

`WatchdogProofs` proves `SupervisorStaysGuarded` and `StopsAreFinal` for any
number of processes, starts, faults and misses, two or more (`WatchdogMisses` is
6; a named assumption of `Watchdog`). Nothing is assumed of clients, of timing or
of the calls that may fail. The argument is about the one watchdog that is active,
if any is: a supervisor that boots has none beside it yet (`Booted`); it comes to
kill only for a supervisor that is wedged and that the pid file names, and
respawns only when none is left (`Hunts`); and it never gets there on account of
one that boots or leaves, because that leaves it two misses short of the limit
(`Counts`), which is what ends with the trouble `slow`. None of this takes a call
that succeeds, so it survives `unwatched`; that the supervisor that serves is
named, and watched (`Watched`), does not.

`IngestProofs` proves, for any number of files, contents, edits and builds by
hand:

* `TypeCorrect`;
* `BuildsByHandAreSerial`, from `Lock`: the writer has a transaction
  (`LockHeld`), what is ready to commit something has the lock
  (`CommitHasLock`), and a build by hand whose snapshot is fresh has compared
  with the latest rows (`HandsFresh`). The last is what the prune buys: by
  reading inside the transaction before `AllFiles` reads outside it, it makes
  SQLite refuse the write when somebody has committed in between. The watcher
  without languages has no such read, so it is left out;
* `NothingGetsStaleSilently`, from `Silence`, saves between any two reads of a
  build included. That a row is right when it is committed depends on what each
  build has already passed over, so the invariant says, for each place a build
  can be in, what its `prev`, `todo` and `staged` are worth (`HandRight`,
  `WatcherRight`), and, because the watcher's own batch excuses a stale row until
  the watcher is done with it, what it still owes (`InHand`, `Awaited`). A row
  whose hash and symbols are of two contents is believed (`Believed`) until the
  next save, which is an event.

`SearchProofs` proves, for any index, call, limits and number of commits:

* `TypesKept`, from `TreeShape`: a node enters the tree once, under a node of the
  layer above it, whatever is committed between two queries;
* `TreesExact`. The queue holds the tree in layers (`Layers`), and while nothing
  is committed each node before `head` has the successors its query returned in
  the tree, one layer down at most (`Explored`). These are stored edges, so what
  is in the first k layers is k edges away at most; and when no node is crowded
  they are all stored edges, so the first k layers are what k edges reach:
  `Within` is a recursive function, and what it says at k + 1 follows from what
  it says at k; the argument takes the least k at which it would fail
  (`LeastNumber`), which needs no induction theorem;
* `PathsExact`, from `Sought` and `PathInv`: the parents from the callee up are a
  path of stored calls as long as its depth, and no shorter one exists where no
  node is crowded, by the same layers. The recursion of `reconstruct` is a
  function whose existence is shown first (`Iterates`);
* `CyclesFound`. A successor that has been looked at is finished, or on the stack
  with a reported cycle through it, or next on the stack (`Looked`), and a
  finished node that lies on a cycle is knotted with a reported one (`Knots`).
  That no cycle comes twice, whatever its rotation and direction, is `Reports`.

`HandlersProofs` proves `OnePanic`, `BodiesAreRight`, `BucketsRight` and
`TrimsKeepTheHead`, for any files, versions, frontend, LIKE and number of moves.
An answered call is not disturbed any more, so the invariant is about calls under
way: what the earlier queries of a call are still worth (`Listing`, `Cutting`),
and for `show_changes` what the buckets hold in the middle of the visits
(`Sorting`), and how exactly while nothing has moved (`Exact`). The proof needs
that a frontend reports lines in the file it parsed (`FrontendAssumption`), and
that a file has at least one line, which is what `strings.Split` gives even for
an empty one.

`TrimsKeepTheHead` is about a recursion over a tree with a fold at every node of
it. `FoldLeft` is a recursive function of the sets of places of a sequence, so
the lemmas begin with the existence of such functions (`FoldExists`, by the least
cardinality at which none would exist) and from there take a sequence one element
after the other (`FlattenRuns`, `KeptRuns`). The entries of a directory divide
the files below it into blocks (`EntriesAre`), so the leaves of the tree are the
leaves of the blocks put together (`ListedJoins`), each file once wherever the
tree hangs it, and the beginning of the list is whole blocks and the beginning of
one (`TakeJoins`). When no sibling has come in (`Tidy`), each block is entirely
before the next, which makes the list the path order (`InOrderJoins`). That both
recursions have a solution, and that it is this list and its beginning, goes by
the height of a node (`ByHeight`): the ones where it failed would have a longest
path, whose children are all right. `PathsAssumption` says that in the order of
`ORDER BY path` the files below one directory are next to each other, which
bytewise order gives because they share a prefix that ends in a slash.

The theorems assume what the modules assume about their constants (the named
`ASSUME`s, which TLC evaluates in every run) and nothing else. Where the code
keeps a promise only until something happens, or only of some inputs, the
property that is proved says so itself, in terms of the history variables
`trouble`, `lost`, `noted`, `unseen`, `lapsed` and `strayed` or of `Crowded`
nodes.

Only model-checked are the liveness properties, which are out of the prover's
reach. Every invariant that a passing run checks is stated by a theorem.

## Not modelled

* SQLite itself, and the frontends, whose sources are a git submodule. Both
  appear as what the code makes of them.
* Wire formats, the texts of answers (`format`, `naming`), the MCP server's
  registration of tools, configuration, service files, installers: no state, or
  pure I/O. The inotify budget: no daemon reports its watches, so it never
  leaves its first level and nothing depends on it.
* `WatchLoop`: the precedence of event kinds in a batch, and the patterns of the
  filter. A directory made after the startup walk is not watched
  (`fsnotify_source.go:55`), so the files of `LateFiles` are never seen although
  `loop.go:13-15` promises an event for any change (a finding); the run has none.
* `Supervisor`: several roots at once (`Registry` has what they share), pids the
  operating system uses again, the length of a backoff, the status views.
* `Daemon`: the contents of status and metrics, and the heartbeat's watch over the
  supervisor, which never starts (`daemon.go:216`).
* `Watchdog`: a service manager that starts supervisors by itself.
* `Ingest`: what `WriteParseResult` makes of one parse, `--force-root`, several
  built languages, a crash of the watcher's process (its queue is
  `WatchLoop`'s), and files that exist but cannot be read when they are hashed.
* `Search`, `Handlers`: `find_symbols` with its patterns and filters, the
  workspace's meta keys, the filter of `list_files` by extension, the modes of
  `type_hierarchy` other than `all`.

The comment of `Coalescer` (`coalesce.go:51-53`) promises a batch only after a
quiet window; `Add` itself wakes the loop, so the first event is handled at
once (a finding). `WatchLoop` models what the code does.

## Plan

Everything above is done. What would add most from here, in this order:

1. `WriteParseResult`: symbols, parents and references of one parse, for the
   order in which a frontend may list them (`write.go:97`).
2. Event kinds: `Translate`, `rank` and what a batch makes of two events on one
   path.
3. `find_symbols`: the filters and the ranking of `SearchSymbols` against a
   reference definition.
4. The supervisor after a trouble, and with commands that overlap: which weaker
   form of `OneWatcherPerRoot` the code does keep.
