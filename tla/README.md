# Formal model of haproxy-spoa-ip-reputation-firehol

The program is an agent that HAProxy asks whether a client address is to be
dropped. It keeps a clone of the FireHOL block lists, builds a database (MMDB)
from them, serves lookups from a snapshot of that database in memory, and swaps
the snapshot while requests are being answered. HAProxy caches the verdicts.

These modules model every part of it that keeps state: the database in memory,
the file watcher, the updater and its settings, the parser and the merge of the
lists, the verdicts, the life of the process, and HAProxy's cache. TLC checks
them on small instances. TLAPS proves every safety property of all of them for every
value of the constants, and that the holder, the updater and the path from the
lists to the verdicts implement abstract specifications. Liveness is
model-checked.

Paths below are relative to the repository; lines are those of the commit that
is modelled.

## Inventory: the system's parts

| Part | Source | State | Operations | Model |
|---|---|---|---|---|
| Database holder | `src/mmdb.rs`, `src/metrics.rs` | `snapshot` (reader, `modified`), `load_lock`, a gauge, a counter | `load`, `reload_if_changed`, `lookup` | `Mmdb`, `HotSwap` |
| File watcher | `src/mmdb_watcher.rs` | debouncer, channel of 16 batches, the loop's task | `start`, `watch_loop`, `stop` | `MmdbWatcher`; start and stop in `Lifecycle` |
| Updater | `src/firehol/mod.rs`, `git.rs`, `builder.rs` (`TempFile`) | `update_lock`, the clone, the database file, its `.tmp` | `update_and_build_mmdb` | `FireholUpdater`, `DatabaseFile`; its settings in `Reconfiguration` |
| List parser | `src/firehol/ipset.rs` | header values, networks, frozen sections | `parse` | `IpsetParser` |
| Record builder | `src/firehol/builder.rs`, `mod.rs` | the tree of merged records | `parse_files`, `collect_ipset_files`, `record`, `write_mmdb` | `Blocklist` |
| SPOE handler | `src/spoa.rs` | drop sets, two request counters | `new`, `handle`, `should_drop`, `find_match`, `record_block`; `bind`, `serve` | `Blocklist`, `Verdicts`; the listener in `Lifecycle` |
| Process | `src/main.rs` | how far start-up or shutdown is; scheduler; tasks | `main`, `run`, `run_update`, `shutdown_signal` | `Lifecycle` |
| Metrics endpoint | `src/metrics_server.rs` | the accept loop and its pause | `bind`, `serve` | `Lifecycle` |
| HAProxy's side | `haproxy/*.cfg` | stick table, session variable | the `http-request` rules, the question and its time-out | `VerdictCache` |
| Configuration | `src/cli.rs` | none | `Cli`, the delimiter of lists | constants of `Blocklist`, variable `settings` of `Reconfiguration` |
| Formatting | `src/display.rs`, `lib.rs` | none | | not modelled |
| Benchmark, build | `benches/spoe/`, `build.rs`, `Dockerfile`, … | | | not modelled |

How they interact:

```
               cron / start-up                      inotify
   main ──────────────────────► FireholUpdater ──► database file ──► MmdbWatcher
     │  load at start-up            │  (rename)      ▲  operator         │ reload_if_changed
     │                              │                │ (mv, touch, rm)   │
     └────────────► Mmdb ◄──────────┘ reload_if_changed (run_update)     │
                    ▲  ▲─────────────────────────────────────────────────┘
                    │ lookup
   client ── HAProxy (stick table) ── SPOE, 100 ms ── IpFilter
```

* `main` loads an existing file, starts the watch, binds the metrics endpoint,
  runs the first update on a blocking thread and awaits it, schedules cron
  ticks, then serves until a signal or a failing branch of the `select!`.
* A run of the updater that wrote a file is followed by `reload_if_changed`
  on the same thread; the watcher sees the same rename and reloads as well. The
  two meet in `load_lock`.
* Lookups never take `load_lock`: they pin the snapshot of the moment.
* The database file is shared with operators, who may replace, touch or remove
  it at any time; the clone and the file outlive the process on a volume.
* HAProxy asks once per unknown address, waits 100 ms, and keeps the answer in
  the stick table and in a variable of the session.

What is hard here, per part, and when the part is right:

* **Holder.** Loads overlap; the file changes between the stat, the read and
  the store of one load; a load fails half-way; a lookup spans a swap. It is
  right when lookups see one whole valid database, databases only get newer,
  a reload that says Ok has caught up with the file, a skipped reload hides
  nothing, and the metrics describe what is served.
* **Watcher.** Events are batched, queued and consumed one batch at a time while
  files change; the loop is aborted in the middle of a reload; a reload fails
  and its event is gone. It is right when every valid file put in place under
  the watch ends up being served, or its reload failed.
* **Updater.** Runs overlap; each step fails; the process or the machine stops
  between two steps; commit times and file times are compared. It is right when
  the file in place is always whole and from one commit, never goes backwards,
  no temporary file stays, and a newer tip is built.
* **Settings.** The clone and the database of other settings are met again. They
  are right when a changed setting reaches the database.
* **Process.** Start-up is long and a sequence of steps that fail; a signal can
  come at any of them; an update is under way at the end. It is right when an
  open listener has a database, updates can be observed, the agent comes back
  after failures that pass, and a stop ends it.
* **Parser, builder, handler.** Header lines in the middle of a file, lists that
  overlap, parallel arrays, two reasons to drop. They are right when a verdict
  and its labels agree with the lines of the files.
* **HAProxy.** Answers are late, missing, or from another database than the one
  before; entries expire under a connection that stays; several threads share the
  table. It is right when a verdict is one the agent gave for that client, does
  not change once the requests that found the client unknown have set theirs,
  and does not stay for ever.

`PROJECT.json` lists every hazard at its line, with the properties that cover it.

## Plan

Done, in this order: the holder with its abstract specification and proofs; the
watcher composed with it; the updater; the parser; the path from list files to
verdicts; the life of the process; HAProxy's cache; the updater's settings; an
abstract specification of the database file and the refinement; the proofs of
safety of the watcher, the updater, the process, the cache and the settings; the
proofs of the parser and of the path to the verdicts; an abstract specification
of the verdicts and the refinement.

What could follow:

1. An abstract specification of `Lifecycle`, to be implemented by a composition
   of `MmdbWatcher` and `FireholUpdater` (today they meet by name only: each
   treats the other's work as one step).
2. `VerdictCache` and `Blocklist` composed through `HotSwap`, from a line of a
   list to a dropped connection.
3. Abstract specifications of the parser (a file is a set of networks with
   headers) and of HAProxy's cache, with their refinements.

## Modules

* **`HotSwap`** – what the holder promises: one served database at a time, a
  swap is one step to a valid and later one, a lookup is answered by what was
  served at one moment.
* **`Mmdb`** – `src/mmdb.rs`. `load` and `reload_if_changed` are split where
  another thread or the file may interfere: `Call`, `Lock`, `Stat…`,
  `ReadAndParse`/`ReadOrParseFails`, `Store`, `Count`. The `call` record holds
  the locals (`modified`, the version read) and the version that was on disk at
  the call. A version of the file is named by its modification time, and
  `written` remembers what it held and the number of the change that produced
  it: modification times are compared for equality only and need not grow.
  `fs::read` is one step (files are put in place by rename), and so are the parse
  and the gauge, which nothing else reads in between. `lookup` is two steps:
  `snapshot.load()` and the end of the closure.
* **`MmdbWatcher`** – extends `Mmdb` with the directory watch, the debouncer
  (external), the bounded channel, `watch_loop`, the load at start-up, the stop,
  and the rename and reload of `run_update`. The loop awaits its reload: a batch
  is received only when the watcher's call is over. A batch is the set of names
  it has events for, or the errors of the watch. `noticed` (the file of the last
  event) and `unread` (the file on disk when a reload by the watch failed) are
  there for the properties.
* **`FireholUpdater`** – `update_and_build_mmdb` as one action per step of the
  code that touches the clone, the working tree, the temporary file or the
  database, for several runs at once. Every step may fail (`Fail`; `certain`
  failures are those the state leaves no way around, the others count against
  `MaxFaults`, as do kills and power losses). A file records the commit of its
  networks, the commit its `build_epoch` names, whether it is whole and synced,
  and its modification time; `onDisk` is the file a power loss may bring back
  while the rename is not durable.
* **`DatabaseFile`** – what the updater promises about `MMDB_PATH`: none, or the
  database of one published commit with networks, replaced in one step by that
  of a later one. `FireholUpdater` implements it (`Promise`): a file that is
  partial, or of two commits, maps to no commit at all.
* **`Reconfiguration`** – the updater again, in two steps, over restarts with
  other values of `FIREHOL_REPO_URL`, `FIREHOL_REPO_BRANCH` and
  `FIREHOL_IGNORE_COUNTRY` on a volume that keeps the clone and the database.
* **`IpsetParser`** – `parse`, one action per kind of line. `Value` converts raw
  header values to stored ones: two spellings of a date give one value, another
  none. A network of the result is named by its place, a section and a position
  in it; a network of the file by its line.
* **`Blocklist`** – extends `IpsetParser`: one walk over the blobs of a tree
  collects the list files, parses them line by line, and keeps or skips each
  (`PassOver`, `ParseLine`, `KeepFile`, `SkipFile`). Then the networks are merged
  into one record of parallel arrays per address, one `Insert` per turn of the
  innermost of the three loops of `write_mmdb`, in their order; `inserted` holds
  the places they have been at. Requests are answered from the records (`Handle`).
  `field` is the lookup by index, with its "unknown" for an element that is not
  there. The module is sequential: a request uses one pinned database (that is
  `Mmdb`'s promise), and the counters are atomic. `Elements` is the splitting of
  the drop options: one that is set, but empty, is a list of one empty name.
* **`Verdicts`** – what the agent promises about its answers and its request
  counters, from the lines of the lists directly: no sections, no merge, no
  arrays, no indices. `Blocklist` implements it (`Promise`).
* **`Lifecycle`** – `main` and `run`: `agent.run` is where the process stands,
  `agent.update` where its update does, on a thread that outlives `run`. A load,
  a reload and each stage of an update are one step. The branches of `select!`
  are polled in any order (`BindSpoe`, `InstallHandlers`); the first that is
  ready ends it. A signal before the handlers are installed has its default
  effect, which for process 1 of a container is none. The shutdown of the runtime
  drops the tasks, the metrics among them (`DropTasks`), and does not wait for the
  update: `SHUTDOWN_TIMEOUT` is over, or the threads are idle (`ShutdownRuntime`).
  `clone` and `barren` are what makes every update fail that meets them
  (`MustFail`): a clone that a kill in git left locked or unable to open
  (`CloneLeft`), and a tip whose lists hold no network. Other failures are
  bounded by `MaxFailures`.
  `missed` and `meddled` are there for the properties.
* **`VerdictCache`** – the stick table, the session variable and the rules of the
  frontend. HAProxy's threads share the table (`nbthread` is not set), so the
  request goes rule by rule: the question (`Ask`), its answer or time-out with the
  look at `ip_unknown` that guards `sc-set-gpt0` (`Acked`, `TimesOut`,
  `NextRule`), the set itself (`SetGpt0`), and `silent-drop` (`SilentDrop`). Two
  threads can pass `ip_unknown` and then set one verdict after the other. `by`
  remembers the database a verdict is from.
* **`MmdbProofs`, `MmdbWatcherProofs`, `FireholUpdaterProofs`, `LifecycleProofs`,
  `VerdictCacheProofs`, `ReconfigurationProofs`, `IpsetParserProofs`,
  `BlocklistProofs`** – theorems about the module of the same name.
* **`MCMmdb`, `MCMmdbWatcher`, `MCIpsetParser`, `MCBlocklist`** – instances for
  TLC. The other modules need none: their cfg files give every constant.

Some definitions have a twin with a suffix (`Lock_NoWait`,
`LoadedFrom_OrLater`, `SyncTemp_Skipped`…): the same code with a plausible bug.
They are part of no specification; each property is known to fail when one of
them takes the place of the original (`mutants` in `PROJECT.json`).

## Runs

| Run | Question | Bounds | States |
|---|---|---|---|
| `holder` | Do two loaders and a lookup thread keep the promise of `HotSwap`, and does the snapshot only get newer? | 2 versions of the file, two valid contents and a broken one, no call starts after 2 loads, I/O errors | 396 270 |
| `watcher` | Is every valid file put in place under the watch served, and is the holder used as `Mmdb` assumes? | 2 versions, channel of 1, two updaters, I/O and watch errors, a shutdown | 336 304 |
| `updater` | Does the updater implement `DatabaseFile` under overlap, failures, kills and power losses, and is a newer tip built? | 2 runs, 2 commits, 3 seconds, 2 faults of any kind, an operator | 642 200 |
| `updater_sync` | Is every tip that stays built? (no) | 1 run, no fault, no operator | violation |
| `ipset_parser` | Does each network keep its header? | files of up to 6 lines | 674 084 |
| `blocklist` | Do verdicts and labels agree with the files, and does the agent implement `Verdicts`? | 3 lists of up to 2 lines, the second one dropped by name, 2 nested networks, 2 addresses, 2 requests | 1 387 646 |
| `lifecycle` | What does an open listener serve; can updates be observed; does the agent come back; does a stop end it? | 4 changes of the file or of FireHOL, 2 failures, kills or hanging fetches | 555 687 |
| `lifecycle_empty` | Does an open listener always have a database? (no) | 3 changes, no failure | violation |
| `lifecycle_signal` | Does a signal always end in status 0? (no) | no change, no failure | violation |
| `verdict_cache` | Are cached verdicts the agent's own, kept while they are refreshed, and not eternal? | 2 addresses, 2 connections, 3 databases, expiry of 2 ticks | 1 353 478 |
| `verdict_cache_timeout` | Does a time-out cache nothing? (no) | 1 address, 2 connections, 2 databases | violation |
| `reconfiguration` | Does a changed setting reach the database? | 2 remotes, 2 branches, 3 seconds, 2 restarts | 86 128 |

Why the bounds are enough for the interesting cases:

* Two versions and two loaders give every order of stat, read and store against
  one replacement, one of them with an older modification time than the other.
* The channel holds one batch instead of 16, so that it is full in every run; two
  updaters and the watcher give three calls that wait for `load_lock`.
* Two commits are enough for a rewritten branch, a reset under another run's feet
  and a step back in time; three seconds give earlier, equal and later commit
  times. Two faults give a failure while another's leftovers are in place.
* Six lines hold two changes of a header with networks before, between and after
  them, and a value that is set back.
* Three lists with nested networks give addresses with no, one and several
  entries, a file that lists an address twice, category and file-name matches
  before and after each other, and files that are skipped. Headers in the middle
  of a file are the subject of `ipset_parser`.
* Four changes give a file before the start, an operator's and a publication on
  either side of a rebuild, or a kill in a reset, a file that makes the restart
  succeed, and a publication that then cannot be built; two failures a failing
  restart after a kill.
* Two connections, on threads of their own, may be those of one client or of two;
  three databases give an
  answer before, between and after two swaps; the expiry of two ticks can be
  refreshed half-way.
* Two restarts lead to other settings and back.

For safety the bounds do not matter where the theorems below hold.

`CHECK_DEADLOCK FALSE` is set where the system may stop: a process that exited
or was stopped, a finished file, the end of the bounds. In `holder`,
`verdict_cache`, `verdict_cache_timeout` and `reconfiguration` it never does, and
deadlock is checked.

### Fairness

* `MmdbWatcher`: weak fairness of the loop, a reload under way, the steps of
  `main` at start-up and the reload an updater owes. These are threads and tasks
  the runtime schedules; nothing in them waits for anything but `load_lock`,
  which is held for a bounded number of steps. Strong fairness of the debouncer:
  it sends events and errors in turn over one channel that serves its senders in
  order, so errors that fill the channel again and again cannot keep it out for
  ever. None for changes of the file, errors or a shutdown.
* `FireholUpdater`: weak fairness of the clock, of cron ticks (`Start`), of a
  run's steps, and of a restart of the container (`restart: unless-stopped` in
  `docker-compose.yml`). None for pushes, faults or operators.
* `Lifecycle`: weak fairness of the restart, of cron ticks, of an update's steps,
  of the steps of start-up and shutdown,
  of the watch loop, of the pause of the accept loop and of the branches of the
  `select!`. A fetch that hangs stays hung: no step of it is fair.
* `VerdictCache`: time passes (`Tick`), `timeout processing` ends the wait of
  each request, and the rules after it run to their end (`SetGpt0`,
  `SilentDrop`). The agent need never answer, nor clients ask.
* `Reconfiguration`: updates keep coming. None for publications and restarts.

## What the runs that fail show

Four statements of the repository are stronger than the code:

1. `InSync` – `src/firehol/mod.rs:22`. A commit made before the last rebuild and
   pushed after its fetch is "not newer than" the file and is never built; the
   next publication hides it. `NewerTipIsBuilt` says what does hold.
2. `ListenerNeedsDatabase` – "The SPOE listener opens only once a database
   exists" (README.md:203). A file that appears after `main` looked for one, and
   is not older than the tip, makes the first update return `Ok(false)` without a
   reload; the listener then opens before, or without, the watcher's reload.
   `ListensWithDatabase` says what does hold: this takes an operator.
3. `SignalExitsWith0` – README.md:711-712. A signal that comes before `select!`
   polled `shutdown_signal` is not handled. `StopEnds` says what does hold.
4. `TimeoutCachesNothing` – README.md:308-309. On a keep-alive connection a
   time-out stores the answer to an earlier request again.
   `VerdictFromAgent` says what does hold: it is an answer for that client.

Others are bounded by properties that hold and name them:

* The label of a snapshot may be the time of the version before the bytes that
  are served (`src/mmdb.rs:35` says "of the file this snapshot was loaded from").
  The stat comes before the read, which is the safe order: `FreshLabel` is
  proved, and a label taken later breaks it. The cost is the one more parse
  that `ParsesOnce` allows.
* A file put in place between `mmdb.load` (`src/main.rs:58`) and the watch
  (`src/main.rs:63`), or whose reload failed, is not noticed before the next
  event or rebuild: `missed` in `BehindIsExplained`.
* A process killed inside git leaves a clone that is locked or does not open, and
  nothing in the code repairs it. A clone that does not open fails every first
  update, and so ends every start; with a stale `index.lock` the same happens
  as long as the file is missing or older than the tip, and a process that
  serves a file which was current rebuilds nothing any more (`ServesAgain`,
  `RefreshedUnlessStuck`, `NewerTipIsBuilt`).
* A tip whose lists hold no network fails every rebuild until the next
  publication (`CannotRebuild` in the same properties).
* A shutdown drops the metrics at once while an update may run on for
  `SHUTDOWN_TIMEOUT`; `ObservableBuild` says that no update stays unobserved.
* A fetch without an answer hangs and keeps `update_lock`: every later tick is
  skipped. `RefreshedUnlessStuck` and `ServesAgain` name it.
* A database file that does not parse ends each start before the updater could
  replace it: `Broken` in `ServesAgain`.
* Two first requests of one client around a swap may be answered differently. If
  both pass `ip_unknown` before either sets its verdict, the second set replaces
  the first; otherwise the first one counts, also against a later bad answer.
  From then on the verdict stays (`VerdictIsKept`, `Settled`), and a request that
  was answered bad is served only behind the other answer (`FlaggedIsDropped`).
* A changed `FIREHOL_REPO_URL` has no effect on a clone that exists
  (`src/firehol/git.rs:87-89`, `OneOrigin`), and any setting waits for a commit
  that is newer than the file (`SettingsTakeEffect`).
* An empty `DROP_BY_CATEGORY` is a list of one empty name, the category of every
  list without that header (`Elements`; README.md:629-630 speaks of options that
  are not given).

## Proofs

Every theorem holds for all values of the constants. `PROJECT.json` lists them;
the invariants they rest on are:

| Module | Theorems | Inductive invariant |
|---|---|---|
| `MmdbProofs` | `TypeCorrect`, `FreshLabelCorrect`, `NeverOlderCorrect`, `OkMeansCaughtUpCorrect`, `ParsesOnceCorrect`, `MetricsCorrect`, `KeepsPromiseCorrect` (implements `HotSwap`) | `IInv` |
| `MmdbWatcherProofs` | `HolderUsedAsSpecifiedCorrect` (implements `MmdbSpec`), `WatcherTypeCorrect`, `ChangeNotLostCorrect` | `WatchInv` |
| `FireholUpdaterProofs` | `UpdaterTypeCorrect`, `NeverPartialCorrect`, `OneCommitCorrect`, `NoTempLeftCorrect`, `OnlyForwardCorrect`, `KeepsOneDatabaseCorrect` (implements `DatabaseFile`) | `UpdaterInv` |
| `LifecycleProofs` | `LifecycleTypeCorrect`, `ListensWithDatabaseCorrect`, `BehindIsExplainedCorrect` | `LifecycleInv` |
| `VerdictCacheProofs` | `CacheTypeCorrect`, `VerdictFromAgentCorrect`, `VerdictIsKeptCorrect`, `FlaggedIsDroppedCorrect` | `CacheInv` |
| `ReconfigurationProofs` | `SettingsTypeCorrect`, `OneOriginCorrect` | `SettingsInv` |
| `IpsetParserProofs` | `ParserTypeCorrect` (no empty section, no value that did not convert), `NetworksKeepTheirHeaderCorrect` | `ParserInv` |
| `BlocklistProofs` | `BlocklistTypeCorrect`, `DropIffListedCorrect`, `BlamesOneListCorrect`, `EveryAnswerCountedCorrect`, `KeepsVerdictsCorrect` (implements `Verdicts`) | `BlocklistInv` |

**Assumptions** are the named ones of the modules: modification times are positive
naturals (0 stands for no file), special values are none of the sets they stand
beside, bounds are naturals (`MaxTime` and `Expire` positive), valid contents are
contents, the main thread, the watcher and the updaters are the loaders, header
values other than dates convert, the blobs of a tree are a sequence, networks
cover sets of addresses, and the result of a lookup that finds nothing is no
record. Built into the models: a modification time is
never given to two versions of a file, and a file is replaced as a whole.

**The arguments.** Almost none of the properties is inductive.

* *Holder.* `NeverOlder` needs that the bytes a call is about to store are at
  least as recent as the snapshot, which holds because the snapshot cannot have
  changed since the call's read: only the holder of `load_lock` stores. So `IInv`
  says who holds the lock (`LockInv`), that changes are numbered and the file on
  disk has the last number (`FileInv`), that the label of the snapshot is not
  more recent than its bytes (`SnapshotInv`), and for each call in flight
  (`CallInv`): its stat is not older than the snapshot it will replace, its read
  not older than its stat nor than the file when it was called, and while it
  holds bytes the snapshot is not more recent than they are. `MetricsInv` follows
  the gauge between the parse and the store, and `LookupInv` says that a pinned
  version has been on disk.
* *Watcher.* Every step of the composition is a step of `Mmdb` or a stutter
  (`HolderStep`), so `IInv` carries over. `ChangeNotLost` then needs that no
  store takes the file's own label away from the snapshot. The load at start-up
  could, so `CallerInv` says that it is over before the watch starts and that
  all others reload; `StoreReplacesOld` shows that a reload stores only over a
  label that is not the file's (a stat later than the snapshot and different
  from it); and `StoredInv` keeps the label between the watcher's store and its
  return.
* *Updater.* `NeverPartial` and `OneCommitPerDatabase` are about the file that a
  rename puts in place, so `RunInv` follows the run that holds `update_lock`: its
  tip is newer than the database, the working tree and the parsed networks are
  the tip's, the temporary file is whole, then synced. `FilesInv` says the same of
  the file in place and of the one a power loss may bring back, together with
  the fact that a commit is not made after the file built from it: that is why
  a comparison of a commit's time with a file's time implies the order of
  commits (`OnlyForward`).
* *Process.* `ListensWithDatabase` needs the history of a start without a file:
  unless an operator interferes, `EmptyInv` keeps it in the first update until
  that one put a file in place. `NoticeInv` is `BehindIsExplained` from the load
  on, before the watch exists. `OrderInv` says at which point the watch and an
  update can exist.
* *Cache.* `VerdictFromAgent` needs that what is stored, an answer on its way or
  a session's variable, is an answer about that session's client
  (`SessionsAnswered`), also when it comes from an earlier request.
  `FlaggedIsDropped` needs that a request that was answered meets a verdict at its
  last rule (`RequestsJudged`): its own or another's, and none leaves the table
  while a request holds it. `VerdictIsKept` needs no history, but the guard: a
  request that looks at `ip_unknown` after the verdict is there does not set it.
* *Settings.* A clone without an origin has no branches (`OriginInv`).
* *Parser.* `NetworksKeepTheirHeader` counts: the n-th network of the sections is
  that of the n-th network line. Counting is not inductive here; an
  order-preserving correspondence is. `ParserInv` says that there is a function
  from the places of the sections parsed so far, with the open one, onto the
  network lines read so far, which keeps order, network and header (`Lists`), and
  that the header in force is that of the next line. A network extends the
  function by one place, a frozen section leaves its places where they are. Where
  there is such a function, places and lines of the same rank correspond
  (`RanksAgree`).
* *Blocklist.* The invariant follows the data on its way. `FilesInv`: each kept
  file has a correspondence of the parser. `InsertedInv`: what was inserted
  precedes what remains. `RecordInv`: there is a sequence of places that lists,
  in order and without a gap, the inserted networks that cover an address, and
  element i of every array of its record is what the i-th of them contributes
  (`Stacks`); an insertion puts one place on top (`StackGrows`). `ReplyInv` and
  `CountInv` relate the last answer to the records and the counters to the number
  of answers. When all networks are inserted, the places turn into lines
  (`PlacesAreLines`, `RecordsAreLines`), so that the index a search returns is
  that of the first line to blame (`HitIsFirstGuilty`); all properties follow
  from that.
* *Refinements.* Few steps are seen in the abstract specifications, and the others
  are stutters: a store of `Mmdb` is a swap, a rename of the updater a
  replacement, a kept file one more list, an answer the verdict of the lines.

Only model-checked is liveness, as fairness is out of the prover's reach:
`ChangeIsServed`, `NewerTipIsBuilt`, `ObservableBuild`, `ServesAgain`, `StopEnds`,
`RefreshedUnlessStuck`, `StaleNeedsActivity`, `SettingsTakeEffect`. TLC also has the
last word on what the theorems assume: every named assumption is evaluated on each
run of its module.

## What is abstracted, and what is not modelled

* Contents of the database are model values that parse or not; the binary
  format and the `geoip2` reader are external. A record that fails to decode is
  answered like an address without one.
* Two versions of the file with one modification time (the granularity of the
  file system's clock, `src/mmdb.rs:77`) are assumed away: they look unchanged.
* Times of the updater are small numbers of seconds. Pushes have commit times
  in the past; a clock of the publisher that runs ahead of the agent's is not
  modelled (the tip would be rebuilt by every tick until the clocks agree).
* git is external: a clone, fetch or reset is complete, fails, or is cut off by a
  kill, after which it leaves a directory that does not open, or an `index.lock`.
  Locks of references that a killed fetch leaves are not modelled.
* Several list files are parsed in parallel in the code; `parse` is pure and the
  results are collected in order, so the model parses them one by one. A list
  that cannot be read is left out of the database; that it comes back with a
  later commit is stated by no property.
* A panic while a lock is held acts like an error: both mutexes ignore
  poisoning.
* IPv6 requests are answered "not found", as the database is IPv4 only.
* HAProxy's table is one process's; peers are not configured. Its size is a
  `Purge` of any entry that no request holds.
* Not modelled: logging and formatting (`display.rs`, `lib.rs`), the rest of
  argument parsing (`cli.rs`: addresses, the cron expression, the log level),
  registration of metrics, socket options, the task of a metrics connection, the
  frames of the SPOE protocol (library), the benchmark, the build scripts. They
  keep no state that another part depends on.
