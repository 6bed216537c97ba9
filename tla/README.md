# Formal models of ReaPack

ReaPack is the package manager of the REAPER audio workstation: a plugin that
downloads indexes of remote repositories, lets its user pick packages, and
installs, updates and removes their files. This directory holds TLA+ models of
its core, the TLC configurations that check them on small instances, and
proofs checked by TLAPS. Paths below are relative to the repository's root,
`src/…` being its sources.

Run, in this directory, `tlc -config MCX.cfg MCX` for a model and
`tlapm XProofs.tla` for proofs. `PROJECT.json` lists the runs, the source lines
of every definition (`map`), for every property a mutant of the code that
breaks it, the hazards and the findings.

## The system

Everything but the bodies of jobs runs on REAPER's main thread, driven by
windows, by a timer (`event.cpp`) and by REAPER's actions. A modal box runs the
host's message loop inside the call that opened it, timers and all, so
"one thread" does not mean "one thing at a time".

| Component | State it keeps | Operations | Talks to |
|---|---|---|---|
| Database `database.cpp` | SQLite connection, `m_savePoint` | begin, commit, savepoint, restore, release | Registry |
| Registry `registry.cpp` | tables `entries`, `files` | push, setFlags, forget, queries | tasks, Browser, Manager, API |
| ThreadPool, events `thread.cpp`, `event.cpp` | workers' queues, `m_running`, job states, event loop's queue | push, abort, exec, processQueue | tasks, downloads, imports |
| Downloads `download.cpp` | job state, `.part` files, `fallbackProxy` | run, save, wait for the main thread at a 429 | ThreadPool, application |
| Transaction and tasks `transaction.cpp`, `task.cpp`, `install.cpp`, `synchronize.cpp`, `obsquery.cpp` | queues, running tasks, tickets, obsolete entries, receipt | install, uninstall, setFlags, synchronize, runTasks, abort | Registry, ThreadPool, files, application |
| Application object `reapack.cpp` | current transaction, progress window, other windows | setupTransaction, commitConfig, teardownTransaction, requestProxy | all windows |
| Archives `archive.cpp`, `archive_tasks.cpp` | zip file, lists of remotes and packages | import, export, compress, extract | Transaction, remotes |
| Index, packages, versions `index*.cpp`, `package.cpp`, `version.cpp`, `source.cpp`, `metadata.cpp` | trees read from XML, version segments | load, lastVersion, compare, targetPath | SynchronizeTask, Browser |
| Remotes, configuration `remote.cpp`, `config.cpp` | sorted list of remotes, ini file | add, remove, getEnabled, read, write, migrate | Manager, Import, Transaction |
| Browser, filter `browser*.cpp`, `filter.cpp` | entries, targets of each, queued actions | fill, refresh, queue, apply, match | Transaction, Registry |
| Manager, import `manager.cpp`, `import.cpp` | pending changes of remotes | toggle, uninstall, apply, import | Remotes, Transaction |
| List view `listview.cpp` | rows, items of the native control, sort, filter | insert, remove, sort, filter, select | Browser, Manager, About |
| About window `about.cpp` | delegate (repository or package), menu, list, current index | setDelegate, updateList, find, install | Browser, Index, Transaction |
| Paths, file system `path.cpp`, `filesystem.cpp` | root path, `TempPath` | join, rename, remove (recursively) | tasks |
| Progress, receipt, report | counters, lists of results | addTask, add errors | Transaction |
| REAPER API `api*.cpp` | handles of repositories and entries | queries, browse, install | Registry, Transaction |
| Windows and widgets, wrappers (hash, XML, time, strings, platform) | presentation | | |

What is hard here, and the properties it asks for:

- **Two-phase tasks.** `Task::start` pushes to and deletes from the registry
  inside a savepoint, only to find conflicts; the savepoint is restored, jobs
  download, and `Task::commit` repeats the changes for good, later and maybe
  not for every task. So: what was refused must have been impossible
  (`ConflictsAreReal`), windows must never see the provisional state
  (`ImplementsInstaller`), and disk, registry and action list must agree
  afterwards (`DiskAgrees`, `ScriptsAgree`).
- **Re-entrancy.** Commands, ends of jobs and cancellation come between any two
  calls of `runTasks()`, which returns early while the pool is busy
  (`NoTaskIsDropped`, `EveryTaskEnds`, `CancelHonoured`). Events are handled in
  batches, which nest when a handler opens a box (`ImplementsTaskPool`).
- **Threads.** Six workers; abort is a flag they look at; jobs on one zip file
  must stay on one worker (`AbortedJobsEndAborted`, `SerialJobsAlone`).
- **Failure.** Downloads, renames and removals fail one by one; the process may
  die between two of them, and commits only at the end.
- **Copies that go stale.** Tasks and windows keep copies of registry entries,
  whose ids SQLite gives out again (`IdsAreKept`). The browser keeps pointers
  into indexes and entries that a refresh replaces (`WishesAreKept`,
  `ShowsTheRegistry`), and the About window an index into a menu that is sorted
  (`AboutListsTheSelection`).
- **Two copies of every row.** The list view keeps its own rows and a native
  control's items, each with the number of the other, and code that walks a
  selection while it removes rows (`ViewShowsRows`, `LoopsVisitTheSelection`).
- **Savepoint names.** `ROLLBACK TO` keeps the savepoint on SQLite's stack while
  the counter that names the next one goes down (`FramesNested`).
- **Pending changes and deferred effects.** The manager collects changes by name,
  applies them as one, and leaves the removals to handlers that run when a
  transaction is over, which a later command may have extended or cancelled
  (`SettingsAreSaved`, `RowsAreFound`, `ChangesAreCounted`, `SyncsObeySettings`).
- **Orders and trees built step by step.** Versions live in a `std::set` under
  a hand-written comparison (`VersionsAreOrdered`, `UpdatesGoForward`); an index
  is linked up before it is known which elements stay (`FindFinds`); a filter's
  tree is built under one moving pointer (`MatchesItsMeaning`).

## Modules

```
NestedTransaction <-implements- Database  <- RegistryProofs, MCDatabase
PackageSet        <-implements- Registry  <- RegistryProofs, MCRegistry
                                 | both extend RegistryTables <- RegistryTablesProofs
Installer      <-implements- Transaction  <- TransactionProofs, MCTransaction
TaskPool       <-implements- ThreadPool   <- PoolProofs, MCThreadPool
                             InstallJobs  <- PoolProofs, MCInstallJobs (extends ThreadPool)
                             RemoteList
                             Settings     <- SettingsProofs, MCSettings (extends RemoteList)
                             Archive      <- ArchiveProofs, MCArchive (extends RemoteList)
                             Versions
                             Catalog      <- CatalogProofs, MCCatalog (extends Versions)
                             Browser      <- BrowserProofs, MCBrowser (extends Versions)
FilterMeaning                Filter       <- BrowserProofs, MCFilter (extends FilterMeaning)
                             ListView
                             ListWindows, AboutWindow (extend ListView)
                                          <- Windows <- CatalogProofs, MCListWindows
```

CatalogProofs extends Windows beside Catalog: what an index has and what lists show of it;
BrowserProofs extends Filter beside Browser, whose list it filters.
RegistryProofs and TransactionProofs extend RegistryTablesProofs; PoolProofs has the
proofs of ThreadPool first, on which those of InstallJobs build.

### Database (`database.cpp`)

`durable` is the file, `contents` what the connection reads, `frames` SQLite's
stack of named savepoints (modelled from SQLite's documented rules: a name means
the most recent savepoint that has it; ROLLBACK TO keeps it, RELEASE drops it),
`savePoint` is `m_savePoint`. Each method is an action; statements are `Write`;
`Close` is the destructor or the death of the process. `NestedTransaction` is
what callers think they use: a stack of snapshots. The refinement maps snapshot
*k* to the contents of the latest frame named sp*k*. The module's names for what
every state machine has (`DatabaseInit`, `DatabaseSpec`, `DatabaseSavepoint`...) let a
module extend it together with Registry.

### Registry (`registry.cpp`)

`RegistryTables` has the two tables as a record of functions and the queries and
updates as operators on it, so that `Transaction` can use them on its own
variables. `IsPushId` is SQLite's choice of a rowid without AUTOINCREMENT.
`Conflicts` is the UNIQUE constraint on paths, after the package's own rows were
deleted. `Registry` is the state machine: callers hold ids, perhaps stale, and
give them back. A conflicting push is a no-op that empties the caller's copy:
what makes it one is its savepoint, i.e. the theorem about `Database`.
`PackageSet` is the abstract view: packages installed, replaced and removed as a
whole, with disjoint files. Names, descriptions, authors and dates are not
modelled, nor is the migration from older schemas.

### ThreadPool (`thread.cpp`, `event.cpp`, and the 429 wait of `download.cpp`)

A job goes new → queued → taken → running (→ asking → running) → ran → checked →
posted → deleted; each arrow is one step of a worker between two accesses to
shared state, or of the main thread. `loop` is the event loop's queue: a set,
as `std::map` orders events by emitter address and each emitter here posts one
event at a time. `frames` are the nested batches of `processQueue`. `AddressOf`
is where the allocator put the jobs; `Rank` is the order of emitters in
`ThreadTask`. `TaskPool` is what the tasks rely on: each job ends once, is
reported once, and eventually.

### InstallJobs (`install.cpp`, file handling of `download.cpp` and `archive.cpp`)

Composes ThreadPool with the install tasks of one queue, one job per source. A
task's books (`newFiles`, `waiting`, `fail`) are changed by the handlers of its
jobs' start and finish events, which run on the main thread some time after the
fact; `temp`, the `.part` files on disk, is changed by workers (`Open`) at once.
`OnFinish` is the task's handler followed by the pool's. `rollback` removes the
files it knows of and then aborts the other jobs one after the other
(`AbortSibling`), with workers running in between. `phase` is where `runTasks`
is: pushing jobs, waiting for the pool, committing tasks, over.

### Transaction (`transaction.cpp`, `task.cpp`, `install.cpp`, `synchronize.cpp`)

| variable | code |
|---|---|
| `tables`, `saved`, `durable` | the registry as the connection reads it, at `runQueue`'s savepoint, in the file |
| `disk`, `scripts` | the release whose file is at each path; REAPER's action list |
| `pc` | where the main thread is in `runTasks()`; "rest" between two calls of it |
| `next`, `queues`, `active` | `m_nextQueue`, `m_taskQueues`, `m_runningTasks` |
| `jobs`, `failed` | tasks with jobs in the pool; `m_fail` |
| `entry`, `old` | `m_oldEntry`/`m_entry`, `m_oldFiles`/`m_files` |
| `obsolete`, `cancelled`, `tickets`, `errors` | `m_obsolete`, `m_isCancelled`, `m_regQueue`, errors of the receipt |
| `asked`, `made` | tasks queued in this transaction, and ever |
| `dirty`, `suspect`, `lost` | history: paths written since the COMMIT, paths a fault left in doubt, paths whose tickets a cancellation or a crash dropped |

`runTasks()` is the sequence `EnterQueue`, `CommitTask`…, `Committed`,
`PromptObsolete`, then `NextQueue`, `StartTask`…, `EndQueue` for each queue, and
`CommitRegistry`, `RegisterQueued`, `Teardown`. It is one call on one thread;
it is split because the process can die at each step and because `start` and
`commit` of several tasks must be told apart. `Apply` is a window queueing any
set of tasks, then `runTasks()`. `Restart` is the death of the process, or an
exception nobody catches (`pc = "thrown"`). A new transaction reads
`durable`. `FailInstall` leaves any subset of the package's files renamed, and
the target of the failed rename perhaps deleted (`FS::rename` on Windows). The
jobs of one task are a single job here: `InstallJobs` covers the inside.
`Installer` is the user's view: only what was asked for is installed or removed,
as a whole, never over another package's file; a transaction becomes durable
as one.

Left out here: ExportTask (in `Archive`), the receipt's contents other than errors,
temporary files (`InstallJobs`), and tasks that are queued while the modal
report of a finished transaction is open.

### RemoteList and Settings (`remote.cpp`, `config.cpp`, `manager.cpp`, `import.cpp`, parts of `reapack.cpp`, `about.cpp`, `api_repo.cpp`, `api_misc.cpp`)

`RemoteList` is the vector of remotes with its map of positions, as operators on a
record; `NoRemote` is the null remote of a failed lookup.

| variable of `Settings` | code |
|---|---|
| `list`, `option` | `m_config.remotes`; `install.autoInstall`, which stands for the four options of the manager that work the same way |
| `ini` | the file: slots, their number, the option |
| `rows`, `mods`, `uninstall`, `toggled`, `changes` | the manager window: names shown, `m_mods`, `m_uninstall`, `m_autoInstall`, `m_changes` |
| `pc`, `syncList`, `todo`, `restored` | where the main thread is in `apply`, a reset, the import of a queue, or the handlers of `onFinish`, and the locals of these loops |
| `tx` | the transaction as far as settings see it: `m_syncedRemotes` (`synced`), synchronizations under way, handlers of `onFinish` in their order |
| `import` | the import window: its state, downloads that have not ended, the queue, and as history what failed and what was imported |
| `unsaved`, `drifted`, `tx.inhibited`, `tx.late` | history for the properties' excuses |

Each command of a window or of a script is an action; `apply`, the restoration
of the defaults, the import of a queue and the handlers of a finished transaction
are single calls, split into a step per element of their loops. `EndSyncs` is all that
`Transaction` does with synchronizations, here a set that empties. Left out: a
registry that cannot be opened (`setupTransaction` then returns null), validation
of names and addresses, selections of several rows (the loop over them is in
`ListWindows`), and message boxes of an import, during which other events are
handled. `RefreshIndex` is the manager's and the About window's forced
synchronization, which obeys the same handlers.

### Filter (`filter.cpp`)

`Filter::set` cuts a text into words and pushes each to the group that the push before
it returned; the model takes the words with their flags (quotes and anchors) and the
operators as actions. `nodes` is the tree, each node with the index of its
parent, `group` the cursor, `flags` those for the next node. `FilterMeaning` is the reference: a stack of
parentheses levels, each a set of matching rows, updated by the usual
precedence rules with the same words. `MatchesItsMeaning` compares, after every
word, the rows that the tree matches with the rows the filter means. Texts are sequences
of characters in their final case; `WordAssumption` has that no text is in two lists of
synonyms, as in the table of `pushSynonyms`.

### ListView, ListWindows, AboutWindow and Windows (`listview.cpp`, loops of `browser.cpp` and `manager.cpp`, `about.cpp`)

`ListView` is the list as a record: `rows` are the program's, numbered in the order
of creation, with `viewIndex` and `userIndex`; `items` are the control's, with the
number of their row in `param`, copies of the texts and the selection; `dirty` is
`m_dirty`, what an edit owes. Its methods are operators, and `Ties` stands for
what an unstable sort does with equal rows. `ListWindows` is one list used by the
browser (`listDo`, fill) or the manager (`uninstall`, refresh), with a user who
sorts, filters and selects between the steps of neither: each loop over a
selection is one call, split so that invariants see every removal.

`AboutWindow` has two such lists: `menu` (categories of a repository or versions of
a package) and `details` (its packages or files), `delegate` for
`AboutIndexDelegate`/`AboutPackageDelegate`, `current` for `m_currentIndex`.
Showing another index or package, a selection in the menu, sorting, following
the browser's selection (`updateAbout`), and activating a row (which may replace the
delegate from inside its own call) are actions. `Windows` puts both together for checking.

### Versions and Catalog (`version.cpp`, `package.cpp`, `index.cpp`, `index_v1.cpp`, `source.cpp`, `metadata.cpp`, `synchronize.cpp`, `receipt.cpp`)

`Versions` parses and compares names (a text is its numbers and words; separators
say nothing) and looks versions up. `Catalog` reads a document of nested
elements as a state machine: open or add an element, close it, and the checks of
constructors and of `add*` that keep, skip or refuse it. `index.catMap` and
`pkgMap` are the maps of positions; `Source` elements give files, their target
path and their sections of the action list. On a loaded index,
`find`, `synchronize` (which release a synchronization installs) and `Changelog`
(what the report tells) are operators that the properties quantify over.

### Browser (`browser.cpp`, `browser_entry.cpp`, and the transactions of `reapack.cpp`)

| variable | code |
|---|---|
| `registry`, `cached`, `enabled` | what is installed, the cached index, whether the repository is enabled |
| `tx`, `phase` | the current transaction, reduced to its tasks, its refresh and its receipt; where `Transaction::finish` and its handlers are |
| `window`, `loadState` | none, hidden or shown; `m_loadState` |
| `entries`, `actions`, `rows`, `button` | `m_entries`, `m_actions` by package, rows of `m_list`, the Apply button |
| `view`, `menu`, `current`, `pointed` | the view and an open context menu with its package |
| `refused`, `closing`, `commands` | history: tasks refused at once; an OK whose `apply` has not returned; a bound |

A refresh makes new entries and carries the actions over by package and
version (`Target`). The version is the one that compares as the same (`findVersion`), so an
index that now calls version 1 "1.0" keeps a wish for it: `WishesAreKept` compares
wishes by `SameWish`. The handler that the browser leaves in a transaction that loads its indexes is
`OnFinish`; the steps from there to `Teardown` are one call, split since the report is
modal and the handlers see each other's effects.

### Archive (`archive.cpp`, `archive_tasks.cpp`, ExportTask)

A computer is remotes, cached indexes, registry and files. `Export` writes the
table when its task starts and compresses in jobs of one worker, while commands
of the user queue other tasks; `Carry` takes the finished archive to another
computer; `Import` reads the table line by line (repositories at once, packages
as install tasks of a queue), and `Extract` runs the jobs. `temp` is the archive
being written, `zip` the one at its final place.

## Runs

| run | question | result |
|---|---|---|
| `database` | do named savepoints with leftovers behave as a stack of snapshots? | yes |
| `registry` | do tables stay whole with stale ids, conflicts, restores and reused rowids? | yes |
| `thread_pool` | is each job executed and reported once, serial ones alone, aborted ones never a success, in all interleavings? | yes |
| `install_jobs` | are sources fetched in parallel put in place together or not at all, and what is left of a failed task? | whole packages only; of a failed task, at most files of its jobs that had ended well stay |
| `transaction` | three packages handing files over to each other, by commands of the user or by a synchronization whose commit and prompt add tasks; any grouping, failing jobs and file operations, cancellation, crash at any step | holds, with the excuses below |
| `settings` | do the list of repositories, the file, the manager and the synchronizations agree, in any order of commands? | yes, as below |
| `filter` | does the tree built word by word match what the filter means? | yes, unless a word with synonyms follows OR |
| `list_view` | do rows, items, selection, loops over it and the About window's two lists stay in step through every edit, sort and filter? | yes |
| `manager_uninstall` | does the manager's own loop visit the selected rows? | **no** |
| `catalog` | is a loaded index ordered and searchable, do updates only go forward, do files stay where their type says? | yes |
| `browser` | are the user's wishes, the entries and the list right after any refresh, hide, close and transaction? | yes |
| `archive` | does an archive hold what its table lists, and does an import install exactly that? | yes |

`manager_uninstall` is the one that ends with a violation. `manager.cpp:419` goes on
until every selected row was taken or kept, and the browser's loop of the same kind
(`browser.cpp:794-819`, whose comment says "Assumes the index vector is sorted")
walks the indexes of the selection. `Manager::uninstall` takes the first index of what
is still selected plus the number of protected rows met so far, as if selected rows
were next to each other. With a protected repository selected and an unselected one
after it, the unselected one is uninstalled and a selected one stays; in a list
sorted downwards the index can be past the end. `AnySelection = TRUE` lets protected
rows into the selection together with others; with FALSE (`list_view`), the loop is right.

`DiskAgrees`, `ScriptsAgree` and `FailuresAreReported` are checked with the
excuses their comments name: paths under a failed file operation, paths whose
tickets were dropped, a thrown exception. Each is checked
outside of them, and with `Impatient = FALSE`: no package is queued again while it is
outstanding.

`SettingsAreSaved` excepts the two commands that leave saving to a later call:
`ACTION_RESETCONFIG` and `AddSetRepository`. `ChangesAreCounted` excepts a global
option that is reset while a change of it is pending; `SyncsObeySettings` a remote
whose own option is changed together with the global one: `apply` keeps the copy of
the remote that it made before, so that "do not install new packages" for one
repository together with "install" for all still installs its packages once.

### Behaviours of the code that the models show

No text of the repository says otherwise of these, so they are excuses or
exclusions of the properties, not findings. A reader of the code should know them.

*Tasks and transactions.*
- A file that an update keeps, but no longer as a script for the action list, stays in the action
  list: `m_oldFiles` has only files that the new version lacks (`install.cpp:59-68`;
  `Demoted`, excepted in `ScriptsAgree`).
- Of two installs that want a file which a removal in their queue frees, the second
  is refused although, by itself, it would have been possible (`task.cpp:38`;
  `TakenBy` in `ConflictsAreReal`).
- An uninstall whose copy of the entry is older than the registry removes the package
  that was given the same rowid since; `QueuesEntriesOfNow` and `NoReusedIds`,
  see Proofs, are what a caller owes.
- An install admitted because an update before it in the queue gives up a path,
  when that update's download then fails: `commit()` has renamed its file over the
  other package's and its `push` throws; no caller of `runTasks` catches
  (`install.cpp:124`; `pc = "thrown"`).
- Cancelling while the second queue downloads clears the tickets of the first,
  whose packages are committed (`transaction.cpp:45`; `lost`).
- A package queued twice in one transaction, not installed before: the second
  task's old entry is empty, so it removes no files of the first
  (`transaction.cpp:106`; `Impatient = TRUE` violates `DiskAgrees`). Tasks that a
  command queues while a transaction is being cancelled are dropped
  (`transaction.cpp:156`).
- `inhibit` stops neither a running download of an uninstalled repository nor the
  callback of one that ended: the deleted index is saved again
  (`transaction.cpp:289`).
- An emitter's destructor discards its events in the loop's queue, but not those of
  a batch that is being run (`event.cpp:60`); it takes a box opened by a handler
  between two events of one batch.
- `FileDownload::save` returns true when it removed the temporary file of a failed
  download (`download.cpp:243`), which `synchronize.cpp:50` takes for a new index.
- `Transaction::loadIndex` keeps the index it loaded first, so an index downloaded
  later in the same transaction is not read by tasks queued before.

*Filter.* A word with synonyms after OR leaves the cursor in its own group, so the
following words join the alternatives (`filter.cpp:149`): with `AnySynonym = TRUE`
`MatchesItsMeaning` fails, and no text or test says what was meant; run and theorem have
`AnySynonym = FALSE`.
`matchRow` looks at the first occurrence only, so an anchor or a whole word that a
second occurrence would satisfy does not match (`filter.cpp:269`); the meaning of a
word is taken from it.

*Browser.* An `apply()` that ends in the call itself, all its tasks refused, fills
nothing: the refused rows keep their cells (`refused`). A package's wish for a version together
with flags, applied and cancelled, leaves the flags wished; a refresh drops the
flags when the target version is gone. A repository that is toggled while the
browser loads indexes makes the end of the load skip one refresh. A
cancelled refresh whose index does not load empties the list and drops the queue.

*About, reports, import.* The report is modal and opened by the first handler of
`onFinish`, and the About window is not locked: an install started from it adds
handlers to the vector that is being iterated (`reapack.cpp:295-304`, `event.hpp`). The
install command keeps a copy of the remote. A package that is shown again after an
update keeps its selection. A context menu left open while the delegate is
replaced finds no row selected and uses a null package (`about.cpp:427`). The
`flags` of an archive's package line that is cut short are not initialised.

*Archive.* Extracting an index truncates the cached one before the zip entry is
read; `remotes.add` comes before `Index::load`, so a repository stays when its index
is broken; errors of writing to the zip are not looked at.

*Index.* Of two categories of one name only one is found by name
(excepted in `FindFinds`). A category whose parts are all ".." has an empty path, the
front of which is "" (`path.cpp`), so its scripts go to the main section.

### Bounds, and why they are enough

- `database`: 3 contents, 3 levels, 6 frames. The code nests two levels
  (runQueue, push); names collide from the second restore on.
- `registry`: 3 packages, 3 paths, 4 releases with two conflicts and an update
  that resolves one, 2 callers (one changes what the other holds), rowids 1–3, one
  savepoint around push's own.
- `thread_pool`: 2 workers (6 in the code; what tells workers apart is only
  "the same or another"), 3 jobs, of which one may be answered 429 and two are
  serial, nesting as deep as three jobs allow, each job pushed once. Deadlock is
  not checked: when all jobs are over, the pool stops.
- `install_jobs`: 2 tasks, one of two sources and one of one, so that a failure has a
  sibling to stop and another task to leave alone; 2 workers. One job
  may be answered 429: then batches nest, and a start event may be handled after its
  job's end; such jobs (`late`) are excepted
  from `FailedJobsLeaveNoFile`. CHECK_DEADLOCK is FALSE as for the pool.
- `transaction`: 3 packages, 3 paths; one installed package's update frees the path
  that another wants, together with the removal of a third. A behaviour
  has one of two batches of requests: the user's, or a synchronization with the tasks its
  commit and prompt add and two of the user's. Each request is made once
  (`made`), so there are at most five transactions in a behaviour, in any
  grouping; rowids 1–3 so that one is reused.
- `settings`: the protected remote and two more, of which one moves to another
  address and one comes by import, script or restored defaults; two imports, one of
  two addresses. Five commands: two changes, Apply, and two more while the
  transaction runs or after it. Ends of downloads and of synchronizations and
  handlers do not count. Four slots are one more than remotes; 256 stands for the
  2^64 of `m_changes`, larger than any count of changes here. CHECK_DEADLOCK is FALSE:
  the user may stop giving commands.
- `filter`: six words, among them NOT, OR and parentheses, so that two
  parentheses with an OR inside or around them fit; three texts, one with the flags
  of a quoted and anchored word, one with a synonym, which is there with and without an anchor; rows that tell the three apart, alone,
  together, in one cell or in two. CHECK_DEADLOCK is FALSE: filters end.
- `list_view`, `manager_uninstall`: lists of at most four rows, three contents that
  share rows and lack others, two columns of which one compares data, and two filters
  that each hide some rows. A loop with two removals needs three rows. For
  the About window: two indexes of one repository, categories in another order than
  their names, a package with three versions of which the other index has one. The two windows
  are not used at once: they share code and no state. CHECK_DEADLOCK is FALSE for the
  undefined outcome of a loop past the end.
- `catalog`: a document with one package of three versions, or with two of each kind of element;
  eight texts of versions, among them equal ones of unequal length, words against
  numbers, and an overflow; `MaxNumeric = 2` for 2^16 - 1. A comparison of three names
  is what transitivity takes. CHECK_DEADLOCK is FALSE: reading ends.
- `browser`: two packages of one repository, one installed, two contents of the index, of
  which one lacks a version and a package and names the other version in another way; three commands: queue, apply, and one in the
  midst of the transaction. CHECK_DEADLOCK is FALSE: the user may stop.
- `archive`: two repositories with one package each of the same name, two versions, three
  computers to start from or to carry to; four commands: export, two while it
  runs or before the import, and the import. CHECK_DEADLOCK is FALSE: the same.

Deadlock is checked in the other runs: an `Apply` without a task
(what `commitConfig` does) is possible whenever the main thread is at rest, and
every other `pc` has a step. No symmetry is used: packages and jobs differ.

### Fairness

- Workers (WF): threads are scheduled; `DOWNLOAD_TIMEOUT` and low-speed limits of
  `download.cpp` end every download.
- The main thread (WF on `MainStep`): the host runs the timer, handlers return,
  and the user answers message boxes. Commands, pushes, cancellation, crashes:
  none.
- The ends of the jobs of each task in `Transaction` (`SF_vars(JobsEnd(t))`): `Apply` disables `JobsEnd` for the time
  of a `runTasks()` call, and a user may go on giving commands, but between two
  calls the timer gets its turn.

## Proofs

All by induction on steps, for every value of the constants that meets the named
assumptions (`ThreadPoolAssumption` etc. are as weak as the code allows: rowids
are positive, releases own their files, flags exist; a request that a synchronization
adds is an install and one of the prompt an uninstall, as in the code). An
inductive invariant was checked by TLC on the constants of the run before it was
proved.

**Database** (in RegistryProofs, which extends the registry and its connection).
- `DatabaseInvariant`: `DatabaseTypeOK` and `FramesNested`. `FramesNested` is its own
  strengthening: that the latest frame of every name below `m_savePoint` exists and
  that these frames lie in the order of their names. `AfterPush` and `AfterCut` say
  how the latest frames move when a frame is added and when the stack is cut;
  `CutKeepsOuter`, that a cut at a savepoint keeps those outside it.
- `DatabaseImplementsNestedTransaction`: with the invariant, every step is a
  step of the stack of snapshots or a stutter.

**Registry.** `RegistryTablesProofs` has what the queries and updates of the tables
do, for the two state machines built on them: one lemma per update that consistency is kept
(`PushedConsistent`, `ForgottenConsistent`, `FlagsSetConsistent`), and one that
says what is installed after it (`PushedInstalls`, `ForgottenRemoves`,
`FlagsSetInstalled`); `NoConflictIsFree` relates the UNIQUE constraint to
disjoint files of whole releases.
- `RegistryTypeCorrect`, `RegistryConsistent`: `TypeOK` and `Consistent`,
  inductive together. It needs the invariant for savepoints too,
  since `Restore` brings their contents back.
- `RegistryImplementsPackageSet`: the tables refine the set of packages.
- `RegistryKeepsIds`: the action property `IdsAreKept`.

**ThreadPool.** `PoolInv` says for each stage of a job where it is: in one place of one queue
(`QueuesHold`), with one worker (`HandsHold`), with a finish event pending (`FinishTold`)
in the loop or in one of the nested batches (`EventsOnce`), or waiting for one answer
(`AskingTold`); and that serial jobs are with the first worker.
- `JobsTracked` and `SerialAlone` follow from it; `AbortIsFinal` is the action
  property, which needs it for the stages that a worker passes after its last
  look at the flag.
- `PoolImplementsTaskPool`: the safety part of `ImplementsTaskPool`. The refinement
  needs `ResultTold` besides: a job that was executed has a result or will get one from
  the flag.

**InstallJobs.** `TasksInv` extends the pool's invariant with the order of events and the
books of tasks. `waiting` is the task's part of the pool's running jobs (`BooksTold`), a failed task
has told or is about to tell the others (`FailTold`), and a job that ran is in
`newFiles` or its start event is pending (`Heard`). `PackagesAreWhole` rests on `Anchored`: while a
start event is still to be handled after its job's deletion, another job runs, so that no task is
committed yet.
- `NoJobDangles`, `SiblingsStop`, `PackagesAreWhole` and `FailuresCleanUp` follow.

**Transaction.** Two invariants. `TransactionInv` holds for any requests, users and
faults: types, consistent registry, file and savepoint (`RegistriesHold`), every task in one
place (`PlacedOnce`), what is empty at each point of `runTasks()` (`PointsTold`), and,
while a queue is started, that each file was taken by a started install, is
free, or has an owner that no started task removes (`FilesFreed`).
- `TransactionIsSound`, `TablesStayConsistent`, `NothingIsDropped`,
  `CancelsAreHonoured`, `EveryFailureIsReported`, `RefusalsAreReal`.

`AgreeInv` is about files and scripts: what each started task remembers as old
files is what its package has (`OldTold`), which `start` of the other tasks in the
queue leaves alone (`OthersKept`); the files on disk are those of the registry
without the provisional changes, and, apart from `dirty` ones, of its file, which
is what a crash goes back to (`DiskTold`); and the last ticket about a path says whether it
is a main file of what is installed, whoever queued the tickets before it
(`LastTicketTold`, `ScriptsTold`). Its induction needs that tasks do
not disturb each other: `Undisturbed` says that no two outstanding tasks change the
same package and that the entry each of them holds is the one its package has now.
The code checks neither (`transaction.cpp:76-125` queues whatever it is given), and without
them the properties are false, see "Behaviours": TLC shows it with
`Impatient = TRUE`. So the theorems have them as a hypothesis on the behaviour:
- `DiskStaysRight`, `ScriptsStayRight`: `Spec /\ []Undisturbed` implies
  `[]DiskAgrees` and `[]ScriptsAgree`, through failures, cancellation and crashes.
- `TransactionImplementsInstaller`: `Spec /\ []NoReusedIds` implies
  `ImplementsInstaller`; `NoReusedIds` is weaker, that no uninstall holds an id which
  is another package's by now.
- `PatientIsUndisturbed`: `Undisturbed` follows from what the user does: nothing is queued
  for a package that is in the queue (`Impatient = FALSE`), what is removed is given by its
  entry of now (`QueuesEntriesOfNow`), and an index names the latest
  release of a package once (`OneTaskEach`, true of an `Index`, whose packages have different names).
  That synchronizations and the prompt for obsolete packages add tasks in the midst of a
  transaction is part of the proof (`Exclusive`, `EntriesOfNow`). All this is the case in the run `transaction`.
- `PatientTransactions` puts them together.

**Settings.**
- `AddLooksUp`, `RemoveLooksUp`: adding to and removing from a list that
  `WellFormed` describes gives one, in which exactly that name's lookup changed, whatever
  the length. `ErasedAt` is where each element of a vector goes when one is erased. `Archive`
  has the same list.
- `AlwaysConsistent`: the invariant all the others rest on. Its parts are the types; `ListOK`;
  `ModsOK`, that a pending change is kept under the name of the remote it was made for;
  `HandlersOK`, that outside `apply` every removal that waits in `onFinish` is `Followed` by a
  refresh and by a write, whatever later commands appended, and that handlers or `apply` mean
  an open transaction; `RowsOK`, that the rows are found or a refresh is on its way.
- `RowsAlwaysFound` follows.
- `SyncsAlwaysObey` needs `SyncsOK` during `apply`: what is in the list to synchronize is
  enabled in the list as it is now, with the option it was copied with, unless it is `Overridden`;
  and without a global change, nothing in it is still to be visited.
- `ChangesAlwaysCounted` needs that rows marked for removal are not shown, so that none is
  counted twice. Hypothesis `EnoughRoom`: `SizeMax` (2^64 in the code) is more than
  twice the number of names plus one; with less the counter wraps around.
- `SettingsAlwaysSaved` needs `FileOK`: the file holds the list, or somebody still has to write
  it (a script that did not ask for it, a handler of `onFinish`, the call that is running), and
  the slots after the last are empty. Hypothesis `EnoughSlots`: the bound `MaxSlots`, which the ini
  file does not have, leaves a slot per name. That reading the slots gives the list back
  (`ReadsBack`) is an induction on the slots: `LeastNat`, that a set of numbers has a least
  one, follows from the library's theorem on finite sets ordered by inclusion, which takes
  no operator; a first slot where the recursive function of `ReadRemotes` and the
  prefix of the list part cannot exist.

**Versions and Catalog.** `LessTransitive` is the heart: `Less` decides at the first segments that
differ, at a position that may be beyond the end of either name, where segments are zero
(`LessSomewhere`). With irreflexivity it is a strict order, on names that parse; what compares as
neither less nor greater has the same segments but for zeros at the end, so both are pre-releases or
neither is (`SameStable`). `PlaceFound` and `InsertKeepsOrder` are `std::set::insert` under this order.
- `CatalogInv`: versions are `Ordered`, maps `Tells` positions of elements of their names (`Linked`: an
  element that is added leaves them right, also when its name is there already), and files are where their
  type says, if it is known (`FileOK`); for the elements being read as well as for the index.
- `VersionsOrdered`, `Finds`, `FilesBelong` follow; the last rests on `TargetBelongs`, with `AppendKeeps` an
  induction on the parts of a path.
- `GoForward`: in sorted versions the candidates of `lastVersion` are those allowed and not older
  (`CandidatesAre`), of which the last is the newest (`LastIsNewest`); `ToldSince`, that the changelog
  has exactly the newer versions up to the new one, is an induction on the reversed list.

**List windows** (in CatalogProofs). What a list is between two methods is told by named parts:
`Held` (items are copies of rows), `Indexed` (a row's view index and an item's parameter undo each other,
and a row that is filtered out has no item), `Unsorted` (without a sort items lie in the order of
rows), `Distinct`. With the window's mode they are `Sound`, which holds even within a loop; `Rested` adds
that the list is sorted (`Sorted`) and filtered (`Settled`), which holds at the end of each edit. Each
method has a lemma on what it leaves, so that fills, loops and both windows share them.
- Sorting: `Orders` says when a relation orders a set strictly, `InOrderLists` that `InOrder` then lists the set
  once, in order. The comparison `Precedes` is an order for any cells and ties.
- `ListInv`: the list is `Sound`, and `Rested` unless a loop is under way. `ViewIsRight` follows.
- `LoopInv`: the rows still to come (`Ahead`) are those chosen and not visited, wherever removals have moved
  them: the index minus the removals before it is where the row is now. `LoopsAreRight` has the
  hypothesis `~AnySelection`, as the run `list_view`; without it the property is false
  (`manager_uninstall`).
- `SelectionStays`: each step `KeepsSelection`, an action property about rows that are in view
  before and after it.

**About window** (in CatalogProofs). The window's filter hides nothing, so its lists show all their rows. `StandsFor`
says that rows stand for the members of a set, each once; `AboutInv`, that the menu's rows are those of
the delegate (`MenuOf`), that at most one of them, `current`'s, is selected (`OnlyRow`), and that the list
beside it holds that row's details (`DetailsOf`).
- `DetailsAreRight` follows, for every index, in which categories and versions may have equal names.
  `AboutAssumption`: a package has a version (without one it is not added) and the empty filter
  matches everything.
- `WindowsAreApart`: the composition implements both windows; `WindowsAreRight` carries the results over.

**Archive.** The lists, tables and archives are made by loops: `Configured`, `Read` and the library's
`FlattenSeq` are recursive functions, of which `Steps` shows that they exist, and `CountUp` what holds after
each of their steps.
- `TableMade`: the table is `TocOf` the registry, that is, the entry of each package stands below its
  repository; so lines of one package are equal (`LineIsEntry`), and an import cannot
  undo one line by another.
- `ArchiveInv`. `TempOK`: what the archive that is written does not hold yet is a job that is left, and
  the registry is the one its table was made of, as an export is alone in its queue. `TasksOK`:
  a file to extract is in the archive, its job is left, or its task failed. `HistoryOK`: every
  line of an import is installed, reported, asked otherwise by the user or the business of a task in a
  queue, and every task in a queue is an export, of the import or of the user.
- `TableRead`: what `Read` has after each line (`ReadUpTo`), for any archive and any index files that
  cannot be written; `TaskCommitted`: of several tasks of a package the last one tells what is registered and
  which files it has.
- `ArchiveHolds` and `ImportFollows` follow.

**Browser.** `Inv`, in six parts. `TxOK` and `WindowOK`: the transaction fetches
exactly when the browser waits, until its handler ran, and a browser that waits has a
window. `FreshOK`: the entries are those of the registry unless the handler is still to
come, or the transaction will ask for a refresh that `DeferredLoaded` does not skip.
`ListOK`: every entry with a target is in the queue, a row for a package at most, which tells
its entry or is among the refused, and the view of queued actions is the queue. `PointerOK`: while a
menu is open, the row of `m_currentIndex` is that of the package under the cursor.
- The lists are sequences made by recursive functions; `Only` (what `erase` and `fillList` leave)
  and `listDo` are unfolded one element at a time by `KeptSoFar` and `DoneSoFar`, with
  `CountUp`, an induction on a bounded interval that `LeastNat` gives.
- `ListDone` is the loop of `listDo` for any number of rows, of which each command may
  remove its own: after k commands every index still to come has, less the rows lost, the row it
  had at first. That is why indexes must be sorted, as the comment in the code says;
  `SelectionIsSelected` shows that they are. Nothing is asked of other packages.
- `Transferred` and `Populated`: a wish goes over to the new entries, by a version
  that compares as the same (`FoundSame`), or what it asks for is gone.
- `BrowserInv`, and from it `HandlerFindsItsBrowser`, `BrowserShowsTheRegistry`,
  `RowsTellTheQueue`. `QueueKeepsWishes` is the action property; its first form, with
  equal wishes, could not be proved: it was false where the index renames a version.
- Of an index, the proofs assume only that it has a sequence of versions for each package, none of
  which is the null pointer (`BrowserAssumption`).

**Filter** (in BrowserProofs). `match` and `Meaning` are recursive functions, over a tree and over the open
parentheses. `Recursion` gives them values: a function that is defined at each place by what it has at
lower ranks exists (by `CountUp`, on ranks), and `RecursionOnce` that there is no other (by `LeastNat`). That a node
moved by OR stays in a tree takes new ranks, twice the old ones (`MovedTree`).
- `FilterInv` says, by `Told`, that there are groups `A`, one for each open parenthesis, and `C`, the chain of groups
  of type MatchAny that OR opened in each, on one path to the cursor (`Opened`). `Means` is what the nodes in them
  have to match: all but the last one in the group together the `operands` of the level, the last one or,
  after OR, those in the chain its `last` operand. A group that the next parenthesis opened is the
  operand to come (`Hole`), so each level can be told without those above it.
- A word changes what is in the cursor's group only. Nodes off the path keep what they match
  (`OtherLevels`) and the levels below the last keep their groups (`BelowStays`), so each of the six cases is
  about the last level (`TopBecomes`): a node that takes the place of the next operand (`GrownMeans`,
  `OperandTold`), a chain that begins or goes on (`OrNew`, `OrAny`), a level opened or closed (`OpenTold`, `CloseTold`).
- `NearestIs`: a closed parenthesis and a word after OR give the cursor back to the group that was opened,
  past the chain, which is why `pushClose` must look for MatchAll.
- `FilterIsRight` follows from the last level to the first (`TreeMatches`). Hypothesis `~AnySynonym`, as in
  the run: after OR a word with synonyms leaves the cursor in a chain that no OR awaits, and the property fails.

`FramesNested` is proved for any depth, while TLC sees three levels; the registry's
for any packages, conflicts and callers; the pool's for any workers, jobs and nesting; the
index's for any document, texts of versions and paths; the archive's for any
computers, tables and commands; the transaction's for any requests and any number of transactions; the browser's for any
packages, indexes, rows and commands; the filter's for any words, rows, depth of parentheses and length; those of the lists for any rows, columns, filters, sorts, ties and selections.

Only model-checked: what needs fairness (`EveryTaskEnds`, the liveness part of
`ImplementsTaskPool`), which is beyond the prover. Every other property of the passing runs is a
theorem. No module declares a RECURSIVE operator: trees and sequences are read by recursive functions and
folds, so that theorems can be stated about any of them. The induction theorems of the library take an operator,
which the installed provers cannot instantiate; what a recursive function over numbers
computes is proved with `LeastNat` instead (`ReadsBack`, `OnlyKeeps`, `ListDone`, `AppendKeeps`, `ToldSince`,
`TableRead`), and over trees with ranks (`Recursion`).

## Not modelled

Dialogs, menus, tabs, rich text, XML, hashes, curl, strings,
time and platform wrappers: no state of their own that the rest relies on, or
I/O. Older schemas of the registry and `convertImplicitSections`, and the migration of the configuration: run once, before anything else.
The destructor of a pool with jobs: no path of the code destroys one that is busy.
Paths and the file system are modelled where tasks use them, with failing
operations; `removeRecursive`'s race with a worker's `mkdir` is not. Progress
counters and the wording of reports are presentation. Of the REAPER API,
`AddSetRepository` and `ProcessQueue` are in `Settings`; the other functions read
what the models have or call the commands they have. The process state saved with
windows (sizes, columns, views) is left out.

## Plan

1. *Done*: the models of `PROJECT.json`; the proofs of Database, Registry, ThreadPool,
   InstallJobs, Transaction, Settings, Versions, Catalog, Archive, Browser, Filter and the windows' lists.
2. Proofs that remain: that what the user sees of a filter obeys the laws of its language (NOT NOT, the order of
   operands), from `FilterIsRight`; liveness, if a prover for it is at hand.
3. Modelling that remains: commands given while the modal report is open, open
   context menus in `AboutWindow`, directories removed under a worker.
