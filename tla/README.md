# Verification of win-folder-size

win-folder-size is a DLL loaded into Windows Explorer. It hooks the calls with
which Explorer reads the *Size* column of a row, and answers for folders with a
size that a background scan has found. This directory holds TLA+ models of the program,
the TLC runs that check them on small instances, and TLAPS proofs, for every
value of the constants, of all safety properties that a passing run checks: among them the
agreement of the program's three normalisations on paths of any length, the cache's,
the scanner's and the Everything client's implementation of what they promise, the
resolver's invariants alone and in the system whose disk changes, the hooked calls' guards
and pointers, and what an unloaded module leaves behind. Liveness is model-checked.

Paths below are relative to the repository. `PROJECT.json` lists the
components, runs, mutants, hazards and theorems, and maps every definition that
models code to its source lines.

## 1. The system

### Components, their state and operations

| component (source) | state | operations |
|---|---|---|
| SizeCache (`src/core/size_cache.*`) | `m_cache`: normalised path -> size, timestamp, last access; `m_mutex` | `get`, `put` (with eviction), `invalidate`, `clear` |
| SizeResolver (`src/core/size_resolver.*`) | references to the shell's objects; `m_queue`, `m_inFlight`, `m_forceRefresh`, `m_recentFailures`, `m_stopWorker`, `m_recentRefreshes`; a worker thread; `m_queueMutex`, `m_refreshMutex` | `extract_path`, `resolve_and_inject` (Explorer's threads), `queue_refresh_if_due`, `queue_background_resolution`, `worker_main`, destructor |
| ChangeNotifier (`src/core/change_notifier.*`) | thread, hidden window, stop event, registration with the shell | `start`, `stop`, message loop, `invalidate_path_and_ancestors` |
| FolderScanner (`src/providers/folder_scanner.*`) | list of cancel tokens | `scan_async`, `scan_sync`, `cancel_all`, the walk of a tree |
| Initialisation (`src/core/init.*`, `src/dll_main.cpp`) | `s_initialized`, `s_shutdownRequested`, a once flag | `initialize`, `background_init`, `shutdown` |
| HookManager, DetourTransaction (`src/hooks/`) | which functions are detoured, `m_active`; one pending Detours transaction; `s_depth` of each thread | `install_hooks`, `remove_hooks`; the hooked calls, each under a per-thread recursion guard |
| RegQueryHook (`src/hooks/reg_query_hook.*`) | the original function | answers queries of property lists with `System.Size` in them, or with a list of its own where there is none |
| EverythingClient (`src/providers/everything_client.*`) | `m_pipe`, `m_connected`, `m_lastConnectAttempt`; `m_mutex` | `connect`, `get_folder_size` with time-outs and reconnection, `disconnect` (started and ended by initialisation and shutdown; not asked by the resolver at this commit) |
| SizeFormatter (`src/core/size_formatter.*`) | none | bytes -> text |
| COM server (`src/com/`) | reference counts, `g_objectCount`, `g_lockCount`; the server's entries in the registry | class factory, `DllCanUnloadNow`, registration and unregistration |
| Logging (`src/core/logging.cpp`) | log file, `g_initialized`; `g_log_mutex` | `init_logging`, `log_message`, `shutdown_logging` |

### How they interact

1. Explorer calls a hooked function for a row. The hook calls
   `SizeResolver::resolve_and_inject` on Explorer's thread.
2. That looks in the cache. A hit is returned at once, and behind the row's
   back a *forced* refresh is queued unless the folder had one in the last
   few seconds. A miss is queued and the row gets the sentinel `Pending`, or
   stays blank when the queue refuses it.
3. The worker takes a request, consults the cache again unless it is forced,
   resolves a junction, scans the folder it leads to, stores a *complete* scan in the
   cache under the path that was asked for, removes the request from `m_inFlight`, and sends `SHCNE_UPDATEITEM`, at which
   Explorer asks for that row again (back to 1).
4. Independently, the shell posts change events to the ChangeNotifier's window.
   It erases the cache entries of the path and of all folders above it and
   announces those folders with `SHCNE_UPDATEITEM`. The shell posts both kinds
   of announcements to the notifier, too, which must recognise its own.
5. A hooked `Prepare` or `Do` of a recursive operation (copying a folder, say) raises its
   thread's `s_depth`, so that the rows read below it are left to Explorer.
6. The lists of properties that Explorer's panes show come from the registry; the hook of
   `RegQueryValueExW` inserts the size. It is independent of all the rest.

### What is hard

- The resolver never holds two locks at once. Between the cache lookup and the
  enqueueing of one query, or between the erase from `m_inFlight` and the
  notification, every other thread may run.
- Scans take long, and files change during them; invalidation and the store of
  a scan's result are not ordered against each other.
- Under a junction's path the cache holds the size of a folder elsewhere, whose changes the
  shell reports under other paths.
- Shell events are best-effort; scans fail; the queue is bounded and refuses.
- Three hand-written normalisations of paths must agree.
- The hooked functions nest, and exceptions of two kinds leave them by different ways.
- A request over a pipe can time out at any byte, with its answer still on the way.
- Initialisation and shutdown run on different threads, partly under the loader
  lock, while hooked calls are in progress; after shutdown the static objects are destroyed,
  still under that lock, and one of them joins a thread.

`PROJECT.json` ("hazards") lists these one by one, at the line where each bites,
with the properties aimed at it or the reason why there is none.

### What makes each component correct

- **SizeCache**: it is a store of fresh sizes per *folder*, whatever the spelling;
  it stays within its limits; it evicts what was used longest ago.
- **SizeResolver**: duplicates are recognised exactly, work is bounded, a failure
  is remembered and not retried, a pending row is never abandoned; its worker is gone with
  the module.
- **ChangeNotifier**: every ancestor is invalidated, for both ends of a rename; it
  does not answer its own announcements for ever.
- **Resolver + notifier + scanner on a changing disk**: a wrong size is served only
  for a known reason, and not for ever.
- **FolderScanner**: only the sum of a whole tree is a result; cancelled scans
  end; tokens are not leaked.
- **Lifecycle**: after shutdown no hook and no thread of the module is left.
- **Hooked calls**: each finds its original; the guard covers what is below it, and is
  released on every way out.
- **RegQueryHook**: the two calls by which a caller learns a length and a value agree;
  a list keeps its items.
- **EverythingClient**: an answer is about the folder that was asked for; the mutex is
  released whatever the service does.
- **SizeFormatter, COM server, `extract_path`, Logging**: a sorted column reads in order;
  counts are exact and registration whole; nothing is left referenced; logging never
  stops who logs.

## 2. Modules

| module | models | extends / uses |
|---|---|---|
| `Paths` | `normalize_path`, `normalize_request_path`, the ancestor walk, on token sequences | |
| `FolderNames` | the shapes of the shell's paths, and reference definitions of the folder a spelling names | `Paths` |
| `PathSpelling` | paths spelled token by token | `FolderNames` |
| `SizeCache` | `SizeCache`, one action per public operation | `Paths` |
| `FreshStore` | *abstract*: what the cache promises, over folders | |
| `CacheCallers` | callers in any order; refinement of `FreshStore` | `SizeCache`, `FolderNames`, `FreshStore` |
| `PathExtraction` | `extract_path`: the chain of things obtained and released | |
| `SizeResolver` | queries, queue, refresh throttle, worker, junctions; Explorer's rows | `SizeCache` |
| `MCSizeResolver` | three rows on two folders, a junction, a server path | `SizeResolver` |
| `ChangeNotifier` | the message loop | `SizeCache` |
| `FolderSizeSystem` | resolver and notifier on one cache, with a disk that changes and scans that read it folder by folder | `SizeResolver`, `ChangeNotifier`, `FolderNames` |
| `MCFolderSizeSystem` | two nested folders, one beside them, a junction to the outer one | `FolderSizeSystem` |
| `ScanService` | *abstract*: what a scan promises its caller | |
| `FolderScanner` | scan threads on a tree, cancel tokens, callers that wait and callers that time out, shutdown | |
| `MCFolderScanner` | a caller of each kind, a drive with a folder, an empty drive; refinement of `ScanService` | `FolderScanner`, `ScanService` |
| `HookManager` | `install_hooks`, `remove_hooks`, the Detours transaction, the hook of `RegQueryValueExW` | |
| `NotifierThread` | `ChangeNotifier::start` and `stop`, the thread around the message loop | |
| `Lifecycle` | `DllMain`, `background_init`, `shutdown_foldersize`, `~SizeResolver` and the worker it joins, the loader lock | `HookManager`, `NotifierThread` |
| `HookCalls` | Explorer's threads in nested hooked functions, which start the worker, the recursion guard, exceptions of both kinds | `Lifecycle` |
| `MCThreads` | the two parts that wait for a thread, side by side: a pending row, and the unload | `MCSizeResolver`, `Lifecycle` |
| `EverythingQuery` | *abstract*: what the Everything client promises who asks it | |
| `EverythingClient` | connecting, a request over the pipe, disconnecting, against a service that answers late and anything | `EverythingQuery` |
| `RegQueryHook` | the hooked registry query, callers that ask twice, others who write | |
| `SizeFormatter` | the texts of sizes, as the amounts they name | |
| `ComServer` | objects, locks, `DllCanUnloadNow`; registration write by write | |
| `MCParts` | the parts that share no state, side by side: the initial state picks one | `PathSpelling`, `CacheCallers`, `PathExtraction`, `EverythingClient`, `RegQueryHook`, `SizeFormatter`, `ComServer` |
| `Logging` | the log's mutex from attach to detach, in either build | |
| `SizeCacheProofs`, `SizeResolverProofs`, `FolderSizeSystemProofs`, `FolderScannerProofs`, `EverythingProofs` | theorems | the module each is named for |
| `LifecycleProofs` | theorems | `HookCalls`, and with it `Lifecycle` |
| `PathsProofs` | lemmas about the path operators, which the other proofs cite; induction on sets of naturals | `Paths`, `FolderNames` |
| `PartsProofs` | theorems | `PathSpelling`, `CacheCallers`, `RegQueryHook`, `PathExtraction`, `SizeFormatter`, `ComServer` |

### Correspondence

**State.** Variables carry the names of the members they model (`m_cache`,
`m_queue`, `m_inFlight`, ...). `workerPc`, `workerPath`, `effectivePath` and `workerSize` are
the place and the locals of `worker_main` and `resolve_size`; `rowPc` is the place of a row's
`resolve_and_inject`. `shown` and `dirty` belong to Explorer. `visits`,
`toNotify` and `renamed` are the locals of `invalidate_path_and_ancestors` and of
the rename handler.

In `FolderSizeSystem` the constant `Home` says which folder a path leads to: itself, or, where
the path is or passes a junction, another one. A scan reads what the folder at `effectivePath`
holds (`UnderRoot`), passing over the junctions it comes to; its size is filed under
`workerPath` and compared with what that path leads to (`TrueSize`). A change is one to a
folder, made by a path, and the event names that path. `spoiled` and `excused` are history:
whether a change fell into the running scan, and which entries have a change that no event will
answer for.

In `FolderScanner`, `frames[c]` is the stack of activations of `scan_recursive` in
the thread that caller `c` started, and `result[c]` the `ScanResult` returned last.
The future of `std::async` waits for its thread when it is destroyed, so that a caller
cannot have two scans, and scan and token go by the caller's name: `m_cancelTokens` and
`cancelled` are sets of callers. The only caller in the program at this commit is
the resolver's worker, which waits (`scan_async_result`, `size_resolver.cpp:336`); the
impatient ones are the users that the scanner's interface offers a time-out.
`disturbed` is history, for the reason of an answer.

`installPc`, `removePc`, `startPc`, `stopPc` are the places in the functions of those
names, `initPc`, `detachPc`, `notifierPc` those of the initialisation thread, of `DllMain`
at unloading and of the notifier's thread. `hooked` is what Detours has patched,
`originals` the `s_original_...` pointers that are set. `removalFailed` is history.
`threadsPin` does not change: it is whether `std::thread` holds a reference to the module
while its thread runs, which depends on the C++ runtime the module is built with. `m_worker`
is whether the resolver has a thread to join. The thread ends only when `m_stopWorker` is set,
and that is by the destructor, under the loader lock, so that a worker once started never ends
before it is joined; what it does meanwhile is `SizeResolver`.

In `HookCalls`, `frames[t]` is the stack of hooked functions that thread `t` is in, each with
its place: in the original, in `resolve_and_inject`, in the formatting, or in the
original that a handler calls. Unhooked functions between them are not shown. `s_depth` is
the thread-local counter, and `lost` is history: the guards whose destructor never ran.

In `EverythingClient`, `request` is what the holder of `m_mutex` does, `callPc` its place,
`inbox` what the service has written into the pipe and nobody has read, in units of eight
bytes (a header, or a size), and `work` the requests the service has not answered. A unit
is whatever it is, not what it is read as: `AsHeader` and `AsSize` say what a wrong one is
taken for. `leftBehind` is history: the pipe was kept with a part of a reply unread.

In `RegQueryHook` a list is the sequence of the items between its semicolons, `buffer`
the length the caller was told, `current` whether the hook told it, and for the value that is
there now. A value of another type is a list of something that is no item (`OtherType`).
`SizeItem` and `MarkerItem` are the items that contain the texts the code searches for, in
whatever decoration. In `SizeFormatter` a text is an amount of a number of decimals and a unit.
In `ComServer`, `dying` are the overlays between the last
reference's release and the destructor that counts them, `classes` are the seven values registered, and `registration` says what
the last (un)registration reported. In `Logging`, `place` is where the loader's thread is
in `DllMain`, and `logging[t]` where a thread is in `log_message`.

**Steps.** An operation that holds a lock from its first statement to its last is
one action (all of `SizeCache`, `QueueBackgroundResolution` including the start of
the worker). `resolve_and_inject` is `StartQuery` (cache) followed by `QueueMiss`, or
by `TakeRefreshSlot` and `QueueRefresh`. `worker_main` is `Dequeue`, `Lookup`,
`ResolveReparse`, `Scan`, `Store`, `Finish` and `NotifyShellItemChanged`; what ends it,
`~SizeResolver`, is `DestroyResolver` and `JoinWorker` of `Lifecycle`, and `StartWorker` there
is `ensure_worker_started`. The walk of a tree
is `OpenDirectory`, `VisitEntry`, `FindNext`, `ReturnToFolderAbove` and
`RemoveCancelToken`: the token is read between any two of them, and another thread may
set it there. `install_hooks` is `Resolve`,
`BeginInstall`, `AttachAll`, `CommitInstall`, of which each may fail; so is `remove_hooks`. A
commit and the store to `m_active` behind it are one step, because nobody reads
`m_active` in between. A hooked function is `EnterHook`, `ResolveSize` or `LeaveToOriginal`,
`Catch`, `Except` and `ReturnFromHook`, and the guard goes with the steps into and out of
the original. `get_folder_size` is `EnsureConnected`, the steps of `connect_impl` (`OpenPipe`,
`PipeBusy`, `NextPipe`), `SendHeader`, `SendPayload`, `ReadHeader`, `SkipUnit` or
`ReadSize`, with `GiveUp` and `SkipFails` wherever a read or write fails or times out. In
`PathExtraction` every call of the shell and the release after it is a step. The returns of `queue_background_resolution` are its disjuncts `Refuse`,
`JoinInFlight`, `Overflow`, `Enqueue`.

**Data.**

- A path is a sequence of tokens (drive, separator, name). The code compares
  string lengths with 3 to recognise `C:\`; `LongerThanRoot` says what this
  means for tokens. An empty path does not reach the core and is not modelled.
- A `steady_clock::time_point` is kept as its distance from now, capped just
  above the largest duration it is compared with. `queue_refresh_if_due` reads the
  clock *before* it takes its lock; `since` and `rowClock` model how old that
  reading is, bounded by `MaxDelay`.
- The text of a registry value is the list of its items, and the comparison of names
  without regard to case is left out; a message over the pipe is a header and units.
- A size is an element of `Size`. In `FolderSizeSystem` it is the vector of what
  was read in each folder: the code adds these numbers, and two vectors of one
  sum would only hide a stale part.
- `std::sort` leaves the order of equal times open: eviction has a set of outcomes.
- Exceptions of the standard library (`bad_alloc`, a thread that cannot be
  created) are not modelled; that a call of a hook ends in its handler is.

**External parts**, modelled from how the code uses them: Explorer (a row holds
its last answer, asks again after an UPDATEITEM for its folder, and may ask at
any time), the shell (delivers an event or loses it; delivers our own
announcements), the disk (`WriteFile`, `MoveFile`), the clock (`Tick`); Windows' loader (its
lock is held while `DllMain` runs, a thread needs it to begin and to end, a module that
is gone takes no step), Detours (one transaction in the process, a refused commit
changes nothing and ends it), the Everything service (it answers the requests of a
connection in their order, at any time or never, with a size, a refusal or a reply of
another length), the registry and its other writers, and COM's clients (which release what
they hold and unlock what they locked).

## 3. Runs

| run | question | instance | why it is enough |
|---|---|---|---|
| `parts` | does each of seven parts that share nothing do what it promises? | see below | see below |
| `folder_scanner` | does the scanner implement `ScanService`, are its tokens exact, does every call return? | 2 callers, one impatient; a folder in a drive with a skipped entry, an empty drive | a time-out, shutdown and a read error at every step of a nested walk, for one scan or both |
| `resolver` | are the queue's data structures consistent between locks? | 3 rows, 2 folders, queue of 1, cache of 1 | duplicates, overflow, cooldown, join and expiry all occur |
| `threads` | does a pending row get an answer? does an unload end? | 2 rows, `MaxDelay` 0; or 2 critical functions and both optional ones | as `resolver`, without the stale clock reading that liveness does not depend on; as `lifecycle`, without the hooked calls |
| `system` | is every wrong size in the cache excused? | 3 folders and a junction to one of them, a row that shows the junction, 1 change in either of two files, by either path, or a move | a change during, before and after scans; loss; renames across folders; events named by the folder's path and by the junction's |
| `sizes_converge` | do sizes become right, does the notifier calm down? | 1 row, 1 file, losses and failures allowed | a lost event leaves what a junction would leave: an entry no event reaches |
| `lifecycle` | what does unloading leave behind, whatever fails and wherever initialisation stands, and what do the threads inside hooked functions find? | 2 critical functions (`GetSize` and `Do`), both optional ones; 1 thread, 2 nested calls, 1 lost guard | every subset of operations refused; both runtimes; unloading and process exit between any two steps and inside any hooked call; the worker started before, in the middle of and after `~SizeResolver` |
| `unload_under_thread` | *violated*: has the notifier's thread unwound when the module goes? | 1 critical function | |
| `guard_lost` | *violated*: is the recursion guard released on every way out? | as `lifecycle` | |
| `debug_build` | *violated*: does the module attach in either build? | the loader and 2 threads, both builds | |
| `stale_after_invalidation` | *violated*: is a size right once its invalidation is done? | as `system`, no losses | |
| `no_periodic_refresh` | *violated*: does a visible row get refreshed by itself? | as `system` | |

The parts of `parts`:

| part | question | instance |
|---|---|---|
| paths | do the normalisations agree with a reference, and with each other? | all spellings of up to 8 tokens: root, server, trailing separators, three nested names |
| cache | does the cache implement `FreshStore`, within limits, evicting the least recently used? | 4 spellings of 3 folders, limit 2, TTL 2; 3 entries exceed the limit of entries and of memory |
| extraction | does `extract_path` leave nothing referenced? | a call after the other; a failure at every step, one exception at each |
| everything | is an answer about the folder asked for, is the mutex released, does the client reconnect? | 2 folders, 2 pipes tried twice, payloads up to 3 of which 2 are skipped, 4 units in the pipe: refusals, lengths and late answers meet in one connection |
| registry | do a caller's two calls agree, are lists kept whole? | every list of up to 3 items out of a name, a marker and a decorated size, and as many values of another type; a buffer of 2; an exception at every call; every target and one value that is none |
| formatter | does a sorted column read in order? | a kilobyte of 8 bytes, every size up to 3 TB in these units: all boundaries, halves and the sentinel |
| com | are counts exact, is the registration whole? | 1 factory, 2 overlays, 2 references and 2 locks; every prefix of the writes |

A kilobyte of 8 keeps every boundary between units and every rounding below it; tenths of
8 and 64 bytes and hundredths of 512 meet halves. `Kilo` and `Sentinel` are the only
constants of the formatter, and `Sentinel` lies above the first terabytes so that their two
decimals are reached.

`CHECK_DEADLOCK FALSE` is set for `parts`, where a path stops growing and a size reaches
the sentinel; for the runs of `Lifecycle` and `HookCalls` and for `threads`, in which the module
is unloaded, the process ends, or `~SizeResolver` waits for ever; and for `debug_build`, where it is detached, or its loader blocked.

Bounds: `MaxTokens` (spelling), `MaxThrown` (exceptions), `MaxPayload`, `Capacity` and
`MaxRequests` (the pipe), `MaxItems` (lists), `MaxReferences` and `MaxLocks` (COM),
`MaxNesting` and `MaxLost` (hooked calls), `MaxDelay` (age of a clock reading), `MaxChanges`
(disk changes), and the code's own constants `TTL`, `MAX_ENTRIES`,
`MAX_MEMORY_BYTES`, `MAX_PENDING_REQUESTS`, `FAILURE_RETRY_INTERVAL`,
`VISIBLE_REFRESH_INTERVAL`, `REFRESH_MEMORY`, `RECONNECT_INTERVAL`, `MAX_SKIP`, `kBufCch`, scaled down in their order. Rows are
told apart by their paths, so no symmetry is declared.

### What the runs show

- The cache keeps its promise under every spelling, and every operation leaves it
  within its limits; the minimum of one victim per eviction is what makes this
  true for small caches.
- The four data structures of the queue agree at every point between the locks:
  `m_inFlight` is exactly what is queued or being resolved; a remembered failure
  is never in flight; a row that shows `Pending` always has a request, a
  notification on its way, or an update it will answer.
- A scan answers with the whole tree's size or with nothing, though part of the sum
  is passed along with every failure and `cancel_all` by one caller hits everybody's
  scans at any point. A scan's own token removal and `cancel_all` may come in either
  order, and neither leaves a token behind. A call that timed out returns, late: in the
  future's destructor.
- `remove_hooks` always finds the pointers of exactly what is hooked, and never comes upon
  an installation that is under way, because `s_initialized` is set after the commit. An
  unloaded module leaves a hook only if Detours refused the removal, or if the runtime
  lets the module go in the middle of `background_init`, whose only look at
  `s_shutdownRequested` is its first step.
- Unloading gets past the notifier by the time-out of `stop`: the thread it waits for cannot
  end under the loader lock. It does not get past `~SizeResolver` once a folder was queued:
  the join has no time-out, and the worker needs the loader lock to end and to begin the
  threads that scan. `UnloadEnds` names this as its one exception. It concerns a runtime that lets
  the module go while a `std::thread` runs in it; with one that does not, the worker keeps the
  module until the process exits, when its threads are dead and the join returns at once. A module
  that was unloaded leaves no worker, unless a hooked call that was still in it queued a
  folder after the destructor had looked: `ensure_worker_started` then takes
  `m_stopWorker` back and starts a thread nobody joins (`WorkerLeavesWithModule`).
- On a changing disk, a wrong size in the cache has one of four reasons: its
  invalidation is still to come; the event was lost; the change fell into the scan the size
  is from; or the event names the change by a path that does not pass the entry's, because a
  junction lies between the two. The last three last until the folder is scanned again
  without a change in between. All four are repaired, provided the row is looked at again.
- A hooked function always finds the original, also when the hooks are removed under it:
  the pointers are set before anything is hooked and are never cleared. What nests below
  an operation resolves nothing, until a structured exception takes the guard away.
- The Everything client never gives one folder the answer of another while its connection is in
  step: whatever fails or times out while a reply is under way closes the pipe, and a
  refusal's payload is skipped. It gets out of step in three ways, each of which the model
  records in `leftBehind`: the skip itself fails, the payload is longer than 4096 bytes, or the
  code announces further messages, which nobody reads.
- The registry hook answers both calls of a caller alike, with two exceptions: a value
  longer than its own buffer, of whatever type, which its source knows (`TooLong`), and an
  exception in the hook at the first call, after which the length told is the original's.
- No size reads as more than a larger one, though `format_size` has one decimal below a
  gigabyte and two above it, and rounding may name 1024 of the smaller unit.
- Explorer never finds the overlay's identifier without the class, whichever write or
  deletion fails; `DllCanUnloadNow` counts overlays, those in their last `Release`
  included, and locks exactly. It counts neither
  the class factories nor the threads in hooked functions.

### Five differences between documents and code

1. `change_notifier.cpp:57` says that after the invalidation re-navigating "shows
   updated sizes". A scan that read a folder before the change stores its result
   after the invalidation (`size_resolver.cpp:343`), and the next look is answered
   from it. Run `stale_after_invalidation`.
2. `docs/technical-overview.md:21` says visible folders are refreshed
   "periodically". Refreshes are queued by a query that hits and by nothing else
   (`size_resolver.cpp:392`); a row that is visible but not asked about again stays
   wrong after a lost event. Run `no_periodic_refresh`.
3. `core/init.h:12` says of shutdown "just set flags and let things unwind".
   `shutdown_foldersize` waits under the loader lock for the notifier's thread
   (`change_notifier.cpp:257`), which needs that lock, and goes on after five seconds
   without asking. The module can be gone while the thread is still to run in it. Run
   `unload_under_thread`, for the runtime that keeps the module during `background_init`.
4. `docs/hook-targets.md:114` says the recursion guard is "always decremented even on
   exception". The module is compiled with `/EHsc`, with which a structured exception that
   goes to the outer function's `__except` runs no destructors; the thread's rows stay
   blank from then on. Run `guard_lost`.
5. `README.md:37` offers a debug build with "verbose logging". In it `init_logging`, which
   `DllMain` calls first, logs while it holds `g_log_mutex`, a `std::mutex`, which
   `log_message` locks again on that thread. Whether the thread then stops or the runtime throws, the
   module is not attached. Run `debug_build`. A release build compiles that message away.

### Fairness

- `WorkerStep`, the notifier and the steps of a query that has begun: weakly fair.
  They are threads that Windows schedules, they block on nothing but short locks,
  and a scan ends because a tree is finite.
- In `folder_scanner`, the steps of a scan thread and of a caller that has something to
  do are weakly fair. Whether a time-out, a shutdown or an error occurs is not assumed.
- In `threads`, of the unload only the steps of `DllMain` are weakly fair. Nothing is assumed of
  the notifier's thread, the worker or the initialisation. Of the resolver, the worker's steps and
  the rows' are. The part that was not picked stays in its initial state, where the fairness
  asks for no step. `lifecycle` checks no liveness.
- In `parts` the fairness is the Everything client's. The steps of a call are weakly fair,
  because its reads and writes have time-outs, and so is time. For `Reconnects` somebody
  asks again and again, and a pipe that is tried again and again opens at last (strong
  fairness of `AskForSize` and `OpenPipe`). Of the service nothing is assumed. Behaviours in
  which another part was picked are not fair; liveness says nothing of them.
- In `debug_build` every thread that can go on does.
- A row with `dirty` asks again (`threads`): this is what `SHCNE_UPDATEITEM` is
  for. Nothing makes Explorer ask unprompted there, and nothing makes time pass.
- `sizes_converge` assumes in addition that the user looks at the row again and
  again and that time passes. Time needs strong fairness because `MaxDelay` stops
  the clock while a row stands between a hit and its refresh. Neither run assumes
  that events arrive or that scans succeed.

## 4. Proofs

`SizeCacheProofs` has the lemmas about the cache: keys and finiteness, what an
eviction returns (`EvictedWithinLimits`: a cache at most one entry too large ends
within both limits), and that each operation keeps type and limits.

`SizeResolverProofs` proves, for every set of paths, rows and sizes and every limit
and interval:

| theorem | states |
|---|---|
| `ResolverInvariant` | `[]ResolverInv`, the inductive invariant |
| `ResolverTypeCorrect` | `[]ResolverTypeOK` |
| `CacheStaysWithinLimits` | `[]CacheWithinLimits` |
| `InFlightIsExact` | `[]InFlightIsWork` |
| `WorkStaysBounded` | `[]WorkIsBounded` |
| `FailedStaysOutOfQueue` | `[]FailedIsNotInFlight` |
| `PendingIsNeverAbandoned` | `[]PendingIsBacked` |

**Assumptions.** `LowerAssumption` and `TokenAssumption` (below, with `PathsProofs`),
`SpellingAssumption` (no path passed is more than a root and ends in two separators, of
which the code drops one), `CacheAssumption` and `ResolverAssumption` (types of the
constants; the queue has room for one; a refresh is remembered at least as long as
it blocks the next). That the cache and the resolver normalise such a path to the same
key, and a key to itself, on which every step of these proofs depends, is no assumption:
it is the lemma `KeysAreKept`.

**The inductive invariant** is the conjunction of the type invariant, the cache
limits, `InFlightIsWork`, `QueueFits` (the queue's length), `FailedIsNotInFlight`,
`HitIsShown` (a row about to refresh shows a size) and `PendingIsBacked`. The parts
need each other: `WorkIsBounded` follows from the queue's length only because
`m_inFlight` is exact, and `Dequeue` keeps it exact only because the queue has no
duplicates; a failure is recorded for a key that is just leaving `m_inFlight`,
which is not in the queue a second time; and a pending row is backed by
`m_inFlight` only if the refresh steps of other rows never remove from it, while
a row between a hit and its refresh must show a size, so that ending its query
does not leave a pending row behind. The step proof has one lemma per part and in
it one step per action.

`FolderSizeSystemProofs` proves, for any folders, files, rows and limits, with or without
events that are lost:

| theorem | states |
|---|---|
| `SystemInvariant` | `[]SystemInv`, the inductive invariant |
| `SystemTypeCorrect` | `[]SystemTypeOK` |
| `StaleStaysExcused` | `[]StaleIsExcused` |
| `PendingIsNeverAbandonedInSystem` | `[]PendingIsBacked`, in the composed system |

`JunctionAssumption` says that what a path leads to leads to itself, and that the path
Windows resolves a junction to is one of the same folder's; junctions stay as they are.
`SystemAssumption` closes the paths under the notifier's walk and lets rows show folders
and whole trees' vectors be sizes. `FileAssumption` says that a file is no folder, that its
path is one of the shell's, spelled with "\" only, on a drive or a server, and that what stands
before its name spells the folder it is in. That the notifier's walk from the file visits every folder
above it follows (`FilesAreVisited`, from `FoldersAboveAreVisited`): whatever begins the folder's
key and is a key itself ends behind the root or behind a name, and there the walk cuts.

`ResolverInv` survives the composition: the notifier only erases entries and sets rows
`dirty`, and no part of it is disturbed by that (`NotifierKeepsResolver`). `StaleIsExcused`
is not inductive, for three reasons. It says nothing of a scan under way, whose result
becomes an entry later: `ScanIsExcused` says that what the running scan has read is still
what the folders hold, unless a change fell into it (`spoiled`), and that so is the size it is
about to store. It says nothing of expired entries: `EntriesAreExcused` covers
all, so that no step has to ask for an entry's age. And an entry's size can only be
compared with its tree if it is one of that tree: `EntriesAreWhole`, and `FilesTypeOK` for the
scan, whose root is what the worker's path leads to (`RootIsHome`). A change disturbs the last three at once (`ChangeKeepsInv`); the notifier's steps move
an excuse from `events` to `visits` or `renamed`, and drop it only with the entry; `Store` takes
the place of an excused entry, and excuses the new one only if the scan was spoiled.

`FolderScannerProofs` proves, for every tree, any number of callers and any choice of
the impatient ones:

| theorem | states |
|---|---|
| `ScannerInvariant` | `[]ScannerInv`, the inductive invariant |
| `ScannerTypeCorrect` | `[]ScannerTypeOK` |
| `TokensStayExact` | `[]TokensAreExact` |
| `ScannerKeepsPromise` | `KeepsScanPromise`: `FolderScanner` implements `ScanService` |

The size of a tree would be a recursive operator, out of the prover's reach. The
constant `SizeOfFirst` gives instead the bytes in the first *n* entries of each
directory, and `SizesAssumption` is the recursive equation it solves; TLC evaluates
the assumption for the function `MCFolderScanner` computes. On a finite tree the
equation has one solution; the theorems hold for any. `ScannerAssumption` gives the
constants their types. The invariant says what every activation on the stack has added up:
exactly the entries it has passed, and that the activation below it stands at the folder
the upper one scans (`Nested`, `Progress`). A complete result is therefore the size of
the folder the scan returns from, at every depth. Its other parts keep a caller, its
thread and its token together (`Together`) and give every incomplete result a reason
(`Reasoned`). The refinement then has one case per action: `StartScan` is `Ask`,
`GetResult` and `LeaveScan` are `Answer`, whatever fails, times out or cancels is
`Disturb`, and the rest stutters.

`LifecycleProofs` proves, for any set of hooked functions (`HookAssumption`: the optional
ones differ from the critical ones):

| theorem | states |
|---|---|
| `LifecycleInvariant` | `[]LifecycleInv`, the inductive invariant |
| `LifecycleTypeCorrect` | `[]LifecycleTypeOK` |
| `HooksStayKnown` | `[]HooksAreKnown` |
| `RemovalAlwaysFollowsInstall` | `[]RemovalFollowsInstall` |
| `UnloadedModuleIsUnhooked` | `[]HooksLeaveWithModule` |
| `UnloadedModuleHasNoWorker` | `[]WorkerLeavesWithModule` |

The invariant says where each thread can be while the others are elsewhere (`InitPlaces`,
`DetachPlaces`), that the transaction is pending exactly while its owner is between
begin and commit (`TransactionOwned`), what is hooked and queued at each place
(`Installing`, `Removing`), and that hooks which stay are announced by `s_initialized`
once `install_hooks` has returned (`Announced`). That part is what `HooksLeaveWithModule`
needs: `DllMain` decides by `s_initialized` alone. `WorkerIsJoined` says that behind the join a
worker exists only if `m_stopWorker` was taken back.

It proves of `HookCalls`, for any threads, any hooked functions and any nesting:

| theorem | states |
|---|---|
| `HookCallsInvariant` | `[]HookCallsInv`, the inductive invariant |
| `CallsImplementLifecycle` | `HookCallsSpec => LifecycleSpec`, so that the theorems above hold with threads in the hooked functions, too |
| `OriginalsStayCallable` | `[]OriginalIsCallable` |
| `OperationsResolveNothing` | `[]RecursionIsQuiet` |

It takes `LifecycleInv` over and adds two parts. `PointersInv`: what is hooked has its
pointer, and there are no pointers before `install_hooks` sets them; `PointersStay` shows that no
step of the lifecycle takes one away. `CallsInv`: a thread's counter is the number of its guarded
frames and of the guards it lost (`GuardsCounted`), and no frame above a guarded one
resolves (`StacksQuiet`). The second needs the first: `ResolveSize` asks only whether the
counter is zero. `HookCallsAssumption` says which of the hooked functions hold guards.

`EverythingProofs` proves, for any folders, lengths, pipes and tries:

| theorem | states |
|---|---|
| `EverythingInvariant` | `[]EverythingInv`, the inductive invariant |
| `EverythingTypeCorrect` | `[]EverythingTypeOK` |
| `ConnectionStaysInStep` | `[]StaysInStep` |
| `EverythingKeepsPromise` | `KeepsQueryPromise`: `EverythingClient` implements `EverythingQuery` |

`StaysInStep` speaks of the time between calls; the invariant's part `Aligned` says
where a connection that is in step stands at every place of a call: nothing under way
before the request is sent; then the request at the service or one whole reply to it in the
pipe; then as many units as are to be skipped; or a size about the folder that was asked
for, with nothing behind it unless the code announced more. In the refinement `Lock` is
`Ask`, every `Return` is `Answer`, and the rest stutters. `EverythingAssumption` gives the
constants their types and tells folders from what is no folder.

`PathsProofs` has the lemmas about `Paths` and `FolderNames`, and `PartsProofs` proves from
them, for paths of any length over any drives and names:

| theorem | states |
|---|---|
| `PathShapes` | `[]PathInv`: a path is a drive, then separators and names by turns, or two separators, then names and separators by turns |
| `KeysAlwaysAgree` | `[]KeysAgree` |
| `KeysAreCanonical` | `[]KeyIsCanonical` |
| `InvalidationIsComplete` | `[]InvalidationReachesAncestors` |

`LowerAssumption` says that lowering twice is lowering once and makes a drive of a drive and a name of
a name; `TokenAssumption` says that no token is two of drive, name and separator. Windows has no
file names with a colon or a separator.

What the code does in loops, the model does by recursive functions: `VisitedPaths`,
the walk of `invalidate_path_and_ancestors`, is one on the tokens of a path, and
so is `Components`, the reference. What they compute is proved by induction over
the length. The library's induction rules take a predicate as a parameter, which the provers
cannot instantiate, so `PathsProofs` has the rule for sets: a set that contains zero and
with every number the next contains all (`NatInductionOnSets`, from `LeastNatural`); and,
from it, that a function may be defined by recursion at all (`RecursiveFunctionExists`). Then the
argument goes by shape: a path's parity tells separators from names, so the key of a path
has one token per component and separator (`KeyOfDrivePath`, `KeyOfServerPath`), a cut of the
walk falls behind the root or behind a name (`CutsOf`, `VisitedAre`), and the key of
such a cut is the canonical spelling of the first so many components (`KeyOfCut`).

`PartsProofs` also proves, each for any values of its constants:

| theorem | states |
|---|---|
| `CallersInvariant` | `[]CallersInv`, the cache's inductive invariant under any calls |
| `CacheIsTypeCorrect`, `CacheKeepsItsLimits` | `[]CacheTypeOK`, `[]CacheWithinLimits` |
| `EvictionIsLRU` | `EvictsLeastRecentlyUsed` |
| `CacheKeepsItsPromise` | `KeepsFreshStorePromise`: `SizeCache` implements `FreshStore` |
| `RegQueryInvariant` | `[]RegQueryInv`, the hook's inductive invariant |
| `LengthAndValueAgree` | `[]TwoCallsAgree` |
| `EveryInjectionIsFaithful` | `[]InjectionIsFaithful` |
| `ExtractionAlwaysLeavesNothing` | `[]ExtractionLeavesNothing` |
| `ColumnStaysInOrder` | `[]ColumnKeepsOrder` |
| `ComInvariant` | `[]ComInv`, the COM server's inductive invariant |
| `CountsStayExact`, `RegistrationStaysWhole` | `[]CountsAreExact`, `[]RegistrationIsWhole` |

- *The cache.* `EvictsLeastRecentlyUsed` speaks of what callers saw used last, the code of
  `last_access`; `CallersInv` says that the two agree on every entry, and that a put which did not
  stay was used no later than what did. Every round of an eviction takes a least recently
  used entry (`OldestRemovedIsOldest`), so all rounds together do. In the refinement a
  put is `FreshStore`'s `Write`, which may drop what was evicted, and an expired entry that
  is still in the map is no entry of the store (`Fresh`). `CallersAssumption` says that callers
  pass paths of the shell, on a drive or a server. `FreshStore` knows a folder by its components,
  whichever way a path spells it; that the cache knows it by the same name is the lemma
  `KeyOfShellPath`.
- *The registry hook.* `RegQueryInv` is `TwoCallsAgree` with types; that a length told once suffices
  the second time is a fact about the hook (`HookedTwice`), for every kind of value. Faithfulness needs
  that a list with one item more, without it, is the list (`InsertedIs`), that an injected list
  has a size item, and that the strategies leave such a list alone. `RegQueryAssumption` tells lists
  from other values, and has what is injected among the size items.
- *The path extraction.* The invariant is the property with the range of `link`; what is
  released is what is in hand (`ReleasedIsCounted`).
- *The size column.* The theorem holds for every kilobyte above one, so for 1024, where the run uses
  a small one. Two sizes in one unit: rounding keeps order (`RoundedKeepsOrder`), on either choice
  of a half. At a change of unit: the smaller rounds to at most one of the next unit, the
  larger to at least one (`RoundedKeepsWhole`), whatever the decimals.
- *The COM server.* `ComInv` ties `g_objectCount` to the number of overlays alive or on the
  way to their destructor (`Counted`); there are finitely many overlays (`ComServerAssumption`).

**Only model-checked**: liveness, which is out of the prover's reach: `PendingSettles`,
`SizesConverge`, `NotifierCalmsDown`, `EveryCallReturns`, `UnloadEnds`,
`MutexIsReleased` and `Reconnects`. And that `SizeOfFirst`, the one
constant that stands for something the model computes, solves `SizesAssumption`: TLC evaluates
it on the trees the runs use. The other assumptions speak of inputs only: of types, of
the paths the shell passes, of which folders and files there are.

## 5. Order of work, and what could follow

The cache and the resolver came first, then their composition with the notifier and the
scans on a changing disk, the scanner, start-up and unloading, the hooked calls, and last
the parts that stand alone. Every safety property of a passing run is a theorem now, and what
the proofs need of the paths is proved of the code's normalisations. What could follow:
junctions that change, and what the worker still does in an unload (section 6).

## 6. Not modelled

Junctions that are created, removed or led elsewhere while the program runs: `Home` and
`Target` are constants. An entry under the junction's path is then that of its former target, with
the event about the junction itself as with any other change of a folder.

In `Lifecycle`, what the resolver's worker does: there it only exists, so that it can keep the
module, be joined, or be started too late. That scans it starts after shutdown are not cancelled
is among the behaviours of `FolderScanner`. At process exit, whose threads are dead by then,
the destructors find nothing to wait for, and nothing after `ExitProcess` is modelled.

Exceptions of the standard library, but where the program has a handler for them or where
they leave something behind (`HookCalls`, `RegQueryHook`, `PathExtraction`).

In components that are otherwise modelled: the class `DetourHook` and
`FolderScanner::is_ntfs`, which nothing uses; the overlay's own methods, which answer
constants; the wording of texts and the grouping of digits; the comparison of registry names
without regard to case; in logging, which is listed as partly modelled, `flush`, which
nothing calls, the timers, and `diagnostic_log`, which opens and closes a file at every
line and keeps nothing.

The build, the installation scripts and the packaging are not part of the running program.
