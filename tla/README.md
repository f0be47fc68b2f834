# ttsc: formal models of its concurrent parts

ttsc compiles TypeScript with native Go plugins. Plugin sources are compiled on
demand by ordinary Node processes (CLI runs, bundler workers, editors) that share
nothing but directories on disk: no server, no advisory locks, only `rename`,
`mkdir`, `wx` opens, `utimes` and process-id probes. Long-running front ends sit on
top: a watch mode that keeps compiler processes warm and drives a worker thread,
and a language-server proxy between the editor and tsgo. What keeps these from
corrupting each other's output, losing an edit or showing stale results is
protocol, and protocol is what this project models.

This directory holds TLA+ modules, TLC configurations and TLAPS proofs. Paths
below are relative to `src/packages/ttsc/src` unless they start with `packages/`.

## 1. Inventory

| Component | State it keeps | Operations | Interacts with | Hard part |
|---|---|---|---|---|
| **Source-plugin build lock, v3** (`plugin/internal/source/*PluginBuildLock*.ts`, `waitForPluginBinary.ts`, `internal/retireLockDirectory.ts`) | `<key>.lock.v3/current`, `retired/<generation>`, owner and observer records, completion markers | acquire, inspect, wait, reclaim, release, record completion | driver, collector, guards | everything is read through the mutable path `current`; holders die; ids are reused; caches are shared between machines |
| **Cache entry and readers** (`PluginBinaryUse.ts`, `buildSourcePlugin.ts`) | the binary, `.binary-users/<token>`, a process-local map | adopt, publish, retain, test for live owners | lock, collector | a published path is not an admitted reader |
| **Plugin cache collector** (`prunePluginCacheRoot.ts`) | age and size marker | survey, evict, sweep tombstones | lock, readers | it may delete what somebody is about to use |
| **Native retirement guards** (`internal/SourceNativeRetirement.ts`) | `.ttsc-native-retirements/*`, per-task boundaries | begin, write, settle, defer release, assert | lock, Go cache, native processes | a Go command outlives its Node parent; guard files are read while they are written |
| **Go build cache coordination** (`GoBuildCacheCoordination.ts`, `withGoBuildCacheLease.ts`, `pruneGoBuildCacheRoot.ts`) | lease and intent records with mtimes, heartbeats | publish, list, inspect, rebase, finish, prune | guards, driver | no lock at all: publish-then-list, freshness by clock |
| **Eviction policies** (`prunePluginCacheEntries`, `pruneGoBuildCacheEntries`) | – | select by age and size | collectors | boundaries of the budget |
| **Runtime directory lock** (`launcher/internal/runtime/withRuntimeDirectoryLock.ts`) | a lock directory and a process-owned directory | acquire, wait, reclaim, time out | launcher | reclaim races |
| **Watch mode** (`launcher/internal/runTtsc.ts`, `launcher/internal/watch/*`, `compiler/internal/build/ResidentCheckWatchSession.ts`, `packages/lint/linthost/check_serve.go`) | debounce timer, pending change, cycles; two message channels and the file watchers of a worker thread; a Program per sidecar process and the changes it has not been sent | refresh, publish, settle, run a cycle, shut down | launcher, worker thread, sidecars | lost wake-ups and edits, exit while closing, a cycle that fails half-way |
| **Shared compile of the bundler plugin** (`packages/unplugin/.../claimSharedCompile.ts`) | a lock with a heartbeat, publications, partial writes | claim, wait, publish, reclaim, prune | bundler workers | a lock is reclaimed by path and put back when it was not the one judged |
| **Transform cache of the bundler plugin** (`packages/unplugin/src/core/transform/`) | a promise of a captured compile per key, the delivery pass, terminal verdicts, what the watchers said | capture, await, admit, deliver, evict, drain, open a pass, reset | bundler, shared compile, file watchers | a generation is replaced, withdrawn or outdated while a request awaits it |
| **LSP proxy** (`packages/ttsc/internal/lspserver/lsp_*.go`) | document generations, cached findings, the pending project refresh, pending-request registries | forward, inject, publish, refresh, cancel, answer | editor, tsgo, plugins; two pumps and a goroutine per computation | computations that outlive the text they read; answers to cancelled requests |
| **Owned native processes** (`internal/OwnedSynchronousProcess.ts`, `packages/ttsc/internal/sourceprocess`) | relay state | spawn, checkpoint, join, lose | guards | certifying that a process tree is gone |
| VS Code extension, graph server, playground, Metro, lint rules, compiler driver | – | – | – | no shared protocol, or pure functions of syntax trees |

What makes each correct:

* **lock**: one holder per key; a generation is retired at most once and only by its
  holder or after its holder died; a waiter is never blocked by a dead holder for
  ever, and never fails on a healthy lock;
* **entry**: the path a process was given stays runnable while the process lives;
* **guards**: while a guarded native command runs, nobody else publishes, adopts,
  evicts or deletes in its place, even if its Node parent is gone;
* **Go cache**: no object is deleted while a build runs; a dead collector does not
  stop builds; independent builds do not disturb each other;
* **shared compile**: as long as nobody is killed or suspended one worker compiles
  and the others adopt; whatever happens, every claim ends;
* **transform cache**: an answer is as fresh as the delivery pass promises, and the
  project is compiled once for all modules until something asks for another compile;
* **watch mode**: the Program a sidecar answers from contains every edit the launcher
  has reported; a settle receipt is given only after what was pending has been
  built; shutdown waits for the running cycle and always finishes;
* **LSP proxy**: what the editor is shown or asked to apply belongs to the text it
  has; every request is answered exactly once; no project input is forgotten.

`PROJECT.json` lists the hazards line by line ("hazards"), including those of
components that are not modelled yet.

## 2. Modules

| Module | What it is |
|---|---|
| `PluginKey` | abstract specification of one cache key: Free, held or Dead; a binary; readers |
| `PluginBuildLock` | the build lock, the entry, its readers, the collector and the guards of one key |
| `MCPluginBuildLock` | instances for TLC (hosts, symmetry sets) |
| `PluginBuildLockProofs` | TLAPS proofs about `PluginBuildLock` |
| `GoBuildCache` | leases and maintenance intents of the shared Go object cache |
| `MCGoBuildCache` | instances for TLC |
| `GoBuildCacheProofs` | TLAPS proofs about `GoBuildCache` |
| `SharedCompile`, `MCSharedCompile` | one publication of the bundler plugin, its lock and its claims |
| `SharedCompileProofs` | TLAPS proofs about `SharedCompile` |
| `TransformCache`, `MCTransformCache` | one key of the transform cache and the requests that share it |
| `TransformCacheProofs` | TLAPS proofs about `TransformCache` |
| `WatchSession`, `MCWatchSession` | the launcher's event loop composed with the topology worker and the resident check session |
| `WatchSessionProofs` | TLAPS proofs about `WatchSession`: types, shutdown and warm Programs |
| `WatchSettleProofs` | TLAPS proofs about `WatchSession`: settle receipts |
| `LspProxy`, `MCLspProxy` | the language-server proxy |
| `LspProxyProofs` | TLAPS proofs about `LspProxy`: types, findings and answers |
| `LspRefreshProofs` | TLAPS proofs about `LspProxy`: the pending project refresh |

Definitions named `...Skipped`, `...Steals`, `...Late` and so on are deliberately
wrong variants of the definition that follows them, and their comments say so.
They appear in no specification; putting one in the place of the real definition
shows that a property can fail.

### 2.1 PluginBuildLock

One key is enough: keys share no state except the pass of the collector, which
treats entries one by one. A step is one call other processes can observe.

| State | On disk or in the process |
|---|---|
| `protocol`, `current`, `retired`, `owner`, `observers`, `complete` | `<key>.lock.v3` and the generation directories in it; `retired[n]` is the directory found under the tombstone *name* `n`, which a rename by name could make a different generation |
| `guard`, `native` | guard file of a generation (`none`, `torn` = unreadable, `pending`, `unknown`); its running Go command |
| `binary`, `token` | the published executable; reader tokens (`bare` = created, owner record not yet written) |
| `up`, `reserved`, `using` | running programs by process id; the process-local reservation map; programs that were handed the path |
| `pc`, `task`, `lease`, `gen`, `who`, `ok`, `expired` | where a process is, what it has read, what it holds |

| Actions | Code |
|---|---|
| `StartBuild`, `LoopTop`, `Refused`, `Return` | `buildSourcePlugin`, `buildUnderPluginLock` |
| `Admit`, `Acquire` | `acquirePluginBuildLock` with its guard checks and protocol directory |
| `Wait`, `Released`, `Active`, `Abandoned` | `waitForPluginBinary`, and what builds and collectors do with an observation |
| `ReadGeneration`, `ConfirmMissing`, `RegisterObserver`, `ConfirmObserver`, `ReadOwner`, `RereadGeneration`, `ProbeOwner` | `inspectPluginBuildLock`, one action per read through `current` |
| `Qualify`, `Reclaim` | the collector's second look, `reclaimPluginBuildLock` |
| `Recheck`, `BeginNative`, `WriteGuard`, `Join`, `LoseNative`, `Publish`, `Retain`, `WriteToken` | the payload under the lock |
| `Release`, `Complete` | `releasePluginBuildLock` and the completion marker |
| `StartPrune`, `CheckUnfinished`, `CheckUsers`, `RemoveEntry`, `SweepOne`, `Unlink`, `SweepDone` | `prunePluginCacheRoot` |
| `Expire`, `Cancel` | the 600 s budget; `OwnedSynchronousProcess.checkpoint` |
| `Crash`, `Restart`, `OrphanExit`, `OperatorConfirm` | the environment: kill, id reuse, end of an unattended Go command, an operator who removes a guard |

Abstractions. The pre-v2 and v2 lock layouts are absent (the code keeps them for
older executables and never creates them). Which entry the collector's policy picks
is a choice in `StartPrune`. A process's own prune pass before a build is a
`StartPrune` of the same process. A rename that Windows refuses because a peer has
a handle open is retried by `retireLockDirectory`, and is a rename that happens
later. `SourceNativeRetirement.recover` has no caller in production, so a guard
that was left unsettled only goes away through `OperatorConfirm`. One lookup of
several files (for instance the guard directory) is one step except where its parts
can disagree: `torn` and `Vanishing` stand for guards that are being written or
removed during the lookup.

### 2.2 GoBuildCache

| State | On disk or in the process |
|---|---|
| `file`, `dir` | a coordination record: absent, fresh, older than its grace, dated in the future, or marked complete; lease or intent |
| `guard`, `child` | the guard that names a lease; the Go command started under it |
| `pc`, `call`, `mine`, `exit`, `result`, `beating` | a call of `withGoBuildCacheLease` or `pruneGoBuildCacheRoot`, its record, its outcome, its heartbeat |
| `age`, `behind`, `seen`, `kept`, `live`, `fixing` | a scan: the age of every record at the time the process sampled, whether the clock has stepped back since, records left to inspect, the guard snapshot, what was found, the record being rebased |
| `timely` | history: no heartbeat has been late by a grace period, and the clock has not stepped back during a scan |

`StartBuild`/`StartPrune`, `Admission`, `Publish`, `StartHeartbeat`, `List`,
`ListFails`, `Protect`, `Inspect`, `Rebase`, `Scanned` are common to both sides, in
the order of the code (a build scans before it starts its heartbeat, a collector
after). `BeginGo`, `WriteGuard`, `Join`, `LoseGo`, `EndRun` are the callback of a
build, `Check` and `EndPrune` the deletion, `Finish` the `finally` of both. `Age`
and `ClockBack` are time: a grace period without a heartbeat, and a clock that steps
back, a little or by more than a grace period. Freshness is relative to the `now` a
process has `Sampled`: a collector samples it before its intent is visible
(`pruneGoBuildCacheRoot.ts:46`), and to a process that sampled before a step back the
mtime `Touch` writes afterwards may be a grace period old. With `Suspends` a running
task may miss its heartbeats, which also covers a clock that jumps forward.

### 2.3 SharedCompile

A claim is one call of `claimSharedCompile` in a process of its own, with the
compile, publication and release that `captureTransformGeneration` runs on it. A
publication is identified by the claim that compiled it.

| State | On disk or in the process |
|---|---|
| `lock` | the directory at `<name>.lock`: whether it exists, which owner its file names, whether it is past the abandonment age |
| `aside[c]` | a lock a reclaimer moved to `<name>.lock.*.retired` |
| `temp`, `publication` | partial writes; `<name>.json` |
| `pc`, `old`, `stale`, `pruning`, `beating` | where a claim is and what it has read: the age it has statted, the owner it judged, whether it reclaims for a prune, a heartbeat between its check and its `utimes` |

`Read`, `Mkdir`, `Name`, `Reread` are the claim; `Compiled`, `CheckOwner`, `Rename`,
`Replace` the publication; `Release`, `UnlinkOwner`, `Rmdir`, `RemovalRefused` the
release; `Stat`, `Judge`, `Move`, `PutBack`, `Discard` the inspection and reclaim of
somebody else's lock; `Evict`, `Sweep` the prune. Every filesystem call is a step,
because every one goes through a path whose directory may have been replaced. `Age`,
`LateVerdict` and `Exit` are the environment. Which publications the budgets evict
is a choice; `Faults` lets the calls the code guards fail. `readPublication` answers
`undefined` for a file it cannot read, so a refused `Read` goes on to the lock and a
refused `Reread` compiles what is published; the history `unread` names the claims
that do.

### 2.4 WatchSession

One module composes the three parts, because the interesting behaviour is between
them.

| State | In the code |
|---|---|
| `disk` | the version of a source file and of the compiler's file listing |
| `worker`, `topo`, `base`, `owed`, `noted`, `barrier`, `inq`, `out` | the worker thread: its life, the watchers, what it last compared against, native events not yet delivered, pending notifications, an idle barrier, both channels |
| `answer`, `failed`, `exited` | promises of `AsyncWatchTopology` |
| `closed`, `running`, `rerun`, `timer`, `orphans`, `note`, `cyc`, `active`, `joined`, `done` | the closure of `runWatch`: debounce timer, pending change, cycles and their continuations, shutdown |
| `settle` | a request for a settle receipt (`WatchSettlement`) |
| `selected`, `buf`, `prog`, `retiring` | `ResidentCheckWatchSession`: the selected execution, the changes buffered per sidecar, the versions a sidecar's Program was built from, a disposed sidecar |

Actions follow the message order of the code: `Edit`, `Drained`, `Notify`, `Decide` in
the worker; `Serves`, `FirstRefresh`, `Refresh`, `Publish`, `AwaitIdle`, `AnswerIdle`,
`CloseTopology`, `WorkerExit`, `WorkerDies` answer its requests; `OnEvent`, `OnReply`,
`OnExit`, `TimerFires`, `StartRun`, `Begin`, `Published`, `Ask`, `Checked`,
`Refreshed`, `Query`, `Observed`, `Shutdown`, `Finish` run in the launcher's event
loop, one macrotask (or one continuation) each. The emit lane and one-shot builds are
the case in which every cycle is cold. Both publications of a cold cycle are one
request. A failing listing while notifications are decided is reported to the user,
not retried (`troubled`). Edits after the session is closed are left out. Two more
histories mark what the code gets wrong (section 6): `overlapped`, a cycle began during
another or before the first was due, and `missed`, a warm cycle failed before its change
was buffered.

### 2.5 LspProxy

A text is identified by the `documentGeneration` that introduced it; findings, code
actions and edits by the text they were computed from.

| State | In the code |
|---|---|
| `doc` | per document: open, dirty, `diagnosticsGeneration`, `documentGeneration`, its text, the text the warm Program read, the cached plugin findings |
| `shown`, `board` | what the editor displays: findings of a document, project diagnostics |
| `jobs`, `task` | running `publishMergedPluginDiagnostics` goroutines; the `refreshProjectDiagnostics` run |
| `pump`, `up` | where the two pumps are inside a handler |
| `project`, `input`, `source`, `refresh` | `projectDiagnosticGeneration`, project inputs and the version each plugin stored last, the pending refresh with its timer and coalescer |
| `req` | requests with the registry that remembers them |

A step is one critical section (`diagnosticsMu`, `pendingMu`, `projectRefreshMu`,
`writeMu`). What tsgo reports itself is carried verbatim by the proxy and has no
variable. A check for a dirty document that the code makes before it asks the plugins
and repeats afterwards is made once, at the second place. The plugins are asked in
one step: their answer depends only on what they read, and the guard of the store
looks at the same generation. The document of project diagnostics is assumed not to
be an open document.

### 2.6 TransformCache

| State | In the code |
|---|---|
| `cache` | the promise stored under the key, here the number of a generation |
| `gens` | generations: progress of `transformProject`; result and what it may be used for (`kind`); `deliveryEpoch`, `servedFiles`; the terminal verdict; the trackers with their changes, `unverified` flag and drain |
| `req` | a run of `runTransformTtsc`: its file, text and pass, and the await it is suspended at |
| `epoch` | `TRANSFORM_CACHE_EPOCHS` |
| `disk`, `opened`, `compiled` | the project's files; history: the disk when the pass was opened, captures since there was a reason for one |

`Arrive` and `Leave` run `Enter`, one turn of the loop of `runTransformTtsc` up to its
first await: `Capture`, `Join`, or the replay of a pass verdict. `Await`, `Admit` and
`Confirm` are the stretches between two awaits; `AwaitRejected` is `awaitOrEvict`,
`Deliver` is `deliverCachedTransform`. `Compile`, `Throws` and `Walk` are
`transformProject` with the dispositions of an attempt. `Matches` is
`matchesCachedSource`; `SharesPass`, `TextHolds`, `NarrowHolds` and `WholeHolds` are the
proofs it chooses from, `Proven` what a proof leaves behind. `Hear`, `Drained` and
`WatcherFails` are the watchers; `BeginBuild`, `Reset` and `Edit` the host and the
user.

An input is its version on disk; hashes, signatures and realpaths all say whether it is
still that version. A text is a version of the module or `Rewritten` by an earlier
plugin. Which reads a compile makes at which moment is a choice between the walk before
it and the walk after it. A slot of `gens` is reused when its generation is neither
cached nor awaited. A fresh-only answer to a failure and the one to a success that a
watching host must refuse are both evicted. The precompiled entries of a cache are calls
of a caller in `Prepares`. What a request has to be answered for is history: `floor`,
the disk when its pass was opened or, outside one, when it arrived, and `joined` and
`asof`, that it takes the word of a drain it did not start, and the disk when that one
was started. `Reaches` is the older of the two. Left out: changes of program membership,
adoption of shared compiles (`SharedCompile`) and retries for learned facts, host
callbacks that throw, polling that is declared while a generation still has watchers.

## 3. Runs

All runs set `CHECK_DEADLOCK FALSE`: the number of calls, events and edits is bounded,
and a system that has nothing left to do may stop.

| Run | Instance | Shows |
|---|---|---|
| `lock_races` | 3 processes, 2 generations, 4 tasks, 2 kills, prune after every build | `LeaseIsCurrent` (one holder), `TombstonesHonest` (nobody retires a successor), `FencesReserved` (a tombstone somebody can still rename onto is not freed) |
| `lock_faults` | 2 processes on one machine, one scoped, 3 generations, 3 tasks, 2 kills, id reuse, timeouts, refused filesystem calls | the inductive invariant `KeyInv` (with `TypeOK` and `LockInv`); `ReadersKeepBinary`, `NativeKeepsKey`, `CompletionCertified`, and `ImplementsKey`: the files implement `PluginKey` |
| `task_liveness` | 2 processes on 2 machines, one scoped, 2 tasks, 1 kill, id reuse, budget | `TaskEnds`, although nobody can probe the other machine's processes; `LeaseIsCurrent` |
| `dead_holder` | 2 processes, 2 tasks, kill, no budget | `DeadHolderReclaimed` |
| `cache_races` | 2 processes, one scoped, 3 records, 3 calls, 1 kill, 1 step back of the clock, faults, retry budget | while `timely`, `Exclusion` and `GuardedLeaseKept`; always the inductive invariant `CacheInv` |
| `cache_suspend` | 2 calls with suspension, 1 kill, 1 step back of the clock, no faults | `NoPruneUnderChild`; `BuildAdmitted`: every build gets to its callback |
| `shared_claims` | 2 claims, one of which rejects the old publication, id reuse of the other, faults with refused reads, 2 lapses | while nobody lapses `OneCompile` and, for claims whose read under the lock was not refused, `NoDuplicateCompile`; always `PartialsKept`, `ClaimEnds` and the inductive invariant `SharedInv` |
| `watch_session` | 2 sidecars, 1 edit; worker, sidecars, queries and publications that fail; overlapping cycles | `ShutdownJoins`; until cycles overlap or a warm cycle misses its change, `WarmProgramsFollow` and `SettledHonest`; always the invariant `WatchInv`, `ShutdownEnds`, `SettleEnds`, `EditAnswered` |
| `watch_lost` | 1 sidecar, 1 edit, failures | **violated**, see 6.2 |
| `lsp_proxy` | 1 document, 1 plugin, 1 request, 3 frames | `FindingsCurrent`, `AnswersCurrent`, `AnsweredOnce`, `RefreshKept` and the inductive invariant `RefreshInv`; `RequestAnswered`, `RefreshCatchesUp` |
| `lsp_stale_findings` | 1 document, 1 plugin, 4 frames, no request | **violated**, see 6.3 |
| `transform_cache` | 2 callers, one asking for a module and the other for either of two, one imports the other; one caller watches, the other may prepare; 5 events in all | `AnswersFresh`, `CompiledOnce` and the inductive invariant `TransformInv` |

Bounds. Three processes are what the races about names need: a dead or finished holder,
a reclaimer that is suspended with its fence, and a successor; with four tasks one of
them can act again. Two generations are the retired one and its successor, which is all
these three properties relate; `lock_faults` adds a third, one to come (an action that
finds no unused generation is disabled, which only cuts behaviours off at the end).
Guards, faults and id reuse multiply the states, and every property they concern is
about a holder and one other process, so those runs have two processes. In the cache, a
build, a collector and a third call after a kill, which meets a record left behind, are
the cases the code distinguishes; record names are reused after they are gone, so three
names do not limit the number of retries. `MaxLapses` = 2 lets a holder die and a second
process be suspended with a verdict about its lock. In a watch session one edit meets
every stage of a cycle, a settle request and a shutdown, and the second sidecar is the
one an earlier failure may skip; more edits are left to the theorems. Three frames with
two background computations are a computation, the notification that overtakes it and a
further one that relies on the result; by hand, the safety properties of the proxy were
also checked with four frames (8.94 million states), two documents (2.63 million) and
two plugins (4.11 million). The transform cache has one budget of five events for calls,
edits, passes, resets, failing compiles, unobserved inputs and failing watchers: a
refuted unstable verdict takes two calls and three edits or passes, a shared drain three
calls and two edits; two callers are one that waits and one that replaces what it waits
for. The theorems below have no bounds.

Fairness. Nothing in the code of the caches blocks outside its polling loops, so a
running process keeps taking steps (`WF` on `Step`); a native command ends. A sweep
and a callback are loops over finite lists that the model does not count, hence `SF`
on `SweepDone` and `EndRun`. `SF` on `Expire`: a monotonic clock passes 600 s while a
build polls, although the build leaves the polling location again and again. `WF` on
`Age`: a record or lock nobody refreshes grows old. In a watch session the event loop
of the launcher and that of the worker serve every message and continuation they have
(`WF` on `LoopStep`, `WorkerStep`, `Notify`, `Decide`, a woken `Query`). In the proxy
`WF` on `Progress` says that goroutines run and that plugins and tsgo answer; between
two events they have finitely many steps. Kills, restarts, suspensions, operators,
clock changes, edits and notifications are never assumed to happen.

`compiled` in `CompiledOnce` counts captures since the last edit, reset, thrown compile,
failure outside a pass or of an earlier pass, and result that is for one use only
(volatile module, unobserved input); in all these cases the code means to compile
again.

Premises. What the code cannot promise is left in the models, and a history variable
says from when on: a property so conditioned speaks of every behaviour up to that
moment, and section 6 reports what happens after it.

* `timely` (`Exclusion`, `GuardedLeaseKept`): the coordination judges mtimes, so it
  needs heartbeats that are not late by a grace period, a premise
  `withGoBuildCacheLease` documents, and a clock that does not step back during a scan,
  one it does not (6.10).
* `lapses` and `unread` (`OneCompile`, `NoDuplicateCompile`): nobody is killed or
  suspended, and a worker whose read under the lock was refused compiles for itself, as
  `claimSharedCompile.ts:58-59` says.
* `overlapped` and `missed` (`WarmProgramsFollow`, `SettledHonest`; of `ShutdownJoins`
  only that no cycle is left): both happen (6.7, `watch_lost`).
  `ShutdownEnds`, `SettleEnds` and `EditAnswered` hold whatever happens.

`RefreshCatchesUp` assumes that the buffers are clean for good at some point and that no
plugin failed to answer. `AnswersCurrent` speaks of the documents that were clean when
the request arrived (6.6).

## 4. Proofs

`PluginBuildLockProofs` proves, for all sets of processes, hosts and generations and
all values of the flags and bounds:

* `LockInvariant`: `Spec => []LockInv`
* `TypeCorrect`, `LeaseExclusion`, `HonestTombstones`, `ReservedFences`: the
  invariants `TypeOK`, `LeaseIsCurrent`, `TombstonesHonest`, `FencesReserved`
* `KeyInvariant`: `Spec => []KeyInv`, where `KeyInv` is `LockInv`, `NativeInv` and
  `ReaderInv`
* `NativeHoldsKey`, `CompletionHonest`, `ReadersSafe`: the invariants
  `NativeKeepsKey`, `CompletionCertified`, `ReadersKeepBinary`
* `KeyImplemented`: `Spec => ImplementsKey`, the refinement of section 5.

None of the invariants is inductive by itself. Types need to know that a payload has a lease
(`LocalsSet`). Mutual exclusion needs the chain of reasons the code's comments give:
a process that concludes "abandoned" has first recorded itself in the generation it
judges (`FenceObserved`), has judged that generation's own owner (`OwnerRead`), and
that owner holds no lease (`FenceDead`), also after its id is reused, because a
later program does not inherit the lease; its rename can only retire another
generation if its tombstone name is free, and the sweep does not free a name with a
running observer (`UnlinkUnused`). `Drawn`, `OnePlace`, `LeaseOwned` and
`DownIsIdle` tie names, owners and processes together. Steps that touch neither the
lock tree nor a lease are handled once (`QuietStep`); every other action has a lemma
of its own.

`NativeInv` and `ReaderInv` are inductive only next to `LockInv`. A scoped child runs
under a guard (`NativeGuarded`), and whoever retires a generation has seen no guard of
it, so the generation it retires is childless; an unscoped build has no guard, and is
childless at its release because it waits for its command (`Childless`). The holder
that has just released remembers a childless generation of its own (`Finishing`), and
that is all it may certify. For readers, exclusion does the work: the step that writes
a token and the step that removes the entry are both taken under a lease, so they are
steps of one process (`OnePayload`), and a collector that has found no token
(`RemovalUnread`) finds none until it is done. A sweep of dead readers takes no token
of a running one, also under a reused id, because a reservation dies with its process
(`ReadersRegistered`).

`GoBuildCacheProofs` proves, whatever is suspended, killed or left behind:

* `CacheTypes`, `ScopedChildrenGuarded`: `TypeOK` and `GuardInv` (a scoped Go command
  that runs has a guard on disk, before and after the end of its task)
* `CacheNoPruneUnderChild`: the action property `NoPruneUnderChild`, because
  `isProtected` is asked again after the scan

* `CacheInvariant`: `Spec => []CacheInv`
* `CacheExclusion`, `CacheGuardedLeaseKept`: the invariants `Exclusion`,
  `GuardedLeaseKept`, which are about the time while `timely` holds.

The first half of `CacheInv`, `GuardInv`, holds always; the second, `InTime`, while
`timely`, and `TimeStep` shows that a step can only end `timely`, never restore it.
`InTime` says that nobody judges by a time from before a step back, and then has two
cores. For `Exclusion` it is `OneMeets`: of a build and a collector that have both
listed the other side, at least one has found a live record or still has the other's
record to inspect. Whoever lists second finds the first one's record, because it was
published before (`RecordsOwn`) and cannot be taken for an old one by anybody, whenever
they sampled the time (`RecordsCount`). For the leases it is `GuardsKeep`: a scan that
has a guarded lease left to inspect has the guard in the snapshot it took first, or
sampled the time while the lease was fresh.

`SharedCompileProofs` proves, for all sets of claims, rejections and reused ids:

* `SharedTypes`, `SharedInvariant`, `SharedPartialsKept`: `TypeOK`, `SharedInv`,
  `PartialsKept`
* `SharedOneCompile`, `SharedNoDuplicate`: the invariants `OneCompile` and
  `NoDuplicateCompile`, which say what they say while no process has been killed or
  suspended and no removal refused (`lapses = 0`); the second excepts the claims in
  `unread`, whose read under the lock was refused.

`OneHolder` alone is not inductive: every call goes through a path, so the proof
follows the lock from the `mkdir` that made it to the `rmdir` that removes it
(`Holds`), with what its owner file says at each step (`HeldBy`), and
shows that nobody gets far enough to take it for abandoned (`NoneAbandoned`).

`TransformCacheProofs` proves, for all sets of requests, modules, inputs and texts
and all bounds:

* `TransformTypes`, `TransformInvariant`, `TransformCompiledOnce`: `TypeOK`,
  `TransformInv`, `CompiledOnce`
* `TransformAnswersFresh`: the action property `AnswersFresh`.

At the moment of an answer the disk may be newer than the request, so freshness is not
visible in the state; it has to be promised. `Promised` says what a request may rely on
at each await: its own capture reads after it arrived, the drain it awaits was issued no
earlier than what the request `Reaches`, and after the drain what the trackers have not
heard of is as new as that. A request that joins somebody else's drain reaches back to
the start of it, and `AnswersFresh` claims no more for it (6.9). `Observed` is what
makes the last promise true of the trackers, `Dated` and `Passing` do the same for
passes, and everything is said of a generation only until its host withdraws it.
`CompiledOnce` rests on `Current`: until there is a reason, what is cached is, or will
be, what is on disk.

`WatchSessionProofs` proves, for any number of entries and edits:

* `WatchSessionSound`, `WatchTypes`: `SessionInv` and `TypeOK`
* `WatchShutdownJoins`: `Spec => []ShutdownJoins`
* `WatchProgramsFollow`: `Spec => []WarmProgramsFollow`.

Nothing is assumed of the code: overlapping cycles, failing queries and a dying worker
are steps like others. The histories `overlapped` and `missed` only grow
(`HistoryGrows`), so an invariant conditioned on them is inductive as soon as the steps
that do not raise them keep it. `SessionInv` is the bookkeeping of the launcher and
holds always: the worker's exit is its last word (`LastWord`), a close is only asked for
by a closed session (`Closing`), a session without a selection has no Programs
(`Disposed`). Until cycles overlap, `Serial` adds that the running cycle is the active
one, so that shutdown joins all there is to join. For `WarmProgramsFollow` one has to
know that reports arrive in order and tell of nothing that was not on disk (`Told`: a
check that reads the disk has read everything that was reported), that a cycle has one
request under way at a time (`Lone`), and that a reload is obeyed before a publication is
asked for (`Obeyed`). The one way left for a cycle to end with the change it took and
leave warm Programs behind is a failure ahead of the buffering, which is what raises
`missed`.

`WatchSettleProofs` adds:

* `WatchVouching`: `Spec => []WatchInv`, which is `SessionInv`, `Serial` until cycles
  overlap, and `HonestInv` until a change is missed as well
* `WatchSettledHonest`: the action property `SettledHonest`.

What a receipt promises is decided in the worker, before the launcher has heard of it.
`Known` follows a version from the worker's baseline to the launcher: it has been heard,
a report of it is ahead of the answer that vouches for it, or a cycle that has begun
since has reached it. The last case is the first cycle, which has read the disk after the
first refresh stamped it without a report. That is sound only because no settle query is
answered ahead of the first refresh (`StartFirst`), and the answer under way speaks of
the baselines it was given only because a query is alone (`LoneQuery`). `Scheduled` leads
from what was heard to a cycle: it is noted and a timeout or a rerun is pending, or a
cycle has started since. A step may add messages behind those under way (`KnownGrows`) or
deliver the first (`KnownShifts`), and no step of a cycle loses what it has reached
(`KeepingCycle`).

`LspProxyProofs` proves, for all sets of documents, plugins and requests and all
bounds:

* `ProxyTypes`, `ProxyAnswersOnce`: the invariants `TypeOK`, `AnsweredOnce`
* `ProxyFindingsCurrent`, `ProxyAnswersCurrent`: the action properties
  `FindingsCurrent`, `AnswersCurrent`.

The inductive invariant is `ProxyInv`. The action properties need to know, of a
computation that is still running, that its result is right as long as its
generation is the latest: `JobsGood` for findings, `RequestsHonest` for answers.
Both rest on `CleanIsProgram` (a clean document is the file the warm Program read)
and on `DocMoves`: a step gives a document another text, or makes a clean one dirty,
only under a new generation. `MovesKeepJobs` and `MovesKeepRequests` turn that into
the preservation of both parts for every action that moves a document, so that each
action only shows how it moves documents, jobs or requests.

`LspRefreshProofs` adds, for the same instances:

* `ProxyRefreshInvariant`: `Spec => []RefreshInv`
* `ProxyRefreshKept`: the invariant `RefreshKept`.

Crossing an input off the pending refresh is sound only if nobody can still overwrite
the display with an older snapshot. `Fresh` therefore speaks of what is stored, what is
displayed, and of every snapshot that `writeProjectDiagnosticsIfCurrent` could still
accept; `Numbered` says that project generations are handed out once each, and
`JobCurrent` and `TaskCurrent` that a publisher whose generation is not older than the
pending refresh has the present inputs of what it strikes off.

Assumptions are the named `ASSUME`s of the modules: sentinels differ from real
values, flags are Booleans, bounds are naturals, and a transform cache has a module to
transform. Every invariant that is proved inductive is an invariant of a run or implied
by one: `KeyInv` (which contains `LockInv`), `CacheInv`, `SharedInv`, `TransformInv`,
`ProxyInv`, `RefreshInv`, `WatchInv` (which contains `SessionInv`, `Serial`, `Told`,
`Following` and `Honest`), so that TLC and the provers speak of the same formula.

Every invariant, action property and refinement the passing runs check has a theorem.
Only model-checked are the liveness properties, which are out of the prover's reach:
`TaskEnds`, `DeadHolderReclaimed`, `BuildAdmitted`, `ClaimEnds`, `ShutdownEnds`,
`SettleEnds`, `EditAnswered`, `RequestAnswered`, `RefreshCatchesUp`.

## 5. Refinement

`PluginBuildLock` implements `PluginKey` under the mapping `Holder` (the process whose
lease is at `current`; a generation without such a process is Dead), `binary`, and
the running processes whose process-local map and token agree. It says in one formula
that acquisition is exclusive, that only a Dead key is ever broken, that publication,
registration and eviction happen under the key, and that eviction finds no readers.

TLC checks it on the instance of `lock_faults`; `KeyImplemented` proves it for every
instance. Seven actions are visible: drawing a generation is `Take`, a release `Drop`, a
fence `Break`, and publication, registration, removal and a crash are the abstract
steps of those names; everything else stutters (`OthersStutter`). `Break` is where
`FenceDead` is needed, `Evict` where `RemovalUnread` is.

## 6. Where code and stated behaviour differ

Items 2 and 3 have a run. The others are behaviours of the models that no run
shows; the property named with each one states what the code documents, and putting
it into a configuration with the instance given reproduces the behaviour.

1. `LeftGenerationReclaimed` (the instance of `dead_holder`).
   `waitForPluginBinary.ts:55` reports "published" before it
   looks at the lock. If a holder dies between publication and release, or exits
   after a release that failed, builds of that key without a reader token loop
   between "published" and a refused acquisition until the 600 s budget ends them;
   nobody inspects the lock, so nobody reclaims it, although the architecture notes
   say the generation "is reclaimed as abandoned once its owner exits". Only a prune
   pass that picks the entry as a candidate frees it.
2. `watch_lost`. `runOnce` takes the pending change (`runTtsc.ts:690`) before the
   cycle. A warm cycle that fails in `ResidentCheckWatchSession.ts:335-350`, at its
   project-inputs query or a publication, has not buffered that change yet, and keeps
   its sidecars. Later cycles send only newer paths, and a sidecar reloads only the
   paths it is sent, so its Program keeps the old file until that file changes again
   or the session is reset. The property is `ProgramsFollow`; `WarmProgramsFollow` is
   the same until `missed`.
3. `lsp_stale_findings`. `prepareMergedPluginDiagnostics` fills the cache of plugin
   findings before the editor is told, and `didChange` clears the display only when
   the cache is not empty. After a save without findings whose frame is overtaken by
   a `didChange`, or a close and a dirty reopen, old findings stay on a dirty buffer.
4. `QuarantineJustified` (two processes, one scoped, no faults, no kills).
   `SourceNativeRetirement.ts:1000` creates a guard under its final name and then
   writes it; `readGuards` lists and then reads. A waiter that looks in either window
   sees a malformed guard and throws as quarantined, where `acquirePluginBuildLock`
   documents that pending guards let waiters continue. `SiblingsIndependent` of
   `GoBuildCache` is the same window seen from the Go cache: `finish`
   (`GoBuildCacheCoordination.ts:217`) runs in a `finally` and throws when a guard of
   an unrelated build cannot be read, which fails a build that succeeded, or escapes
   the collector's catch.
5. `ReplacementObserved` (three processes, no guards, no faults, no kills).
   `inspectPluginBuildLock.ts:74-81` reads the generation and, when there is none,
   asks whether the directory exists. A peer that acquires the released key in
   between makes the inspection throw "has no valid generation" and the build fail,
   where the module documents a "released handoff".
6. Answers of the proxy. A command that started while a document outside its
   arguments was dirty may return an edit of that document's old file: `didSave`
   makes it clean without moving its `documentGeneration`. `protocol.mdx:292` says
   the proxy "returns JSON `null` if a dirty, saved, or closed document changed
   before the sidecar returned an edit for it". And a `$/cancelRequest` that arrives
   while plugins augment an answer tsgo has already given drops that answer, although
   the request was answered upstream.
7. `SerialCycles` (one sidecar, one edit, no failures). An input event the worker posts
   before its first reply arms the debounce timer; `startRun` sets the variable to null
   without clearing the timeout (`runTtsc.ts:961`), so the timeout starts a second
   cycle during the first one, where `ResidentCheckWatchSession.ts:67` says that
   "callers must not run overlapping cycles". `watch_session` contains these
   behaviours.
8. `SupersededSilent` (three claims, none rejecting, no faults). A reclaimer whose
   verdict is late moves the lock of a running holder aside; before it puts it back
   a third worker locks the free path, publishes and releases. The put-back gives the
   path to the first holder again, which passes its ownership check and overwrites
   its successor's publication, where `claimSharedCompile.ts:342-346` says that a
   holder that lost the lock "no longer speaks for the store".
9. `DrainCoversRequest` (the instance of `transform_cache`).
   `settleMutationTrackers.ts:64` joins a drain that is under way  (`tracker.settle
   ??=`), and says that `finally` clears it "so later events require a new drain". A
   persistent delivery that arrives after an edit and joins a drain issued before it is
   proven by an answer that need not cover that edit, and is then served the older
   output of a dependency. `AnswersFresh` claims for such a delivery what the start of
   its drain allows.
10. `NeverUnderLiveGo` (two processes, none scoped, two records, no faults, kills or
   suspension). A collector samples the time (`pruneGoBuildCacheRoot.ts:46`) before
   its intent is visible. If the clock then steps back by more than the grace period, a
   build that lists no intent publishes a lease that is old to that sample; the collector
   removes it (`GoBuildCacheCoordination.ts:498`) and deletes objects while the build
   runs, where lines 566-571 say of such clocks "never to delete under a possibly live
   Go". A scoped Go command is still protected by its guard (`NoPruneUnderChild`).

## 7. Not modelled, and next

Not modelled:

* the eviction policies (`prunePluginCacheEntries`, `pruneGoBuildCacheEntries`): pure
  selections over ages and sizes, which the models above replace by a choice;
* the dependency build lock and the runtime directory lock behind
  `withRuntimeDirectoryLock`: an older lock with the shape of the v2 build lock;
* the boundaries of `SourceNativeRetirement` with several resources, the asynchronous
  owner and the relay of `OwnedSynchronousProcess`: present as the three outcomes
  joined, failed and lost of one command;
* of the proxy: completion, inlay hints, initialization, registration of project
  inputs and the end of the session;
* the restart flag of the VS Code extension: one Boolean around the language client,
  whose races are inside that client;
* compiler driver, lint rules and transform plugins (pure functions of syntax trees),
  graph server, playground, Metro and factory packages (no shared protocol).

Next: abstract specifications of the Go build cache (shared builds, one exclusive
collector) and of the shared compile (one publication per store), with the step lemmas
of their refinements, and theorems about single actions that the invariants above
already imply, such as which steps may remove a guard or a partial write.
