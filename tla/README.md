# Formal models of Onward

TLA+ models of the concurrent core of Onward (an Electron desktop program that
runs many coding-agent terminals side by side), checked with TLC on small
instances and, for eight components, proved with TLAPS for every value of the
constants. Paths below are relative to `src/`; `main/` stands for
`electron/main/`. `PROJECT.json` ties every definition to the lines it
translates, every property to a mutation of the code that breaks it, and every
hazard to the properties that would catch it.

## 1. The system

Onward is one Electron main process, a set of worker threads, and a React
renderer. Every process is a JavaScript event loop: a callback runs to its first
`await` without interruption, and everything else may happen while it waits.
That is where the hard behaviour is: almost every hazard listed in
`PROJECT.json` is state read before an `await` and used after it.

| Component | Source | State it keeps | Operations | Model |
|---|---|---|---|---|
| Main work scheduler | `main/main-work-scheduler.ts` | queue with lanes, in-flight counts, dedupe map, drain latch | `enqueue`, `cancelOwner`, drain, timeout, completion | `MainWorkScheduler`, `WorkPool` |
| Mirror worker, watcher supervisor | `main/git-state-mirror-worker-entry.ts`, `-core.ts` | entry per directory, group per repository, native subscription, restart/poll/probe timers | attach, detach, fault, restart, probe, reattach | `MirrorWatcher` |
| Mirror worker, recompute loop | the same, with `main/git-state-mirror-recompute-governor.ts` | recompute in flight, queue of one, debounce, retry timer, governor's budget, router's snapshot | attach, file event, heartbeat, poll, refresh, revalidate, emit | `MirrorRecompute` |
| Reconcile heartbeat | `main/git-reconcile-scheduler.ts` and its host in the worker | age, duration and in-flight mark of each repository | tick, start, done, focus, membership | `GitReconcileScheduler` |
| Background fetch | `main/git-autofetch-scheduler.ts`, `-manager.ts` | back-off streak, age, priority grants, fetch count | tick, focus, click, settle, show/hide, dispose | `GitAutofetch` |
| Diff content cache | `main/git-diff-content-cache*.ts`, worker client | buckets of file bodies, byte counts, generations, stat tokens | read, validate, store, sweep, evict, wipe | `DiffContentCache` |
| Scheduled prompts | `src/hooks/useScheduleEngine.ts`, `src/utils/schedule.ts`, handlers in `App.tsx`, `AppStateContext.tsx`, `PromptNotebook.tsx` | schedules as React state, one timer, ticks awaiting sends, notices | tick, send, pause, resume, confirm, delete, close, retry, save, relaunch | `ScheduleEngine` |
| Mirror router, terminal bridge, renderer hook | `main/git-state-mirror-router.ts`, `main/terminal-git-info-bridge.ts`, `src/hooks/useGitStateMirror.ts` | subscription counts, holders per renderer, latest snapshots, worker and its crashes, focus | subscribe, unsubscribe, probe, reload, respawn, focus | `MirrorRouter` |
| Diff list | `src/components/GitDiffViewer/GitDiffViewer.tsx`, `main/git-runtime-manager.ts`, `main/git-ipc-worker-client.ts`, `main/git-diff-request-cache.ts`, `main/git-repo-prewarm.ts`, `getSingleRepoDiff` in `main/git-utils.ts` | the viewer's load and its queue of one, lanes and dedupe keys, pending requests, two caches | open, load, notice, watchdog, warm, invalidate, timeout, exit | `DiffListCache` |
| Update service | `main/update-service.ts`, `main/update-download.ts` | status, pending update on disk, partial file, timers | start, recover, check, download, verify, restart, quit | `UpdateService` |
| Precompute, cat-file batch, history and snapshot caches | `main/git-diff-precompute-scheduler.ts`, `main/git-cat-file-batch.ts`, ... | bursts with generations, one serialized process | schedule, cancel, reply | planned |
| Terminals, storage, watchdogs, quit, telemetry | `main/pty-manager.ts`, `main/app-state-storage.ts`, ... | process tables, files on disk, samples | see `PROJECT.json` | planned or left out |

How they interact. Terminals report their directory to the **router**, which
counts subscriptions and tells the **mirror worker** which directories to attach.
The worker groups directories of one repository under one native watcher; a file
event, the **reconcile heartbeat** or a request of the user starts a
**recompute** (a `git status`), admitted by the **governor**, whose snapshot is
posted back to the router and fanned out. The router's set of repositories drives
the **background fetch**. The diff viewer loads its **list** from a
Git worker thread through the runtime manager, and bodies through the **content
cache**; a new snapshot at the router invalidates the list, tells the viewer and
makes a warm due. File-system, SQLite and app-state
requests go through the **main work scheduler**. In the renderer the **schedule
engine** sends prompts to terminals on a clock.

What must hold, by component:

- *Work scheduler*: the counters that admit a task equal the runs under way, whatever times out, is cancelled or ends late; one dedupe key never runs twice at once; no runnable task sleeps; every caller is answered.
- *Watcher supervisor*: no native subscription is orphaned; a subscribed directory is a member of its repository's current group; a group without a subscription always has a recovery under way; what the user sees as "healthy" is. Two overlaps break this in the code (section 6), and what they break must stay with the directories and groups they met.
- *Recompute loop*: no trigger is lost by being queued, deferred or debounced; the router's snapshot never goes back and ends up current (except where a user-driven recompute opened the watcher: section 6); background work keeps to its budget.
- *Heartbeat*: each repository is re-read within its bound; a system sleep is not a slow `git status`; no in-flight mark is left behind.
- *Fetch*: the cap holds, no slot leaks, no slot idles beside work, no repository starves; a hidden window pauses the loop (except at launch: section 6).
- *Content cache*: no entry's token is newer than its body and nothing from before a wipe returns (except through a request joined late: section 6); the ledgers of bytes and projects are exact.
- *Router*: a directory that somebody holds is never released, counts are the sum of what is held, after a crash the worker watches what is held, the focus is never on a directory that was not meant.
- *Diff list*: a forced load never gets an older list than it asked for; a viewer that was told of a change does not come to rest on a list from before it.
- *Updates*: what is offered is whole, verified and newer; what is installed is one build; no bad file stops later updates.
- *Schedules*: the timer never oversleeps; nothing stays due for ever; a recurring schedule keeps its grid; what was deleted stays deleted; a maximum number of executions is kept (it is not: see section 6).

## 2. Modules

All modules are plain state machines: constants with named assumptions, one
action per handler or per stretch of a handler between two awaits, a type
invariant, properties at the end. Definitions whose name has an underscore and a
suffix (`CompleteTask_NoDrain`) are mutations of the code used to show that a
property can fail; no specification uses them.

**WorkPool** is the abstract specification: submissions are waiting, then
active, then gone; at most `Capacity` are active; two with one key are never alive
together. It says nothing of lanes, timers or drains.

**MainWorkScheduler** models `enqueue` (`Join` on a dedupe hit, `Push` on a
miss), `cancelOwner`, the `setImmediate` of `scheduleDrain` (`DrainBegin`), the
while loop of `drainQueue` (`StartTask`* then `DrainEnd`, with `looping` keeping
every other callback out), the timeout of `startTask` (`TimeOut`), the settling of
a run (`RunSettles`) and its `finally` (`CompleteTask`). Between a settle and its
`finally` only other promise reactions may run (`Macrotask`). `PoolSpec` maps it
to `WorkPool`: `waiting` is the queue, `active` the tasks whose slot is taken.
Latency metrics are left out.

**MirrorWatcher** keeps entries, groups and subscriptions as objects with
identities, because handlers hold references to them after the maps have moved
on; a suspended handler is a record in `ops` naming what it awaits and the objects
it holds. Each `...Resumes` action re-checks what the code re-checks
(`isWatcherGroupCurrent`, `detaching`) and nothing else. Nothing keeps an attach from
a detach that is awaited, nor a probe from the one before it, as nothing does in the
code. `Found` is a rev-parse: it may find no repository at any time, before `git init`
or when it is killed, fails or sits in its backoff, and the watcher is then skipped.
Three history variables, recorded at every step and read by no action, say which
directories attached or joined while a detach was awaited (`raced`), which groups were
joined then or probed twice at once (`spoilt`), and which group a subscription was
opened for (`opener`). The properties except the first two and nothing else.

**MirrorRecompute** is the refresh loop of one or two directories. A repository
is its version, a snapshot the version `git status` saw and the generation a
refresh bumped. `QueueOrStart`/`Run` are the two halves of `runRecompute` up to
the first await, `Sample` is the moment rev-parse and `git status` look at the tree,
either of which may fail, `Finish` the continuation, `TailResumes` the emit that waits
for a reattach. The governor is `running`, `yield`, `floor` and `Deferred`. The history
variable `reattached` holds the directories whose watcher such a recompute opened.

**GitReconcileScheduler** is the scheduler class and its host together, with the
clock in ticks of the worker's interval. `Sleep` moves the wall clock under
running measurements, the monotonic clock or not, as platforms differ.

**GitAutofetch** is the scheduler and the manager together: `RunTick` is
`syncRepos`, `tick` and the starts; `Settle` is `onFetchDone` and the counter;
`Start` shows that `start()` makes a new scheduler that was not told about the
window, which is hidden at every launch until it is ready to be shown.

**DiffContentCache** has `fetchFileContentWithCache` cut at its awaits (`Call`,
`Validate`, `StatMiss`, `Reply`), the worker's `Read`, the sweep (`SweepStart`,
`SweepStat`, `SweepEnd`) and the cache's own eviction in `Added`, `Overflow` and
`Surplus`. A request may join the one of another caller in its lane, as the
worker client's dedupe key makes it, before or after the worker has read the file. The
history variables `late` and `doubtful` are the calls that joined after it and the keys
such calls stored.

**ScheduleEngine** separates the latest React state (`sched`) from what the last
render showed (`seen`): the engine's refs and the user's buttons read the latter,
and `Render` moves it. A tick holds a copy of the due schedules (`tick`) and writes
it back after each awaited send. `turn` is the slot that runs without yielding. A second
click on the catch-up button starts a second send (`Retry`, one copy of the schedule for
each click in `retry`).
`Save` and `Relaunch` are the debounced save and a restart at any point.

**MirrorRouter** has the windows with their holds on directories, the terminals
with the probes they await, the router's counts per directory and renderer, and the
worker with what it was told to watch. `Subscribe` and `Unsubscribe` are the views of
a window; `drainRendererSubscriptions` and `Commit` are the two ends of a navigation,
between which the old page's views are still alive. `BridgeSubscribe`, `ProbeEnds` and
`BridgeUnsubscribe` move a terminal's one subscription with its shell, `notifyFocus`
the fast heartbeat. The inbox of the worker is a sequence, so a crash (`Exit`) loses
what was posted and `spawnWorker` posts what is counted again, or fails and leaves none;
`Handle` and `Join` are what the worker makes of it.

**DiffListCache** follows one list from the viewer to `git status` and back. A list
is the version of the repository that was read. A call of the main process waits in
its lane, is posted, and becomes one job per scope in the worker; a job hits an
entry, joins the load of its scope, shares the repository's read, reuses the
mirror's status, or reads. `Outdated` is the request cache's generation: a load
whose scope was invalidated in the meantime is given to its callers and not kept.
`Merge` is the viewer's queue of one, `LoadEnds` the `finally` of `loadDiff`.

**UpdateService** has the program, which may end between any two steps, the disk it
leaves behind (the manifest, the archive, the partial file with the builds its blocks
come from), the server, whose build may change under one version, and the network,
which fails and resumes. `recoverable` is the recovery at start; `Work` runs a check
to its end one await at a time.

Composition. `MainWorkScheduler` INSTANCEs `WorkPool`; the host and the algorithm
of the heartbeat and of the fetch are composed in one module each, since neither
class means anything without the timer that drives it; `MirrorRecompute` contains
the worker, the message channel and the router's cache. `MirrorWatcher` and
`MirrorRecompute` are separate views of one worker: each takes the other's part at
its boundary (a recompute is one step in the first, a subscription one awaited step
in the second).

## 3. Runs

Each MC module gives the constants of its component small values; the `.cfg`
names the property. Numbers are distinct states.

| Run | Instance | What it shows |
|---|---|---|
| `main_work` (51 k) | four submissions, two slots; two share a dedupe key, two a concurrency key with different limits; two can time out | exact counters and dedupe map, no lost wake-up, every caller answered, implements `WorkPool` |
| `mirror_watcher` (1.13 M) | two directories of one repository, which any rev-parse may fail to find; up to three attaches and rechecks and two faults, four of them together; two probes at once | no orphan subscription, membership follows subscription, recovery always under way and successful, health honest; overlaps of an attach with a detach, or of two probes, harm only what they met |
| `mirror_recompute` (197 k) | one directory, a repository from the start or not; two changes, refreshes, foreground diffs or failing git calls in all, missed events, heartbeats | no refresh lost, snapshots never go back, the router ends up current, unless a user-driven recompute opened the watcher |
| `mirror_recompute_budget` (2.63 M, up to symmetry) | two directories, each a repository from the start or not; budget of one, one change, refresh or foreground diff | nothing is lost by deferral or by a subscription that comes late: the worker's own snapshot is current when all is quiet |
| `mirror_router` (1.50 M, up to symmetry) | one window, two terminals, two directories, two holds, one probe at a time, two crashes, a worker that cannot be made | counts exact, nothing released early, watches follow the counts, no wrong focus |
| `reconcile_heartbeat` (209 k) | one repository, two overlapping runs, one sleep, intervals of the code in ticks of 500 ms | bound kept, sleep not taken for slowness, no starvation |
| `autofetch` (856 k) | two repositories, one slot, one click, a window hidden at launch | cap, honest in-flight marks, no slot idle beside work, no starvation |
| `content_cache` (2.30 M, up to symmetry) | three files in two projects, two callers of one lane that join each other early or late, one sweep at a time, all three limits reachable | tokens honest, no stale body vouched for, wipes hold, but for late joins; ledgers exact |
| `diff_list` (2.44 M) | one repository with submodules, one change, three calls, one opening, one watchdog, timeout or exit | a forced load is fresh, a viewer rests on no list older than what it was told |
| `schedule_engine` (366 k) | a one-time and a recurring prompt, two overlapping ticks, one action of the user, two clicks to catch up, one restart, renders that lag | timer in time, nothing due for ever, grid kept, deletions hold |
| `update_service` (548 k) | two versions of two builds, two blocks, two attempts, six changes, three faults, three exits, both channels | what is offered is whole and newer, one build is installed, later updates are not stopped |
| `schedule_double_send` | the instance of `schedule_engine` with renders before the timer, no action, restart or lag | see section 6: a maximum the code does not keep |

Why the bounds are enough. Each instance is the smallest in which its hazards can
all meet: two directories for a shared group, two faults for a fault during
recovery, two repositories for one slot, three limits each hit by some edit, two
overlapping ticks for the schedules, three attaches for a directory that joins while a
detach of it or its sibling is awaited. `MaxToggle`, `MaxFault`, `MaxBoth`, `MaxEntry`,
`MaxGroup`, `MaxSub`, `MaxPoke`, `MaxRuns`, `MaxSleep`, `MaxAwake`, `MaxSpawn`,
`MaxClicks`, `MaxActs`, `MaxBoots`, `MaxTime`, `LastVersion`, `MaxHold`, `MaxProbes`,
`MaxCrashes`, `MaxInbox`, `MaxChanges`, `MaxFaults`, `MaxExits`, `MaxOpens`,
`MaxCalls` and `MaxVersion` bound what the
environment may do, never what the code may do in answer; `Slot`, `Click`, `MaxProbe`
and `Sweeper` bound overlaps (`MaxInbox` too: it holds back a router that posts faster
than its worker reads); in `mirror_watcher` no entry, group or subscription is wanted
beyond `MaxEntry`, `MaxGroup` and `MaxSub`, which hold back nothing there; `SendCap` is where a
history counter stops. `MaxStreak` and `Never` are saturation points, beyond which the code behaves alike. For every
property a mutation of the code makes its run fail, so each interesting case is
reached.

Deadlock is not checked: every environment is bounded and may fall silent, and
a program whose user does nothing rightly stops. What a deadlock would mean here,
work that waits with nobody to wake it, is stated instead as `NoLostWakeup`,
`WatcherComesBack`, `QuietIsFresh`, `WorkConserving`, `WakesInTime` and `KeepsUp`.

## 4. Fairness

Fairness is given to what the event loop, a timer or the operating system
delivers, and never to what a user does.

- `MainWorkScheduler`: drains, starts and completions run; a run settles, because each is a request to a worker that has its own timeout. `TimeOut` has none: no caller depends on it.
- `MirrorWatcher`: timers fire, awaited calls settle, and the path of an unmounted repository comes back (without which no recovery could be asked for).
- `MirrorRecompute`: as above. The retry timer needs strong fairness: it fires again and again and meets a free budget again and again.
- `GitReconcileScheduler`, `GitAutofetch`: the interval keeps firing; each git process ends, at the latest by its timeout.
- `ScheduleEngine`: renders, due timers and sends. Strong, because each is disabled for moments by the microtasks of the others. A send settles: the main process writes to the terminal and answers without waiting for it.
- `UpdateService`: the interval of `checkNow` keeps firing and a check that runs goes on; the network need not work.
- `DiffContentCache`, `DiffListCache` and `MirrorRouter` have no liveness property and no fairness.

## 5. Proofs

`MainWorkScheduler_proofs` (440 obligations), `MirrorRecompute_proofs` (1321),
`MirrorWorker_proofs` (5640), `GitAutofetch_proofs` (672),
`MirrorRouter_proofs` (1930), `DiffCaches_proofs` (3498), `UpdateService_proofs`
(656) and `ScheduleEngine_proofs` (1176) hold for every set (finite, where the module
counts its members) of tasks, repositories, windows, terminals, directories or
prompts and every value of the constants allowed by the named assumptions. Each
module is laid out alike: facts about numbers and operators, what a step leaves
alone, one lemma per action, the theorems.

**Main work scheduler.** Assumptions: `TaskAssumption` (the tasks are a finite
set without `None`), `OptionsAssumption` (lanes are ranks, limits positive),
`MaxInflightAssumption`. The inductive invariant `IInv` strengthens the checked
properties:
`CountersExact` alone is not enough for `DedupeExact`, which needs that the map
holds a live task *under its own key* and that every live task with a key is the one
held (`DedupeInv`); single answers need that an armed timer belongs to an unsettled
promise of a started task (`TimerInv`); `NoLostWakeup` needs the exact counters,
because a slot counted as taken would hide runnable work. The step lemmas go by action
(`CountersStep`, `DedupeStep`, `WakeupStep`, `TimerStep`); `ShareAdd` and
`ShareRemove` say how a concurrency key's share moves when a task is added or
removed. Proved: `TypeCorrect`, `CountersAreExact`, `CapHolds`, `DedupeIsExact`,
`NoWakeupIsLost`, `AnsweredOnce` (an action property: a promise settles once, and only
a timeout answers before the run) and `ImplementsPool`: each step maps to a step of
`WorkPool` or stutters, where `DedupeExact` gives the guard of `Accept` and `Join` and
the exact counter gives the guard of `Begin`.

**Recompute loop.** Assumption: `ConstantsAssumption`. `QuietStateIsFresh` speaks of
a directory at rest; while it is not, `NotLost` says what will read it: an event or a
debounce to come, a queued rerun, a run that has read the present version or has
still to read, or, while nothing runs, a deferred retry. A retry that fires while
something runs is dropped, and `NotLost` shows why that is sound: what runs was
started after it. The router's side needs two more parts, each of a directory whose
watcher no recompute opened before it emitted (`Plain`): `LastTold` (the last snapshot
on the channel, or the router's own when none is, is the worker's) and `ToldInOrder`
(the snapshots held, sent, and being read never go back, where they show a
repository). `Counted` makes the governor's
count exact. Proved: `StateTheorem`, `RouterTheorem`, `ForwardTheorem` (an action
property). Of the other directories the last two are false (section 6), `StateTheorem` is
not.

**Reconcile heartbeat** (in `MirrorWorker_proofs`). Assumption: `ReconcileAssumption`.
`InFlightHonest` needs that what has left the scheduler left no mark (`Forgotten`), since a repository may return
while its old run is under way. `SleepIsNotSlow` needs that a run's two clocks differ
from the time awake by nothing or by a whole sleep (`ClocksJump`), which is what makes
the ceiling a test for one. Proved: `InFlightTheorem`, and `OnTimeTheorem` and
`NotSlowTheorem` (action properties).

**Watcher supervisor** (in the same module). Assumption: `WatchAssumption`.
No theorem restricts what overlaps. The properties speak of what is at rest, so the
invariants say what each object is in the middle of. `Roster` does for each directory
that is not in `raced`: it is absent, in a group, waiting for its attach, idle or
leaving, and each of these says which handler is under way and which maps hold it
(`Held`). A directory in `raced` may be anything, so the work
is to show that no step of it disturbs another: the group a detach deletes from the map
after its await has no member outside `raced`, because whoever joined it meanwhile is in
`raced`. `Watching` does the same for each group that is not in `spoilt`: it is resting,
attached, or has exactly one handler under way which its flags match (`Stage`), and no
detach will take it out of the map (`Serving`). What a group holds or opens, spoilt or
not, was opened for it (`Holds`), so a spoilt group can lose only its own subscriptions.
Most of the lemmas of an action are instances of two frames, a step of one directory
(`ActorStep`) and of one group (`OneGroupStep`).
Proved: `WatchTypeCorrect`, `HeartbeatIsComplete`, `ReleaseIsComplete`,
`RecheckIsWatched` (an action property), `NoOrphanTheorem`, `HealthTheorem`.

**Background fetch.** Assumption: `ConstantsAssumption` (finite repositories,
positive intervals). `CapKept` is not inductive: the loop reads a counter that
clicks, late ends and pruned repositories also move. `IInv` adds that the counter
equals the number of processes (`Counted`), that a repository's fetches are told
apart by their number (`Numbered`, so that growing older loses none) and the types
this needs. `ConservingTheorem` says that the loop of a tick gives up a candidate only
to a full cap. `TypeTheorem` adds that the queue lists what the scheduler tracks, each
once. `HiddenTheorem` says that once the scheduler has the window's state (`Told`), and so
from the first event of the window at the latest, no fetch of the loop starts behind a
hidden window: the *Hidden launch* of section 6 is the only way it fails.
Proved: `CapTheorem`, `InFlightTheorem`, `CountTheorem`, `TypeTheorem`,
`ConservingTheorem` and `HiddenTheorem` (action properties).

**Mirror router.** Assumptions: `RouterAssumption`, `FiniteAssumption`, `NoneIsNoCwd`,
`NoneIsNoTerminal`.
`NeverReleasedEarly` is not inductive: a release takes one from a count that stands
for many. `IInv` says whose each unit is: `SharesAddUp` (the count is the main
process's share and one for each subscribing window), `ViewsCounted` (a window that
does not navigate holds no more than is counted for it) and `TerminalsCounted` (the
main process's share covers the terminals). Lemmas say what `Retain`, `Release`,
`attachMirror` and `detachMirror` do to the tables, then one lemma per action.
A second invariant, `FollowInv`, is about the messages to the worker: the last one
about a directory says whether it is counted (`Follows`, which makes `WatchesFollow`
inductive over crashes), a focus on the way or in force is the focused terminal's
directory (`FocusHere`), and a worker that is gone left nothing (`Gone`).
Proved: `SharesTheorem`, `ReleaseTheorem` (which contains type correctness),
`WatchesTheorem`, `FocusTheorem`.

**Update service.** Assumption: `UpdateAssumption`. The offered update stays whole
because a download under way is of another version than it (`Busy`), because its
directory's manifest names the verified build (`Ready`), and because nothing runs
while the helper installs (`Helping`); `Waits` keeps the manual download from
starting over a verified one. Proved: `ReadyTheorem` (an invariant) and
`InstallTheorem` (an action property from the same invariant).

**Diff list.** Assumptions: `DiffListAssumption`, `ValuesAssumption`. `ForcedIsFresh`
speaks of answered calls; what makes it so is in the jobs: the job of a forced call
never joins or shares, and its list was read after the call was asked for (`Fits`),
while a forced call carries no mirror's status (`FencedCall`). `RestsFresh` speaks of
a viewer at rest; `Due` says of a viewer that loads that what it waits for or has
queued is forced and was asked for after the last notice. `Follows` collects what
every action keeps of the calls (they are added and answered, and never change what
they asked for), so that the viewer, the worker client and the worker are proved
apart. Proved: `TypeTheorem`, `ForcedTheorem`, `RestsTheorem`.

**Diff bodies** (in the same module, `DiffCaches_proofs`). `TokenTheorem`,
`WipeTheorem` and `ServeTheorem` need no assumption on the constants, and hold for any
callers and lanes. Each excepts what a late join did (*Joined body* in section 6): the
keys stored by a call that joined a request after the worker had read the file, and such
a call's own answer, or the hit of an entry it stored. Nothing else is stale. The
invariant follows a body from the disk to the cache: a call began at a version there was and, if it still is the project's,
after the last wipe (`Began`); the request it waits for is of its key, and once read
holds a body no older than the call or its token (`WaitsFor`); so what `Reply` stores
is honest and from after the wipe (`Kept`). Each part speaks of the calls that did not
join late. `Less` says that an eviction or a wipe only makes calls forget that they are current, which lets one lemma (`CallsLater`)
serve every invalidation. `LedgerTheorem` needs `ConstantsAssumption` and
`KeyAssumption` (the keys are finitely many, and there is one), and holds however calls
join. Its invariant `Ledger` says that each bucket's bytes are the sum of its entries
and that the touches and the queue list each thing once. What a sum over a set or a
filtered list is would be induction over data; here each fact is reached from a least
counterexample instead (`LeastNumber`, `SmallestSet`), which first shows that the
recursive function exists. The budgets need that what `Overflow` leaves is no more than
what there was at the turn of its first survivor, and that `Surplus` cuts a queue that
lists a project once. Proved: `TokenTheorem`, `WipeTheorem`, `ServeTheorem` (an
action property), `LedgerTheorem`.

**Schedules.** Assumptions: `ScheduleAssumption`, `NoneAssumption`. A property of the
schedules must hold of every copy of them, since each is written back whole: the
invariant says of the latest, the rendered and the saved list, of what a tick and each
click's retry hold over their awaits, that the recurring ones are on the grid (`Good`), and
that a copy made earlier stays good (`GoodLater`). `WakesInTime` needs that the timer,
when nothing is under way, was armed for the rendered list (`WakesInv`); the least
due time exists because the natural numbers are well-founded (`LeastTime`). Proved:
`WakesTheorem` (which contains type correctness), `GridTheorem` and `DeleteTheorem`
(an action property).

Only model-checked: all liveness (`EveryCallerAnswered`, `WatcherComesBack`,
`BecomesFresh`, `NeverStarves`, `NoStarvation`, `EveryDueRuns`, `KeepsUp`), which
depends on fairness and ENABLED. Every other property of the passing runs is a theorem.

## 6. Where the code and its words disagree

One run ends in a counterexample.

- `schedule_double_send`. Two prompts due together: the outcome of the first re-renders the schedules while the second is being sent, the effect re-arms the timer with no delay, and the second is sent again, although its maximum is one.

The others have no run of their own. The first five happen within the bounds of the
passing runs, whose properties except what they touch: TLC finds each when the exception
is taken out of the property. The rest are found with the constants given.

- *Detach race* (`mirror_watcher` without `raced`; `HeartbeatCovers`, `ReleasedWhenUnwanted`, `WatcherComesBack`). `detachEntryFromWatcherGroup` awaits the native unsubscribe between emptying a group and deleting it from the map. A directory that attaches or joins in between is deleted with it: subscribed and in no group, so without the "Always-on reconcile heartbeat" (`git-state-mirror-worker-entry.ts:941`); or unsubscribed again and not forgotten. A new group that the sibling makes meanwhile is deleted from the map too, and its live subscription is left behind (`NoOrphanSubscription` without the first half of `spoilt`, `GroupLate`).
- *Slow probe* (`mirror_watcher` without the second half of `spoilt`, `ProbesOverlap`; `NoOrphanSubscription`, `HealthIsHonest`). A probe that outlasts its interval overlaps the next. Both attach: one subscription is orphaned, against "every increment MUST have a paired decrement on EVERY dispose path" (`git-state-mirror-worker-entry.ts:169`), and the second shows an attached group as recovering.
- *Reattach order* (`mirror_recompute` without `reattached`; `QuietIsFresh`, `NeverBackwards`, `BecomesFresh`). A recompute that finds the directory has become a repository, or finds it again after a rev-parse that failed, awaits the reattach before it emits. The reattach reads the repository again and emits first; the older snapshot arrives last and no later heartbeat finds a difference to send.
- *Joined body* (`content_cache` without `late` and `doubtful`; `TokenHonest`, `WipeHolds`, `NoStaleServe`). The stat token must witness the file before the worker reads it. A second fetch in one lane takes its token, then joins a request that read the file earlier; the old body is stored under the new token and passes for fresh. After a wipe, it brings back a body from before it.
- *Hidden launch* (`autofetch`, with `[][StartsShown]_vars` of `GitAutofetch_proofs` as a property). The window is made with `show: false` (`index.ts:658`), and `start()` replaces the scheduler that was told so (`index.ts:1158`): at every launch a tick before the window's first event takes it for a visible one, against "hidden/minimized pauses it" (`index.ts:1147`).
- *Lost restore* (`UpdateService!RestoresDownloaded`; `Channels = {"daily"}`, `MaxVersion = 2`, `MaxBuild = 1`, `Blocks = 1`, `MaxAttempts = 2`, `MaxChanges = 4`, `MaxFaults = 1`, `MaxExits = 0`). When a download fails, the comment at `update-service.ts:1324` has the status of a verified older one restored; `checkNowInternal` returns the promise of `downloadUpdate` from within its `try` without awaiting it, so the `catch` that restores never sees the failure.
- *Kept for nobody* (`MirrorRouter!ReleasedWhenUnused`; one terminal, no window, one directory, `MaxProbes = 1`, `MaxCrashes = 0`, `MaxAttempts = 1`, `MaxHold = 1`, `MaxInbox = 2`). A terminal that goes while its directory is being probed is subscribed by the continuation. A view that subscribes in the old page after a navigation began leaks the same way (`git-state-mirror-router.ts:833`).
- *Focus not told* (`MirrorRouter!FocusFollows`, the same with `MaxProbes = 0`). The focus is posted before the worker has joined the directory and is not posted again; nor is it after a crash (`git-state-mirror-router.ts:413`).
- *Stale entry* (`DiffListCache!EntryIsCurrent`, the constants of `diff_list`). "EVENT-invalidated, not time-invalidated" (`git-utils.ts:451`) needs that no older list is stored after the event. A plain load may join or share one begun before it (`git-utils.ts:2065`), and a warm queued before a mirror update carries the older status past the invalidation, which is no fence ("without any correctness gain", `git-diff-warm-status-gate.ts:45`). The entry stays until the next event, a forced load or the 30 minutes of its time limit. A failed `git status` is kept as an empty list likewise (`git-utils.ts:2189`).

One comment is out of date: `git-utils.ts:457` counts on a "background
force-revalidate" when the viewer opens, which `GitDiffViewer.tsx:3906` says not to
send.

## 7. What the models leave out

- `MirrorWatcher`: the shutdown barrier, the `.gitignore` read before a subscribe, delays of restarts (any delay is possible), an error the callback reports before the subscribe call has resolved. A revalidation queued behind another is rerun as a watcher refresh and reattaches nothing; `RecheckWatches` speaks of the recompute that starts. What happens later to a directory in `raced` or a group in `spoilt` is in the model and in no property.
- `MirrorRecompute`: the fields of a snapshot and their delta; `removeRepo` on detach. Known and not stated as properties: a directory joining an existing group can miss an event between its first `git status` and its joining; the `failed` branch of the degraded poll cannot be reached, as failures are folded into the state.
- `GitReconcileScheduler`: the `hidden` visibility and the non-git task, which the host never passes; a focused directory attached for the first time stays at the slow interval until the focus moves.
- `GitAutofetch`: diagnostics and the autotest driver. Two clicks on a repository that is not tracked start two fetches. `NoStarvation` is shown for two repositories and one slot: with more repositories than slots times interval over tick, insertion order could starve the last one. A pruned repository forgets its cooldown; showing and hiding the window repeatedly halves the back-off repeatedly.
- `DiffContentCache`: `invalidateAll`, which nothing calls, the cap that turns a huge sweep into a wipe, the base side of an unstaged diff (the index changing without the working tree), and a staged fetch under way during a revalidation that evicts nothing. A hit whose stat fails is served on purpose.
- `MirrorRouter`: the delays of a respawn, requests for file bodies, the fan-out and merging of snapshots, disposal. A directory is its canonical path and a repository of its own.
- `UpdateService`: a check that overlaps a manual download, which only the button in the settings prevents (`Settings.tsx:234`), not the service (`update-service.ts:1204`, `1390`); the Windows helper's marker and lock and its overlap with a second program (`update-service.ts:1543`); the stable channel, which these lines treat as the daily one; the dismissal of the banner and debug routes. The manifest is saved in one step, an empty file is no file, and nobody starts the program before its helper has ended.
- `DiffListCache`: the time limits and eviction, the viewer's own cache of 800 ms, disposal, the fingerprint cache, submodules' own reads, other lanes and the global limit, the loads of the precompute scheduler, reloads the user asks for, known mutations of a whole project and the viewer's own patch of the list. A run opens the viewer once.
- `ScheduleEngine`: a dialog that changes start time, interval or type (`ScheduleConfigModal.tsx:162`), which are constants of a prompt here; the execution log, wording of notices and their dismissal; terminals and prompts are looked up as they are rather than as last rendered. A run missed while the program was closed is announced with a button to catch up although it is also sent. A send that never settles would hold its tick for ever.
- Components with status `not_modelled` in `PROJECT.json`: parsers and wrappers of git output, Electron views and menus, presentation, tracing, request handlers without state, vendored code; the others are planned below.

## 8. Plan

Done, in this order: `WorkPool` and `MainWorkScheduler`; `MirrorWatcher`;
`MirrorRecompute`; `GitReconcileScheduler`; `GitAutofetch`; `DiffContentCache`;
`ScheduleEngine`; `MirrorRouter` with its proofs; `UpdateService` with its proofs;
`DiffListCache` with its proofs; the proofs of `MirrorRecompute`,
`GitReconcileScheduler`, `ScheduleEngine`, `DiffContentCache` and `MirrorWatcher`.

Modules to come, most important first:

1. `GitRuntimeManager` with all the worker clients, as the second implementation of `WorkPool`: request ids, timeouts, exits, priorities between repositories.
2. `PrecomputeScheduler`: debounce, generations, cancellation (its hazards are listed already).
3. `MirrorTeardown`: shutdown barrier over pending native calls, with the quit floor.
4. `CatFileBatch`: one serialized process, respawned when the index moves; refines an atomic read.
5. The Windows install helper; `AppStateStorage` with the session ledger; the telemetry outbox: crash and restart between write and rename.
6. Terminal processes, output scheduling, the health models of the watchdogs.
7. `MirrorWorker`, the composition of `MirrorWatcher` and `MirrorRecompute` on one directory.

Each new module brings one passing run; runs of settled components are merged to
keep the set small (`mirror_recompute` with its budget run first).

Theorems to come: `WorkPool` implies its own cap and exclusivity, so that each implementation inherits them; the refinement of
`WorkPool` by `GitRuntimeManager`.
