# UltraIsolator in TLA+

UltraIsolator gives a running game the machine: it throttles background
processes, boosts the game, switches the Windows power plan, raises the timer
resolution and leaves priority hints in the registry, and takes all of it back
when the session is over. A Python backend does this work; an Electron program
launches it, watches it, shows its state and edits its configuration. What can
go wrong is the taking back, and the talking: pids that Windows reuses, calls
that fail, a crash in any step, threads still at work when shutdown begins,
answers that come late, processes that end while somebody waits for them. This
directory models these parts of the code, checks the models with TLC, and proves
the most important results about them with TLAPS.

## The system

| Component | Source | State | Operations | Talks to | Model |
|---|---|---|---|---|---|
| Engine lifecycle | `isolator/runtime.py`, `cli.py` | `_shutdown_done`, `_shutting_down`, `_active_mutations`, mutex, monitor thread, console handler | `run`, `shutdown`, monitor cycle, handler | the next four | `EngineLifecycle` |
| Process tuning | `isolator/tuning.py` | `_touched`, `_active_games`, `_boosted_critical`, entry generations | batch jail, foreground jail and boost, game boost, restore one / all | Windows; jail recovery | `ProcessTuning` |
| Jail recovery | `isolator/recovery.py` | `jail_state.json` | record, remove, recover at start | process tuning | `ProcessTuning` |
| Power plan | `isolator/ifeo_power.py`, `recovery.py` | three flags in memory, power part of the recovery file | capture, switch and verify, restore, recover | Windows; the user | `PowerScheme` |
| IFEO hints | `isolator/ifeo_power.py` | registry values, backup file | apply, fallback after a refused setter, restore | registry | a resource of `EngineLifecycle` |
| CPU topology | `isolator/topology.py` | core groups, partitions | refresh, select, apply | Windows | none |
| Discovery | `isolator/discovery.py` | scanned game names and paths | snapshot, classify | monitor | inputs of `ProcessTuning` |
| Protected files | `isolator/protected_state.py` | key and signature | atomic write, verified read | recovery, IFEO | none |
| Bridge | `server/bridge.py` | the engine, lifecycle lock | start, stop, recover | engine; HTTP | `BackendBridge` |
| Backend process, HTTP | `server/__main__.py`, `http_api.py` | heartbeat, server | dispatch, stop when the parent is gone | bridge; Electron | `BackendBridge`, `RequestPath` |
| Live notifications | `server/bridge.py`, `http_api.py`, `ui/src` (`useLiveSnapshot.js`, `NotificationCenter.jsx`) | remembered status, history, toasts already seen | compare and tell, append, toast | engine; page | `Notifications` |
| Live snapshots | `ui/electron-main.js`, `electron-preload.js`, `useLiveSnapshot.js` | stream request, reconnect timer, visibility | open, lose, reconnect, start, stop | backend; page | `LiveStream` |
| Supervisor | `ui/electron-main.js`, `backend-runtime.js` | child process, port, restart count, timer, window | launch, wait until ready, restart, retry, stop, quit | backend; renderer | `Supervisor` |
| Application settings | `ui/electron-main.js`, `backend-runtime.js`, `ui/src/state` | settings file, scheduled task, login item, queue of saves | load, optimistic update, roll back, save | Windows | `AppSettings` |
| Renderer requests, pages | `ui/src/utils/api.js`, `ui/src/pages`, two tables of operations | data and flags of each page | load, refresh, pause, order, navigate | main process | `RequestPath`, `PageRequests`, `Renderer` |
| Configuration | `ui/src` (`Settings.jsx`, `FirstRunWizard.jsx`), `server/config_store.py` | draft, wizard, `config.json`, its temporary file | edit, preset, review, apply, save, update | backend | `ConfigEditor`, `Renderer` |
| Packaging, integrity, launch | `ui/scripts`, `ui/backend-runtime.js`, `scripts/release-check.ps1` | manifest, packaged tree, installed copy | build, verify, install, check at launch | the file system | `Packaging` |
| Reports | `server/log_store.py`, `analysis.py`, `msi.py`, `readiness.py` | none of their own | read-only | bridge | none |

What is hard, by component:

* **Lifecycle.** Two threads can call `shutdown` (the thread of `run` and the
  console handler); the monitor thread may outlive the join; shutdown may begin
  before the start is over; a second instance may be started. It is correct when
  the restore runs once, waits for the mutations that are under way, lets no
  later one in, ends, and leaves nothing the session changed.
* **Process tuning.** Every entry, snapshot and record is about a process, but
  is found by pid. It is correct when a process only ever gets its own settings
  back, whoever had the pid before, and when every tuned process has an entry.
* **Jail recovery.** One file, rewritten as a whole by several callers, read
  once after a crash. It is correct when no record leaves it before its process
  is restored and when a start that goes through leaves nothing behind.
* **Power plan.** Record, switch, read back, fall back to another plan, restore,
  with the user free to choose another plan at any moment. It is correct when
  the record is there whenever the engine's plan is active.
* **IFEO.** Registry and backup change in two steps; the fallback runs inside a
  mutation.
* **Bridge and backend.** start, stop and recover come from different requests,
  a recovery without the lifecycle lock; the process may have to end while they
  are served; a refused start keeps the mutex. It is correct when one engine at
  a time is at work, when the engine that runs can be stopped, and when nothing
  is left after a stop or an exit.
* **Supervisor.** An exit of the backend races a start, a stop, a quit and the
  restart timer, all over the same few variables. It is correct when every live
  backend can be found, when it gives up after some restarts, and when quitting
  ends.
* **Live stream and notifications.** A destroyed request reports its end after
  the next one is open; stops and starts of the page overtake nothing but are
  doubled; several threads of the backend share one remembered status.
* **Settings.** Each change is shown before it is saved, saves and loads answer
  late, every call may fail, and two Windows mechanisms must not both be set.
* **Pages and configuration.** Nothing cancels a request, so answers come out of
  order and after a pause; updates of the file run side by side without a lock.
* **Packaging.** The sources change while a build runs, the build may stop
  anywhere, and the running backend writes into the tree that is verified.

`PROJECT.json` lists the hazards line by line with the properties that cover
them, and says of the others why nothing does.

## Modules

| Module | Content |
|---|---|
| `ShutdownContract` | abstract: what the mutation gate promises |
| `WriteAhead` | abstract: a change is on record before it is made and until it is undone |
| `ProcessTuning` | tuning, the jail record, monitor cycle, shutdown, crash, recovery |
| `PowerScheme` | the power plan, its record, the user, crash, recovery |
| `EngineLifecycle` | all threads of one engine process over five resources |
| `BackendBridge` | requests, the lifecycle lock, several engines in one backend process, its exit |
| `Supervisor` | launches, readiness waits, restarts, Retry, the window, quitting |
| `LiveStream` | the stream request, its reconnects, IPC in both directions, visibility |
| `Notifications` | stream threads over one remembered status, the page's history and toasts |
| `AppSettings` | the settings store of the page, main's handlers, file, task and login item |
| `RequestPath` | the two tables of operations, as operators |
| `PageRequests` | the parts that load reports and give orders; extends `RequestPath` |
| `ConfigEditor` | settings page, first-run wizard, the backend's config store |
| `Renderer` | composes `PageRequests` and `ConfigEditor` under navigation |
| `Packaging` | build chain, release check, installation, verification at each launch |
| `ProcessTuning_proofs`, `PowerScheme_proofs`, `BackendBridge_proofs`, `AppSettings_proofs`, `Notifications_proofs`, `Packaging_proofs` | theorems about the module named |
| `Lifecycles_proofs` | theorems about `EngineLifecycle` and `Supervisor` |
| `Dashboard_proofs` | theorems about `Renderer` (with its parts) and `LiveStream` |
| `MC...` | instances for TLC |

`ProcessTuning` and `EngineLifecycle` both implement `ShutdownContract`
(property `GateContract`, by an `INSTANCE` with a mapping). The contract has the
life of the engine process (`alive`): a gate that was closed is open again only
in a process that began after the end of the one that closed it. `PowerScheme`
implements `WriteAhead` (`RecordedAhead`).

### ProcessTuning

A process is `<<pid, n>>`, the n-th process with that pid. Its scheduling
attributes (priority class, CPU sets, EcoQoS, affinity) are one value: `n` for
the settings process n started with, or `Jailed`, or `Boosted`. So settings
written to the wrong process, or a snapshot taken of the engine's own tuning,
show in `Restorable` (its part `SettingsAreOwn`).

| Variable | Code |
|---|---|
| `born`, `live`, `attr` | Windows |
| `jailFile` | `jail_state.json` |
| `touched`, `gen` | `self._touched`, `self._entry_gen` |
| `active` | `self._active_mutations` |
| `games` | `self._active_games` |
| `mon` | the monitor thread: its place in the cycle and its locals |
| `rst` | the locals of `_restore_process`, one call per thread |
| `rec` | the locals of `_recover_jail_state_from_crash` |
| `engine` | the stage of the session |
| `excused` | history: processes given up because a call on them failed, or the engine died before they were recorded |

An action is what one thread does between two points where another thread can
see or change what it works on. `_restore_process` is thus a sequence: read the
entry (`RestoreRead`), open and compare creation times (`RestoreGone`,
`RestoreAttrs`, `RestoreAttrsFails`), drop the entry if its generation is still
the one read (`RestoreDrop`), read the jail file (`RemoveLoad`), write it
(`RemoveSave`). The same holds for the jail (`BatchJail`, `JailApply`,
`JailApplyFails`, `JailUndone`) and for its record (`RecordCapture`,
`RecordLoad`, `RecordSave`).

### PowerScheme

`active` is the plan Windows runs. `disk` is the power part of the recovery
file. `flags` are `_power_plan_active`, `_power_scheme_in_use` and
`_power_scheme_set_unverified`. The history variables say who set the plan
(`ours`), which plan is the user's (`home`), and whether the session gave up a
plan it could not restore (`lost`). `Set...` is `_set_preferred_power_scheme` in
steps, `Restore...` is `_restore_power_scheme` in steps, for the monitor thread
and for shutdown.

### EngineLifecycle

The five things the engine changes (`power`, `timer`, `ifeo`, `procs`,
`critical`) are single resources: `changed` on the machine, `logged` on disk,
`mine` in the memory of the session. `main` is the thread of `run`, `sd` the
shutdown that won the compare-and-set and the thread running it, `mon` the
monitor thread. `SecondStart` is another process that finds the mutex taken,
and its shutdown.

### BackendBridge

`server` is the backend process and the place of its main thread. `lifecycle` is
the holder of `_lifecycle_lock`, `ref` is `_engine`, and `call` says of each
thread which request it serves, where it is, and which engine its local variable
holds. Engines are objects: `stage` and `sd` are how far `run` and `shutdown` of
each one have come, `mutex` is the engine whose handle keeps the single-instance
mutex, `tuned` the engines whose changes are in place. `run` and `shutdown` are
coarse here, a few steps each; `EngineLifecycle` has them in detail, for one
engine. An object that nothing refers to and that needs no `atexit` any more may
be used again (`Free`), so a small set of engines stands for an unbounded
sequence of them.

`early` marks engines that `atexit` shuts down while a request thread is still
inside their `run`: what that start does afterwards is a known divergence
(`NormalEndIsRestored`, below), and the properties leave these engines out.

A monitor thread may end of an exception (`MonitorDies`; the first calls of its
loop are outside its `try`, `runtime.py:225`). Such an engine, `"dead"`, is not
running; a stop still shuts it down, but a start that finds it drops it as it is
(`bridge.py:431`). It is `"lost"` then, with the mutex and its changes, until
`atexit`: `StopRestores` excepts it, `ExitRestores` does not.

### Supervisor

Everything in the Electron main process runs on one event loop, so an action is
what happens between two awaits. `start` holds the activations of `bootstrap`
and of the restart timer's callback: where each one is (`port`, `preflight`,
`wait`, `engine`, `load`), which child it launched, and which address its wait
polls. Several may be in flight, because a readiness wait goes on polling after
its backend has died. `child` is each backend process, alive, killed but still
there, or dead with its exit event still to come; `handled` are those that have
an exit listener. The rest are the module variables of `electron-main.js`:
`ref` is `backendProcess`, `url` is `backendUrl`, `restarts`, `timer`, `failed`
(`backendStartupError`), `loading` and `page` for the window. `ExitEvent` is the
exit listener with the restart it schedules, `RestartDue` the timer,
`RetryBootstrap` the tray's Retry, and `QuitApplication`, `StopAnswered`,
`ChildGone`, `Exit` the way out.

`NoOrphan` is stated until the first Retry. With a Retry during a restart two
starts assign `backendProcess`, the second over the first; TLC shows the child
that nobody names any more. The two liveness properties hold with Retry too.

### LiveStream

`current`, `stopped` and `retry` are `liveStreamRequest`, `liveStreamStopped`
and the reconnect timer. `req` gives the state of each HTTP request; a request
that was destroyed may still report (`LateReport`), and its callback then works
on the variables of the one that has replaced it, as in the code. `toMain` and
`toPage` are the IPC channels, `visible` and `shown` what the page knows. A
start doubled by StrictMode is among the initial states. A request answered with
401 or 403 is told to the page as an error and not tried again (`Denied`,
`electron-main.js:945`): the stream is then neither stopped nor waiting for
anything, until the page asks for a start. `denied` remembers this, and
`NeverStranded` and `KeepsConnecting` except exactly this state.

### Notifications

`stream` gives each stream thread of the backend its place: `Polls` reads the
status, `Tells` writes the snapshot and compares it with `previous`
(`_notification_state`), `Writes` sends one event, `Waits` ends the turn. A
thread whose client has gone works on until a write fails, so an old snapshot can
be compared late. `history`, `seen` and `due` are the page's list,
`seenToastIds` and the effect that has yet to run.

A lost request goes on feeding the page when its place in `liveStreamRequest` is
taken (see `LiveStream`), so several streams can be read at a time, and what one
of them sends may be lost, when its chunks mix with another's in the one buffer.
Ids stay unique all the same (`ToldOnce`). Their order in the page's list does
not: two threads write as they please. `beside` remembers that the page has
heard two streams at a time, and `HistoryInOrder` speaks of the time before.

### AppSettings

`snapshot`, `committed` and `queue` are the fields of `AppSettingsStore`: what
the page shows, what main has confirmed, the updates not yet answered. `state`
is main's copy, `file` the settings file, `task` and `legacy` the two ways of
starting with Windows. Handlers of main contain no await, so each is one action
(`LoadHandled`, `SaveHandled`); their answers are delivered by actions of their
own. The answer of the load is taken, discarded for an update made since, or a
refusal (`load`); when it was not taken and no save has gone through
(`confirmed`), what a failed save rolls back to is the defaults, whatever the
file holds. `QuietIsStored` excepts that page and no other; it is a known
divergence (`FailedSaveRollsBack`). Each Windows command succeeds, fails, or
takes effect and reports failure. The program may end at any time (`Relaunch`).

### RequestPath, PageRequests, ConfigEditor, Renderer

`RequestPath` translates both tables, `operationForRequest` of the page and
`BACKEND_OPERATION_ALLOWLIST` with `validateOperationParams` of the main
process; `Arriving` is what the backend is asked in the end. `PageRequests`
mounts one part at a time and follows its requests (`sent`) through main and
back: `Handled`, `Taken`, `Fails`. `data` is the version a part shows and
`truth` the backend's. `ConfigEditor` has the settings page (`editor`), the
wizard, and one backend thread per update with the steps of
`ConfigStore.update`: check, open the temporary file, write it, replace. Whether
the wizard is open is the application setting `firstRunCompleted`, which the
settings store shows before it is saved and takes back when the save fails:
`CompleteFirstRun` closes the wizard and `Reset` opens it at once, `saves` are
the updates on their way, and `SettingsSettled` shows their outcome, which may
open or close the wizard with an update of the file under way (`undone`). The
composition `Renderer` navigates between the pages, with the wizard over all; its
specification is `WindowSpec`.

### Packaging

A file's content is a number; `manifest` gives the number listed for each name.
The scripts of `npm run build` are the steps `Clean`, `Manifest`,
`PreparePython`, `Package`, `Harden`, `VerifyPackaged`; the release check goes
on with `Checksums` and `VerifyInstalled`. `Install`, `Launch`, `Preflight` and
`BackendWrites` are the user's machine. `Edit`, `Stops` and `Accident` come
between any two of them.

## Runs

| Run | Properties | Distinct states |
|---|---|---|
| `tuning` | `Restorable`, `NamedGamesRunFree`, `GateContract` | 3.0 million |
| `tuning_faults` | `Restorable`, `RecordedBetweenCycles`, `RecoveryLeavesNothing`, `RecordOutlivesThrottle`, with a failing call | 4.0 million |
| `power` | `SwitchIsRecorded`, `PlanRestoredAfterSession`, `StartFindsOwnPlan`, `RecordedAhead` | 98 thousand |
| `lifecycle` | `RestoredWhenOver`, `GateContract`, `ShutdownTerminates`, `StopReturns` | 19 thousand |
| `bridge` | `OneAtWork`, `RunningIsKnown`, `StopRestores`, `ExitRestores`, `ParentGoneEnds` | 483 thousand |
| `supervisor` | `NoOrphan`, `QuitEnds`, `ComesToRest` | 156 thousand |
| `live_stream` | `NeverStranded`, `FollowsThePage`, `KeepsConnecting` | 56 thousand |
| `notifications` | `ToldOnce`, `HistoryInOrder`, `NewestHasToast`, `MemoryCatchesUp` | 860 thousand |
| `app_settings` | `PendingIsShown`, `QuietIsStored`, `OneAutostart` | 80 thousand |
| `renderer` | `BusyHasRequest`, `RequestsArrive`, `FileIsWhole`, `AppliedIsWritten`, `LogsConverge` | 733 thousand |
| `packaging` | `RefusedForCause`, `StartsWhatWasListed` | 1.5 million |
| `retry_works` | `RetryWorks`: violated | |

All but the last hold. `retry_works` checks the promise of a comment
(`electron-main.js:1241-1243`, "a working Retry"): a failed start loads the
diagnostic page and marks the window as loaded, and a Retry that succeeds never
loads the application; `findings` in `PROJECT.json` has the details.

`RestoredWhenOver` speaks of shutdowns that began after the start, and excepts the
power plan of a monitor thread that outlived the join (`runtime.py:339` asks no
gate); `StopRestores` and `ExitRestores` except a shutdown that another thread
has begun, `StopRestores` also an engine dropped after its monitor ended;
`FileIsWhole` and `AppliedIsWritten` hold until an update is given up or a failed
save opens or closes the wizard;
`RecordedBetweenCycles` of entries whose source is `"jail"`, `NamedGamesRunFree`
of games known by name, and `power` registers one preferred plan; the next
section has the cases left out by these conditions.

Each property of a passing run has a faulty variant of a definition in the
module, before the definition it varies (`(* Mutant: ... *)` or
`(* Faulty variant: ... *)`); with it in place TLC finds the property violated.

### Known divergences

While the models were written, more places were found where the code does not
do what a text of the repository says. Each is a definition and a configuration
that reproduces it: `tlc -config <cfg> <module>` ends with the counterexample.

| Definition | Reproduce | The text | What the code does |
|---|---|---|---|
| `ThrottledIsRecorded` | `MCThrottledUnrecorded.cfg`, `MCProcessTuning` | `docs/index.html:336-340` | a process boosted first and throttled later is never recorded |
| `RefusedStartKeepsRecords` | `MCRefusedStart.cfg`, `MCProcessTuning` | `isolator/recovery.py:372-377` | the shutdown after a refused start deletes the records kept for a retry |
| `GamesAreNotThrottled` | `MCPathGames.cfg`, `MCProcessTuning` | `isolator/tuning.py:1004-1005` | a game known by its path only is throttled |
| `SwitchIsRecorded` | `MCPowerUnrecorded.cfg`, `MCPowerScheme` | comment at `isolator/ifeo_power.py:543-548` | with two registered plans: an unverified switch, a user's change and another switch leave a plan without a record |
| `PowerIsRecorded` | `MCSecondStart.cfg`, `MCEngineLifecycle` | `isolator/cli.py:50` | a second instance deletes the records of the first |
| `NormalEndIsRestored` | `MCNormalEnd.cfg`, `MCEngineLifecycle` | `README.md:50` | a Ctrl+C during the start leaves what the start does afterwards |
| `RecoverIsPossible` | `MCRefusedRecover.cfg`, `MCBackendBridge` | `ui/src/locales/en.mjs:253` | after a refused start no recovery can take the mutex |
| `ExitIsConfirmed` | `MCExitConfirmed.cfg`, `MCProcessTuning` | `README.md:134`, "Confirm game exit before restoring the session" | with an exit pending, the time of the last exit is set to 0 and compared at once (`runtime.py:347-352`): the session is restored while the game may still be there |
| `FailedSaveRollsBack` | `MCRollback.cfg`, `MCAppSettings` | `ui/tests/app-settings-store.test.mjs:93`, "rolls back to the last committed revision" | a load answered during an update is discarded; when the save then fails, the page falls back to the defaults |
| `WritesAreAtomic` | `MCTornConfig.cfg`, `MCRenderer` | `server/config_store.py:1`, "atomic writes" | a failed save opens the wizard again over a page that saves; both updates share the temporary file, and `config.json` mixes them |
| `PresetIsWritten` | `MCPresetWritten.cfg`, `MCRenderer` | `BUILDING.md`, "First-run presets write `config.json`" | the wizard, closed by a skip, is opened again when its save fails, and applies beside an update of the settings page: what it takes for applied is not what the file holds |
| `ChangesAppear` | `MCChangesAppear.cfg`, `MCNotifications` | `ui/src/pages/Settings.jsx:413`, "Important session changes appear in the corner of the app." | a restarted backend numbers its notifications from n1 again, and the page takes them for toasts it has shown |
| `GateAcceptsRelease` | `MCReleaseGate.cfg`, `MCPackaging` | `docs/release-candidate-1.1.1.md:47` | the last check requires a script that exports nothing, and throws |

### Bounds

* `tuning`: two pids with two processes each, the smallest case in which each
  direction of reuse happens (background process then game, game then
  background process), two entries per session, two sessions. The
  second process of each pid owns a window and can take the foreground; batches
  hold one process, so that a second one is always deferred to the next cycle.
* `tuning_faults`: one process per pid, a game and two background processes that
  are interchangeable (symmetry), batches of two, one failing call. One failure
  in two sessions reaches every error path, alone; two failures in a row are not
  covered.
* `power`: three failures and three plan changes, so that an unverified switch,
  a failing fallback and a failing restore fit in one session; three sessions,
  so that a record can outlive a refused start.
* `lifecycle`: three processes, so that a record left by the first and refused
  by the second reaches the third. Nothing else is bounded.
* `bridge`: two request threads, so that every pair of requests overlaps, beside
  the last stop of the main thread; three engines, one for each request thread
  and one that has the mutex, because it runs, was refused or was lost.
* `supervisor`: two starts, three children (one of each start and one that is
  dying), one automatic restart and one Retry. The restart limit is a parameter
  of the code's counter; with one, the exit that is restarted and the one that
  is not both happen.
* `live_stream`: three requests, so that two destroyed ones can report beside
  the current one; one hiding of the page, one crash of the backend; three
  events on their way to the page, after which further ones wait.
* `notifications`: two streams, each read or not; one change of the status, which
  two threads with an old and a new snapshot find any number of times; a history
  of two, the smallest with an order; one restart.
* `app_settings`: two settings, because the one for the start with Windows takes
  a path of its own; two updates, so that one is queued while the other is
  saved; one relaunch.
* `renderer`: two outstanding requests, two versions of the data, two presets,
  two update threads, one update given up (and none asked after it: both
  properties of the file end there), one application setting being saved. With
  two of them queued the safety properties hold as well (1.8 million states); the
  theorems have no bound. Reports and the configuration share
  nothing, so a part that loads by itself is mounted only while nothing has been
  done to the configuration (`Untouched`).
* `packaging`: two files of code (symmetric) and the classes of other files; two
  edits, two builds, so that one can end with what the other has left; one
  accident.

Deadlock is not checked (`CHECK_DEADLOCK FALSE`): the bounds end every
behaviour, and a program that has stopped or quit does nothing more.

### Fairness

`EngineLifecycle` assumes weak fairness of `Run`, `Stopping`,
`Restore` and `Monitor`. These are the steps of threads that are inside `run`,
inside `shutdown` or inside a monitor cycle; nothing in them waits for another
thread except the wait for active mutations, which is a guard of `SdDrain`. So
the assumption is that Windows schedules runnable threads and that its calls
return. Nobody is assumed to stop the engine, press Ctrl+C, start a game or end
one: `ShutdownTerminates` and `StopReturns` begin when somebody has.

`BackendBridge` assumes weak fairness of `Serve(t)`, the steps of one request
thread or of the main thread inside the bridge, of `Restore(e)`, the steps of a
shutdown, and of `Exit`. A Python lock promises no order among those who wait
for it, and weak fairness promises none either: a thread may lose the lifecycle
lock again and again. `ParentGoneEnds` holds all the same because a server that
stops accepts no further requests, so that only finitely many threads can come
first.

`Supervisor` assumes weak fairness of what the event loop does by itself: each
step of a start (`StartStep`; every wait in it has a time limit), the end of a
page load, the restart timer, the delivery of an exit event, the answer or the
time limit of the stop request, and the last step of quitting. A killed process
ends. A backend is never assumed to come up or to stay up, nor the user to do
anything.

`LiveStream` assumes that IPC messages are handled and timers fire (weak), that
an attempt at a connection ends, and that a stream whose backend has gone reports
it. `KeepsConnecting` needs strong fairness of `Accepted` and `Frame`: attempts
are not refused for ever by a backend that is up, and among the frames of a
stream some are whole. A lost stream that still sends into the shared buffer can
spoil a frame, again and again but not always.

`Notifications` assumes weak fairness of each stream thread. `Renderer` assumes
that the log page's interval fires and that each request ends (main gives it up
after its time limit), and strong fairness of `Handled` and `Taken`: not every
answer fails. `AppSettings`, `ProcessTuning`, `PowerScheme` and `Packaging` have
safety properties only.

## Proofs

Every safety property of a passing run is a theorem, for every value of the
constants that the module's assumption allows: all invariants, all action
properties and the three refinements. Two places need a hypothesis more, which is
explained below: `PowerScheme`'s theorems have `OneGamingPlan`, and
`NamedGamesRunFree` has `NoGameAfterWindow`.

`ProcessTuning_proofs` proves, for all sets of pids and processes, any batch
size and any number of sessions, entries and failed calls (assumption
`TuningAssumption`), `TypeCorrect`, `SettingsComeBack` (`Restorable`),
`CyclesRecord` (`RecordedBetweenCycles`), `StartsClean`
(`RecoveryLeavesNothing`), `RecordsStay` (`RecordOutlivesThrottle`), the
refinement `GateRefinement` (`GateContract`), and `NamedGamesSpared`
(`NamedGamesRunFree`). `Restorable` looks at snapshots and entries as they are;
its strengthening `Invariant` follows them:

* `Snapshots`, `Settings`: every snapshot anywhere (table, record, the threads'
  local copies) is of the process it names, taken before that was tuned.
* `Gens`, `Calls`: a restore call holds the entry it read, or one that a newer
  generation has replaced. This is where `_entry_gen` is needed.
* `Stages`, `CallArgs`: which threads are at work at which stage of a session, and
  on what.
* `Mine`, `Tracked`, `Released`, `Fresh`: who is tuned and not excused has an entry
  before the first call is made on it; it is in the record before the engine runs, in
  the table while it runs, and ahead of the restore at the end; it is not dropped
  before its settings are back, and not cleaned up as a process that has gone.
* `RecordedInv`, `Batch`: who is throttled is on disk or in flight, in the
  batch, in the copy that is merged, or in the hands of the undoing. The records about
  to be written are those of the present entries and miss none that is on disk.

The games need two parts more: no snapshot would throttle one when it is written
back (`Tamed`), and what the monitor has planned spares them (`Plans`). `Plans`
fails at the foreground jail (`tuning.py:650`): that looks at the name behind a
pid, then opens the pid, and compares no creation time. A game that takes over
the pid of a process that had a window in between is throttled. The theorem
therefore has the hypothesis `NoGameAfterWindow`; the instance of `tuning`
satisfies it, and the hazard is listed.

`Lifecycles_proofs` proves, of `EngineLifecycle` and for every `MaxBoot` and
both values of `RecoveryMayFail` (assumption `LifecycleAssumption`):

* `TypeCorrect`: `Spec => []TypeOK`.
* `GateInvariant`: `Spec => []GateInv`.
* `GateRefinement`: `Spec => GateContract`, the refinement of
  `ShutdownContract`.
* `ShutdownRestores`: `Spec => []RestoredWhenOver`.

`TypeOK` is not inductive: that `active` stays in `0..1` needs to know that it
is 1 exactly when the monitor is inside a mutation (`Counted`). The refinement
needs more: that the gate is closed exactly when a shutdown has begun
(`Closed`), that no mutation is under way past the drain (`Idling`), that there
is a monitor only once the start is over (`Begun`), and that a process that is
gone has left neither handler nor shutdown behind (`Vacant`), so that the gate of
the next one is open because it is another's. `GateInv` is the conjunction.
`RestoredWhenOver` says nothing until the last step of shutdown; its
strengthening `RestoreInv` says after each step which resources are done
(`StepsDone`), that the session still remembers what it changed
(`Remembered`), that a shutdown that is not early finds no start under way
(`StartOver`), and that a monitor thread that was joined stays gone
(`MonGone`). Each step of the proof takes one action of `Next`.

`BackendBridge_proofs` proves, for all sets of request threads and engines
(assumption `BridgeAssumption`), `TypeCorrect`, `EngineAtWorkIsOne`
(`OneAtWork`), `RunningEngineIsKnown` (`RunningIsKnown`), `StopLeavesNothing`
(`StopRestores`) and `ExitLeavesNothing` (`ExitRestores`). All follow from one
inductive invariant, `Inv`. What start and stop do is done under the lifecycle
lock (`Locked`), and the bridge is empty meanwhile (`BridgeEmpty`); recover
takes no lock, so the argument that it disturbs nobody rests on the mutex: an
engine that waits for it or recovers with it is untouched and known to one
thread only (`Fresh`, `Recovering`), an engine that starts has it (`Starting`),
and one with changes in place or in service has it too (`Holds`). `Unrestored`
and `TunedByStart` say where changes can be found: in an engine nobody has shut
down, be it dropped, or in the hands of its start. Where a step changes two
fields of one record of `call`, the module writes the record out: tlapm 1.4.5
translates two updates of one element in an `EXCEPT` wrongly.

`PowerScheme_proofs` proves `SwitchIsRecorded`, `PlanRestoredAfterSession`,
`StartFindsOwnPlan` and the refinement `RecordedAhead` of `WriteAhead`, for any set
of plans and any number of sessions, crashes, failed calls and choices of the user.
It assumes `PowerAssumption`, and as the theorems' hypothesis `OneGamingPlan`: one
registered gaming plan at most. With two the first property fails (see the known
divergences). The record is taken back in five places; that the engine's plan is not
active there is what the invariant must know: while it is active, a flag in memory
or the pending verification says so (`Known`), the flags are tied to the stage of
the monitor and of the restore (`Flags`, `Stages`, `Restores`), and with one plan an
unverified switch is never followed by another in the same attempt (`Flags`, last
part; the only use of `OneGamingPlan`).

Of `Supervisor`, `Lifecycles_proofs` proves `NeverOrphaned` (`NoOrphan`) for any
number of starts, processes and restarts. An exit, a failed start and a new
start overwrite `backendProcess` without looking at it, so the invariant says
that they never meet: of the restart timer, a start that has not spawned and a
process with its exit listener there is one at a time (`One`), and the listener
is that of the named process (`Named`). A retry breaks `One`, which is why the
property ends there.

`Dashboard_proofs` proves of `Renderer`, for any sets of request slots, presets,
further settings and store threads (assumptions `PagesAssumption` and
`ConfigAssumption`), `WindowTypes` (`WindowTypeOK`), `RequestsKeepBusy`
(`BusyHasRequest`), `AskedIsHeard` (`RequestsArrive`), `StoreNeedsNoLock`
(`FileIsWhole`) and `RetryIsSafe` (`AppliedIsWritten`).

* That requests arrive is a fact about the two tables of `RequestPath`: each request a
  part sends fits one route (`OneRoute`, `RouteFound`) and the operation it names
  (`ArrivingComposed`), and the flag `refresh` survives being put into the query and
  read from it again (`FlagPasses`).
* Settings page and wizard wait for one update each (`Awaited`), and an update
  finds the file and the temporary file as its own steps left them (`OwnStore`),
  since two updates are never at work together (`OneAtATime`). All this is so as
  long as nothing has disturbed it, which is the condition of both properties
  (`Undisturbed`): no update has been given up, and no failed save of the
  application settings has opened or closed the wizard. `Opening`
  says which saves are under way: the wizard waits for one completion at most, and
  is busy as long as it does.

Of `LiveStream` it proves, for any sets of requests and all bounds (assumption
`LiveStreamAssumption`), `TypeCorrect`, `Unstranded` (`NeverStranded`) and
`Follows` (`FollowsThePage`). `FollowsThePage` speaks of an empty channel and is
not inductive; `LastSays` adds what holds while messages are under way: the last
of them asks for what the page wants now. `NeverStranded` rests on the types
alone, since each step that clears `liveStreamRequest` is `Denied`, stops the
stream or asks for a timer, whichever request it was meant for.

`AppSettings_proofs` proves, for every set of settings and defaults and any
number of updates and launches (assumption `AppSettingsAssumption`),
`PendingStaysShown`, `QuietShowsFile` and `SingleAutostart`. What a quiet page
shows is two steps from the file: it shows what is committed
(`ShownIsCommitted`), and what is committed is the file, unless the file is the
answer under way (`AnswerIsFile`), once the page has taken something from main
(`Heard`); until then the defaults are committed (`Unheard`). Both need that
main's memory agrees with the file while there is a page (`Memory`), and that an
answer of the load is current until an update is saved (`LoadedIsFile`).

`Notifications_proofs` proves, for any set of streams, any length of the history,
any number of changes and restarts (assumption `NotificationsAssumption`),
`ComesOnce` (`ToldOnce`), `ArrivesInOrder` (`HistoryInOrder`) and `ToastComes`
(`NewestHasToast`). Nothing comes twice because no id is above the counter
(`Numbered`, `Received`), two threads have different ones to write (`Apart`), and
what is still to come has not come (`Untold`); this holds however many streams
the page hears. The order needs that one stream at most has been read at a time
(`OneReader`, until `beside`): what that one has yet to write is newer than all
the page has (`Newer`), and what other threads have found goes to nobody.
For the toasts the invariant adds that what the page counts as
seen is older than all that is still to come (`SeenIsOld`), and that the newest
entry counts as seen only when its toast was shown (`ShownFirst`).

`Packaging_proofs` proves `RefusedForCause` and `StartsWhatWasListed` for every
set of code files and any number of edits, builds and accidents (assumption
`PackagingAssumption`: no code file has the name of the state, scratch or foreign
files). A manifest lists code only (`Listed`), so a launch's check says that tree
and manifest agree on code and foreign files (lemma `VerifiesMeans`); whatever can
be launched carries a manifest that was made of sources (`AllReal`). That a checked
application passes needs its way through the chain: the check reads the unpacked
tree and counts for the installer because both were assembled in one step
(`Twins`), and what the backend writes later is what the check ignores (`Checked`).

Only model-checked: the liveness properties (`ShutdownTerminates`, `StopReturns`,
`ParentGoneEnds`, `MemoryCatchesUp`, `QuitEnds`, `ComesToRest`, `KeepsConnecting`,
`LogsConverge`), because tlapm proves nothing from fairness or `ENABLED`.

## What the models leave out

* Clocks. Debounces, intervals, delays and time limits are choices: the model
  may act at once or later. The 60 s of the clean-up, the exit delay, the
  foreground debounce, readiness and request limits are such choices.
* Reading a creation time always succeeds; where it fails the code falls back
  to the pid alone.
* Protected processes are outside `Pids`, and background isolation is switched on.
* Thread tuning inside the game is off in `ProcessTuning`, and the boost of
  critical processes is one resource of `EngineLifecycle`.
* Writing a file is one step that happens or fails; `protected_state.py` writes
  a temporary file and replaces. Only `ConfigEditor` has the steps, because the
  temporary name is shared there.
* In `PowerScheme` the power part is the only part of the recovery file, and
  shutdown has joined the monitor; the overlap is in `EngineLifecycle`.
  `ProcessTuning` lets the monitor run on during shutdown, and begins a
  shutdown only when the start is over or refused; the rest is in
  `EngineLifecycle`.
* In `ProcessTuning` and `PowerScheme` a new session begins only when the process
  of the old one is gone. `EngineLifecycle` has the second instance, and
  `BackendBridge` the engines that follow each other in one process.
* `BackendBridge` has no exceptions inside `run`, no Ctrl+C before a start is
  over (`EngineLifecycle` has it) and only callers with administrator rights.
  Caches and the engine's reload of its configuration are not in it.
* `Supervisor` takes the port a start has found for the child it will spawn, so
  that two starts never get the same port. The elevation check, icons and window
  geometry are left out.
* `LiveStream` follows the connection, `Notifications` what it carries; a stream
  that ends is closed in `Notifications` and its reconnect left to `LiveStream`.
  Of the status, the counters that are told only when they grow are left out.
* `ConfigEditor` takes validation as one outcome, valid or not, and leaves
  migration and the backup of damaged files out.
* In `Packaging` a hash tells contents apart; signatures and the checks of the
  public files are left out.

### Not modelled

* CPU topology and partitions: a selection over the reported core groups,
  without state of its own; the Windows API bindings below it likewise.
* Protected state files: each write replaces the file in one step, and the
  modules that use them take it so.
* Settings parsing, log store, analysis, MSI and readiness reports: reads
  without state that another step depends on.
* IFEO values one by one: `EngineLifecycle` has them as one resource. The code
  writes the registry before the backup, and after a crash between the two no
  step of it can know; a property of that would be false and say no more.
* Presentation: texts, tables, styles, translations; developer scripts.
