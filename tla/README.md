# Formal models of the streaming backend

The backend in `src/backend/app` keeps 24/7 YouTube streams alive: it takes a
user's uploads, turns playlists of them into an FFmpeg process per stream, starts
and stops it on request or by schedule, restarts it when it fails, lets its playlist
be edited while it plays, and keeps database rows that the dashboard, the quotas
and the restarts all read. The hard part is that rows, locks, processes, files and
in-memory caches are changed by many actors that do not wait for each other, and
that the schema itself is changed by a runner that may die half-way. This directory
models those parts in TLA+, checks them with TLC, and proves what can be proved with
TLAPS.

Paths below are relative to `src/backend/app` unless they start with `src/`.

## 1. Inventory

| Part | State it keeps | Operations | Hard behaviour | What makes it correct |
|---|---|---|---|---|
| FFmpeg manager (`streaming/ffmpeg_manager.py`, `process_support.py`) | `active_streams`, `stream_info`, `_monitor_tasks`, `_cleanup_lock`; column `runtime_restart_attempts` | start, stop, restart, monitor, failure handler with backoff, daily-limit stop, cleanup of dead entries | tasks interleave at every `await`; entries are popped by whoever comes first | no child out of reach; a stop ends the child and returns; a managed stop is no failure; restarts stay within the ceiling; no silent crash |
| Start admission (`services/streams/control.py` start path, `core/quota.py`) | row status, advisory lock, row locks | check the quota, commit "starting", call systemctl | count and write are two statements; locks end with the transaction | at most `Limit` streams count; nobody waits for ever |
| Scheduler (`services/streams/scheduler.py`) | schedule columns, row locks of a batch | start due streams, stop due streams, advance recurrences | commits inside a batch drop the batch's locks; lock order differs from the API's | as above; every due start is tried once per interval |
| Stream control, systemd mode (`services/streams/control.py`, `core/systemd_control.py`) | row, unit | start, stop, restart, status | a row is loaded, systemctl awaited, the row written: what was read is stale; systemctl fails; the backend dies in between | the row ends up telling the truth; terminal rows are final until somebody asks |
| Runner (`cli/run_stream.py`) | its process, heartbeat file, row | refuse, launch, announce, wait, clear, update | killed at any point; SIGTERM lost while it launches | refuses terminal rows; leaves no heartbeat behind |
| Heartbeat (`core/stream_runtime_heartbeat.py`) | one file per stream | write, read, expire, clear | outlives a killed runner; one failed write ends its renewal | stale only after a crash or a failed write |
| Reconciler (`core/stream_reconciler.py`, loop in `main.py`) | row | pass at startup, pass every 10 s | one commit for a pass of many awaits | drifted rows are corrected, fresh ones are not spoilt |
| systemd unit (`src/docs/systemd/ffmpeg@.service.example`) | ActiveState, start-limit counter | start, stop, restart, automatic restart | restart wait, start limit, prevented exit code, SIGKILL after a timeout | external; modelled as the unit file configures it |
| Stream service (`services/streams/service.py`, `control.py`, `helpers.py`), manager mode | stream row, FFmpeg | create, edit the schedule, start, stop, delete | a session works on the copy it read first; the monitor and audit events write the same row in sessions of their own | occurrences are launched once and in order; stops end |
| Launch checks (`streaming/validator.py`, `core/quota_quality.py`, `playlist_builder.py`, `command_builder.py`) | probe results kept with the assets | probe, quality gate, checks of the lists, choice to copy or encode | four pieces of code, written apart, have to agree | what is copied is what YouTube and the concat demuxer take; nothing above the tier |
| Schedule arithmetic (`core/stream_schedule.py`) | none | next occurrence, stop time, local time | days on which clocks change, weekdays that wrap | the next occurrence is the next turn; it is later |
| Playout: hot swap and collections (`streaming/hot_swap.py`, `services/media_collections`, `core/collections.py`) | slot files, queue, playhead task; rows of the collection | launch, advance, enqueue, replace, stop; replace items, delete an asset | the queue is changed before the transaction commits; edits overlap under READ COMMITTED; cascades | edits do not mix; an emptied collection is noticed; the rotation goes on |
| Uploads and their quota (`src/backend/tusd-hooks`, `services/assets`, `core/quota.py`) | ingest and asset rows, files, byte counter, manifests | pre-create, post-finish, finalize, register, delete | repeated hooks, half-done finalizations, five kinds of locks, crashes | limits hold; bytes are not overcharged; an outcome is reported |
| Migrations (`src/backend/apply_migrations.py`, `src/backend/migrations`, patches in `core/database.py`) | the schema; nothing else records what was applied | status, apply, verify, probe; patches at boot | statements commit one by one; checks are written twice; patches and files disagree | a run makes good what an interrupted one left; the restart counter is not lost |
| Rate limiter, runtime signals | sliding windows | hit, prune | boundaries of a window | never more than the limit in a window |
| Everything else | | | single-request edits, reads, external calls | not modelled; see `PROJECT.json` |

The parts interact like this. An API request or the scheduler commits "starting"
and calls systemctl; systemd runs the runner; the runner reads the row, starts
FFmpeg through an FFmpeg manager of its own, writes the heartbeat, then "running";
status requests and the reconciler compare row, unit and heartbeat and write what
they conclude; FFmpeg's monitor and the runner's exit write the terminal status;
systemd restarts the unit unless the runner refused. In manager mode, the default of
`core/config.py`, the backend itself owns the FFmpeg manager and no unit is involved.
What a stream plays comes from collections of assets; assets come from uploads, whose
finalization charges the quotas; a deletion of an asset takes it out of collections
and refunds it. Everything rests on the schema the migrations leave.

## 2. Modules

| Module | Content |
|---|---|
| `FFmpegManager` | one stream's entries in the manager, its tasks and its children |
| `FFmpegManagerProofs` | type correctness, the restart ceiling, and what a sequential client is promised |
| `ConcurrentStreamLimit` | abstract: what the concurrent-stream quota promises |
| `StartAdmission` | start requests and scheduler batches of one user over PostgreSQL locks; implements the former |
| `StartAdmissionProofs` | type correctness, the limit, the refinement |
| `SystemdRuntime` | one stream in systemd mode: row, unit, runner, heartbeat, backend sessions |
| `SystemdRuntimeProofs` | type correctness, that a stale heartbeat is the trace of a crash or a failed write, and the refusal of terminal rows |
| `TerminalRefusal` | `SystemdRuntime` with a history variable, for what may follow a terminal row |
| `LaunchChecks` | pure: what is found in a file, which lists may be launched, what FFmpeg copies and what it encodes |
| `ScheduleTimes` | pure: local clocks, next occurrence, window and stop of an occurrence |
| `ScheduleTimesProofs` | windows are not empty, recurrences advance |
| `StreamService` | one stream in manager mode from creation to deletion, with requests and the scheduler; composes `LaunchChecks` and `ScheduleTimes` |
| `StreamServiceProofs` | type correctness, sound launches, one launch per occurrence, the right next start |
| `UploadFinalization` | one user's uploads, assets and quotas |
| `UploadFinalizationProofs` | type correctness, the asset limit, the byte counter, one asset and one outcome per upload |
| `Playout` | the collection and the slot queue of a running stream, and requests that edit them |
| `PlayoutProofs` | type correctness, unique positions, and the safety of overlapping edits |
| `MigrationFiles` | the migrations as data: what each statement needs, drops and adds |
| `Migrations` | the runner, its checks, the patches at boot |
| `MigrationFacts` | what the checks ask for as sets of objects, and the facts about the files the proofs use |
| `MigrationsProofs` | types, the agreement of the checks, the restart counter, what a completed run makes good |
| `MC*` | instances for TLC |

A definition whose comment begins with "Mutant" is a plausible bug of the
definition after it. It is no part of a specification; each is used to show that a
property notices the bug.

### FFmpegManager

An asyncio task is undisturbed between two awaits, so an action is the code from
one await to the next and `pc[t]` is the await task `t` is suspended at. Tasks are
the callers of the public methods and one monitor per child. `active`, `info` and
`mtask` are the entries of the stream in `active_streams`, `stream_info` and
`_monitor_tasks`; `info.of` says which child an entry describes, because the
failure handler keeps a reference to a dictionary that may have been replaced
(`loc[p].ref`). `lock` is `_cleanup_lock` where it is held over an await; where it
is not, taking and releasing it is part of the action. `persisted` and `outcome` are
the columns the monitor writes. `granted` and `signalled` are history variables.

Correspondence: `EnterStart`, `SpawnSucceeds`/`SpawnFails`, `PersistStart`,
`RegisterMonitor` are `start_stream`; `StopSignal`/`StopAbsent`, `StopKill`,
`StopReap`, `StopJoin`, `PopUnderLock`, `StopReturn` are `stop_stream`; `RestartCall`
and `RestartReturn` wrap both; `MonitorSeesExit`, `MonitorClassify`, `CleanReset`,
`CleanFinal` and `FailRead`, `FailAdvance`, `Relaunch`, `MarkFailed` are the two ways
a monitor goes on. The daily-limit task is `QuotaStop`, and the backend's cleanup
loop `CleanupDead` and `CleanupStaleInfo`.

Abstracted: FFmpeg's command line, logs, alerts and metrics, the length of a
backoff, the other streams (they share only the lock). Assumed: database statements
succeed; the code's fall-backs for failing ones are not modelled.

### StartAdmission and ConcurrentStreamLimit

A session is one database session; an action is the code between two awaits that
touch the database or systemd. `userLock` is the advisory lock of the user's
START_STREAM namespace and `rowLock` the lock of each row; a commit or rollback drops
both (`ReleaseLocks`). A scheduler run locks a batch with SKIP LOCKED (`BeginBatch`),
but the commit inside `start_stream` (`CommitStart`) drops the locks of the streams
still to come, which the model keeps. `AbortDeadlocked` is PostgreSQL's deadlock
detector: any session of a cycle may be the victim.

The statuses that do not count against the quota are one value. `ReportsRunning`,
`LeavesCount` and `ComesDue` stand for everything else that happens to a stream, and
they state the condition under which the limit holds: **only an admission moves a
stream from a status that does not count into one that does**. The code has other
writers that break it: `restart_stream` starts a stopped stream without a quota
check, and a status request or the reconciler writes "running" for a unit that is
up. The results are about starts, not about those.

`ConcurrentStreamLimit` admits a stream in one step while fewer than `Limit` are
live. `StartAdmission` implements it with `live <- Counted`.

### SystemdRuntime and TerminalRefusal

`status` is the committed column; `seen[a]` what session `a` has in memory. Sessions
use `expire_on_commit=False`, a second SELECT in a session does not refresh an object
it already has, and SQLAlchemy writes a column only if its new value differs from the
loaded one. `Write` and `Commit` model exactly that, and one of the findings depends
on it. `unit` is ActiveState, with "activating" for the wait of `RestartSec`;
`starts` counts activations against `StartLimitBurst`. `runner` walks through
`_start_stream`; its short transactions are single actions. `heartbeat` is the file.
A write of it that fails ends the task that renews it, which handles no exception:
the runner is then "mute" while FFmpeg lives (`RenewalFails`), and when FFmpeg ends the
awaited task raises the error again, ahead of the clearing and of the last update
(`RenewalRaises`). `crashed` remembers this beside kills and failed commits.
`pc`, `found` belong to the backend sessions, all of whose progress is lost in
`BackendCrashes`.

Correspondence: `BeginStart` to `LaunchFails` are `start_stream` (its status check is
`PollUnit`, `PollCommit`), `BeginStop` to `StopCommit` `stop_stream` with
`_stop_for_runtime`, `BeginRestart` to `RestartFails` `restart_stream`, `BeginPoll`
`get_stream_status`, `BeginReconcile` to `ReconcileCommit` `periodic_reconciliation`
(the pass at startup selects and writes alike), `Boot` to `UpdateAfterExit` the
runner, `RenewalFails` its `_heartbeat_loop`.

Left out: the statuses "draft" and "scheduled" (the stream has been stopped before),
a failing `systemctl show` (it leaves the row alone), failing database statements
other than the runner's commit of "running", an FFmpeg that exits between its spawn
and that commit, and automatic restarts inside the runner (their setting's default
is 0). Where FFmpeg's exit leads is left open between the two terminal statuses.

`TerminalRefusal` adds `barred`: the unit waited for its restart while the row was
terminal and no start, stop or restart request has been in flight since.

### StreamService, LaunchChecks and ScheduleTimes

`row` is the committed row of one stream (`None` before its creation and after its
deletion), `lock` its row lock with PostgreSQL's modes, `copy[x]` the row as session
`x` read it. `Write` writes the columns in which the new values differ from the copy
and leaves the others, as SQLAlchemy does. Sessions are the user's requests and
`Launcher`, the poll of `scheduled_stream_launcher`. `ffmpeg` is the command FFmpeg
runs with; `ended` how it ended until its monitor has recorded that (`Finalize`).

Correspondence: `Create`, `AskUpdate`/`Update`, `AskDelete`/`DeleteStop`/`Delete` are
`create_stream`, `update_stream_schedule`, `delete_stream`; `AskStart`, `RefuseStart`,
`Spawn`, `ResetCounter`, `CommitStart` are `start_stream`; `AskStop`,
`RecordStopRequest`, `StopRuntime`, `CommitStop` are `stop_stream`; `LaunchDue`,
`RecordNext` and `StopDue` are `launch_due_streams` and `stop_due_streams`. `Launchable`
(`LaunchChecks`) is the order of checks of `validate_stream_launch_prerequisites`, and
`CommandPlan` what `_build_command` decides. `RefuseStart` stands for the limit of
streams, a failed launch check, a full disk and a failed spawn.

A file is its probe: streams, rates, key frames. Time is in hours, a failed attempt is
repeated in the next hour (a minute in the code); days and weeks have any length, and
local clocks go forward at `Springs` and back at `Falls`.

Abstracted: names, log files, the text of the command. Left out: live output
compatibility, which runs on request only; several streams in a batch, which
`StartAdmission` has; automatic restarts, which `FFmpegManager` has.

### UploadFinalization

A creator is a delivery of post-finish with the webhook it calls, or a direct
registration; each makes at most one asset. An action is the code between two awaits
on the database; a transaction's own rows appear at its commit, and all locks are
held until then: the advisory locks ASSETS and STORAGE, the rows of ingests (by
their unique upload id also before they exist), of assets, of the profile. Files have
size 1. `BackendCrash` ends all sessions and keeps what is committed and on disk;
post-finish itself goes on and writes its manifest (`FinishHook`).

Correspondence: `PreCreate`, `Deliver`, `DeliverMissing`, `FinishHook` are the hooks;
`LookupIngest` to `AddThumbnail`, `RollBack` and `RecordFailure` are
`handle_upload_complete`; `BeginRegister` starts `create_asset`, which shares
`LoadProfile` to `CommitAsset`; `BeginDelete` to `UnlinkFile` are `delete_asset`.

### Playout

A request is one transaction on the collection of one stream: a hot swap, a restart
with another list, a replacement, an enqueue, a deletion of an asset. READ COMMITTED
is modelled by what each statement sees and waits for: a DELETE works on the rows it
saw, an INSERT waits for a pending row with the same position or asset, a deletion
cascades. `assigned`, `queue`, `head`, `ticking` are a `SlotQueue` with its task;
`slot` the links of the slot files. `Advance` is `_advance_slot`; `Launched`,
`Enqueued`, `Replaced` what a launch, `enqueue` and `replace` make of them.

A hot swap of a running stream fails after it has replaced the queue, because
`StreamHotSwapState` has no `_write_queue_state` (`streaming/hot_swap.py:237`); so it
does in the model (`ApplySwap`).

### MigrationFiles and Migrations

A schema is the set of its objects. An object is a table, an index, a constraint, or
columns that always come together; a statement needs objects, is skipped if one
exists, drops some and adds some. `Status` and `Verified` are the two copies of the
checks, `get_migration_status` and `verify_migration`. A run goes from `Begin` over
`ReadStatus` and `Execute` to `Probe`, and may be killed (`Crash`) or fail
(`StatementRaises`) between any two statements; `Boot` is the start of the backend
with its patches. Runs follow one another (the entrypoint and the deploy script), and
the backend starts between two runs.

## 3. Runs

| Run | Configuration | Question | Result |
|---|---|---|---|
| `manager_sequential` | `MCManagerSequential.cfg` | One caller that makes one call after another, 3 children, no automatic restart, no cleanup loop: `NoOrphan`, `ManagedStopIsNoFailure`, `StopEndsFFmpeg`, `StopReturns` | hold |
| `manager_backend` | `MCManagerBackend.cfg` | 2 children, 1 automatic restart, cleanup loop: `TypeOK`, `RestartBudget`, `CrashSurfaces` | hold |
| `start_admission` | `MCStartAdmission.cfg` | 2 streams, 2 requests, 1 scheduler, limit 1: `TypeOK`, `WithinLimit`, `AdmissionIsAtomic`, `SessionsFinish` | hold |
| `runtime_reconciled` | `MCRuntimeReconciled.cfg` | 1 request session, 1 reconciler, burst 1: `TypeOK`, `StaleMeansCrash`, `DownIsReported`, `LiveIsConfirmed` | hold |
| `runtime_polled` | `MCRuntimePolled.cfg` | 1 request session, 1 polling client, burst 1: `LiveIsReported` | holds |
| `runtime_refusal` | `MCRuntimeRefusal.cfg` | 1 request session, burst 2: `RefusesTerminal`, `RefusalEndsLoop` | hold |
| `uploads` | `MCUploads.cfg` | 2 uploads, 2 deliveries, 1 registration, 1 deletion, limits 2: `TypeOK`, `AssetLimitHolds`, `NeverOvercharged`, `IdempotentUntilFailure`, `OutcomeIsReported`, `SessionsEnd` | hold |
| `migrations` | `MCMigrations.cfg` | new and legacy database, patches at boot, 2 interrupted runs: `TypeOK`, `VerifiedIsApplied`, `InterruptionIsMadeGood`, `CounterSurvivesFirstRun`, `FailedProbeHeals` | hold |
| `playout` | `MCPlayout.cfg` | 3 assets, 2 of them looping in the collection, 2 requests of 7, 2 slots, 1 more launch: `TypeOK`, `OneEditWins`, `DepletionNoticed`, `QueuedIsCommitted`, `RequestsEnd`, `RotationRecurs` | hold |
| `stream_service` | `MCStreamService.cfg` | 1 request session beside the scheduler, 288 contents, 6 schedules, 1 crash: `TypeOK`, `LaunchIsSound`, `OccurrenceLaunchedOnce`, `NextStartIsRight`, `RecurrenceGoesOn` | hold |
| `stream_due_stop` | `MCStreamDueStop.cfg` | `DueStreamsAreStopped` | **violated** |
| `stream_stop` | `MCStreamStop.cfg` | `StopsEnd` | **violated** |

What the bounds mean:

- `MaxProcs` bounds the children of a behaviour. A race in the manager is between a
  child, its successor and the calls around them. Three children let a caller stop
  or restart a stream while the monitor of an earlier child is not over; two do with
  one automatic restart, the third being a spawn that fails. When no child is left
  `SpawnFails` remains, so no run stops for want of children.
- One caller is the honest client for the first run: public calls overlap only if
  two requests do. Two overlapping starts do spawn two children in the code
  (`active_streams` is checked before an await and written after it); it is the
  user's advisory lock, held by the request until its commit, that excludes them.
  The runner of systemd mode can overlap its start with its signal handler; that is
  for the composition of runner and manager (section 6), and this run says nothing
  of it.
- `MaxRestarts` 1 is the value of `src/backend/.env.example`; 0 is the default.
- `Limit` 1 with two streams makes every second start a conflict; two requests and a
  scheduler give every pair of lock orders, deadlocks included.
- Uploads: two deliveries of the same or of different uploads, a registration and a
  deletion give every pair of lock orders; with limits of 2 the third creator is one
  too many. Crashes are not bounded.
- Migrations: every statement of every file; the two interrupted runs can break off
  at any two of them. Runs and starts of the backend are not bounded.
- Playout: `MaxSlots` is 4 in the code; with 2, two assets fill the slots and a third
  waits in the queue. The lists keep, replace, repeat and shuffle what plays, and
  contain an asset that is being deleted. One more launch shows what a stop leaves.
- Stream service: the contents differ from a good one in one file, in one respect, at
  the first or the second place of a list, under three tiers. Days of 3 hours and weeks
  of 2 days put both changes of the clocks and a wrap of the week into horizons of 3
  to 5 hours. `MaxAsked` is 2: an update or stop that overlaps a launch, and one more.
- `Burst` is 5 in the unit file; 1 and 2 make the start limit come up often, and
  `IntervalEnds` may reset it at any time, so that longer chains of restarts occur.

### The two violated properties

Each is also in `PROJECT.json` with the sentence of the repository it contradicts.

1. *A due stop waits for itself.* `stop_due_streams` selects the rows FOR UPDATE and
   calls `stop_stream` in that transaction. It first records who asked, in a session
   of its own; the event refers to the stream, and the check of that foreign key takes
   a key-share lock on the row, which waits for the scheduler's lock. Nothing ever
   ends the wait: no lock timeout is set, and for PostgreSQL the scheduler is idle.
   Tests replace `stop_stream` by a mock.
2. *A stop in manager mode waits for itself.* `_stop_for_runtime` flushes "stopping",
   which locks the row, and awaits the manager's `stop_stream`. That joins the monitor
   task, whose last act is to update the same row in a session of its own.

Both end in a wait that the server does not see as a deadlock, because one side of it
is an await of the same process. A third wait of this kind is in `ResetCounter`: the
launcher holds the row FOR UPDATE while `_reset_persisted_restart_state` updates it in
another session, when there is a counter to reset. `SelfBlocked` names the three, and
`RecurrenceGoesOn` is claimed outside of them.

### Known counterexamples

Properties that fail in instances other than those of the runs, each once found with
the modules here. None of them has a run of its own.

- `FFmpegManager`, `MaxRestarts = 1`, `StopEndsFFmpeg`: a stop during the restart
  backoff joins the monitor, whose failure handler starts a new FFmpeg and ends; the
  stop then pops the new child's entries and returns. FFmpeg runs on and nothing can
  reach it (`ffmpeg_manager.py:436`).
- `FFmpegManager`, `CleanupLoop = TRUE`, `MaxRestarts = 0`, one caller, `NoOrphan`: the
  loop removes the entry of a child that has exited while its monitor still records the
  end; a start that follows enters a new child, and the old monitor's last act
  removes that entry, by the stream's id (`ffmpeg_manager.py:1000`). With the loop or with
  restarts `ManagedStopIsNoFailure` fails as well: the loop, or the new child's start,
  takes away the dictionary in which the stop left its mark (`ffmpeg_manager.py:1903`).
- `FFmpegManager`, `Unkillable = {1}`, `StopReturns`: the waits on the process have
  timeouts, the join of its monitor has none, so that a child that survives SIGKILL
  hangs the stop (the comment at `ffmpeg_manager.py:415` says "Never hang forever").
- `TerminalRefusal` with a polling client, `RefusesTerminal`: during the unit's
  restart wait `get_stream_status` writes "starting" over a terminal row, and the
  runner's refusal, which reads the row, is bypassed (`control.py:546`).
- `SystemdRuntime` with a reconciler and nobody polling, `Burst = 2`,
  `LiveIsReported`: the reconciler selects rows that are running, starting or
  stopping, so a terminal row of a live stream stays.
- `SystemdRuntime` with a polling client, `LiveIsReported` stated of "mute" runners as
  well: once a write of the heartbeat has failed, the file goes stale under a live
  FFmpeg and every status request writes "error" (`cli/run_stream.py:177`).
- `UploadFinalization`, `StorageLimit = 1`, `bytes <= StorageLimit`: the storage lock
  is taken, but the profile was read before it (`core/quota.py:604`), so that two
  finalizations pass a cap with room for one.
- `Migrations`, `BootPatches = FALSE`, `MaxFaults = 0`,
  `pc = "probe" => Counter \in schema`: the checks of 031, 036 and 037 contradict each
  other; the third run on a new database drops the restart counter, and its probe
  fails (`apply_migrations.py:1249`).
- `Playout`, three looping assets and two slots, "what the playhead leaves is queued
  again" (`src/backend/tests/test_hot_swap.py:47` asserts it, with `assigned` set by
  hand): a `SlotQueue` does not know the assets of the slot files filled at launch, and
  they leave the rotation (`streaming/hot_swap.py:139`).

### Properties that hold, and why they could fail

- `NoOrphan`: entries are deleted by stops, monitors and handlers alike; deleted
  before the exit is awaited, a child would be lost.
- `ManagedStopIsNoFailure`: the mark of a managed stop lives in a dictionary others
  pop; it has to survive until the monitor reads it.
- `RestartBudget`: the counter is read, alerts are awaited, and it is advanced later,
  while its in-memory copy may have been pruned; the ceiling is looked at twice.
- `CrashSurfaces`: the failure path has five exits, and each has to leave a trace.
- `StopReturns`: the monitor a stop joins needs the lock the stop has held.
- `WithinLimit`, `AdmissionIsAtomic`: the count and the write are two statements.
- `SessionsFinish`: the scheduler takes row locks first and the advisory lock
  second, a request the other way round; without an abort both would wait.
- `StaleMeansCrash`: a start can be interrupted anywhere, and only the `finally`
  clause removes the file. It exempts a kill, a failed commit and a failed write, after
  which the code does leave the file behind.
- `DownIsReported`, `LiveIsConfirmed`: failures of systemctl and crashes of the
  backend leave rows between two states; the reconciler has to bring them home with
  reads that are stale when it commits.
- `LiveIsReported` (with a client that polls): the last writer of a launch may have
  written anything. It is about a runner that renews its heartbeat; `LiveIsConfirmed`
  is about one that cannot as well.
- `RefusesTerminal`, `RefusalEndsLoop` (with nobody polling): the refusal has to come
  before FFmpeg, and to end with the exit code that systemd does not restart.

- `AssetLimitHolds`: the assets are counted in one statement and inserted in another.
- `NeverOvercharged`: charge, refund and rows change in several statements, with
  crashes in between; a refund that committed before the row, or a charge after it,
  would break it.
- `IdempotentUntilFailure`: two deliveries may both find no ingest row; only the
  unique upload id keeps the second out. It is claimed up to the first failure, since
  after one a third overlapping delivery does make a second asset.
- `OutcomeIsReported`: the backend's own record of a failure may be lost in a crash;
  the hook's manifest has to complete it.
- `SessionsEnd`, `RequestsEnd`: advisory locks and rows are taken in several orders.
- `VerifiedIsApplied`: two hand-written copies of the checks; a check that is stricter in the
  status than in the verification would apply a file again and again. The one on 006 is
  (`apply_migrations.py:146`, `777`): the property speaks of the files `main` applies, and
  006 is not among them.
- `InterruptionIsMadeGood`: a check that looks at the first object of a file only
  would count a half-applied file as applied. It holds although the checks of five
  files (004, 005, 013, 015, 017) do not look at their last statements, because no
  check does; section 5 says what is lost there.
- `CounterSurvivesFirstRun`, `FailedProbeHeals`: 030 to 037 add, drop and check the
  same columns as the patches at boot.
- `OneEditWins`: each edit deletes the rows it sees; two overlapping ones would leave
  a mixture but for the unique position and asset.
- `DepletionNoticed`: the count after the cascade is safe only because a delete holds
  the profile's row while it counts, so that two deletes cannot both see one item left.
- `QueuedIsCommitted`: the queue is told before the commit.
- `RotationRecurs`: under a fair playhead, with enqueues and deletions in between.
- `LaunchIsSound`: gate, checks and command are apart, and a mistake in one shows on
  air only.
- `OccurrenceLaunchedOnce`: the launch and the move to the next occurrence are two
  commits, and a user's edit, stop or deletion may fall in between.
- `NextStartIsRight`: stated by what the clocks read at each instant, without the dates
  the code computes with; the clocks skip an hour and repeat one.
- `RecurrenceGoesOn`: expired windows, failed attempts, stops and edits all touch the
  column the scheduler selects by.

### Fairness

- Tasks of the manager: weak fairness, because the event loop resumes a task whose
  await is over; strong fairness for steps that take `_cleanup_lock`, because an
  `asyncio.Lock` serves its waiters in order. `StopKill` is part of it: the wait in
  `stop_stream` has a timeout. A caller is never obliged to call, FFmpeg never to exit.
- Sessions of `StartAdmission`: weak fairness, and strong fairness for steps that
  wait for a lock, which PostgreSQL queues. The deadlock detector is weakly fair.
- `SystemdRuntime`: weak fairness for a session that has begun (systemctl returns),
  for the reconciler's loop (`main.py` runs it every 10 s), for the polling client
  (`refetchInterval` in `src/frontend/src/components/streaming/LiveStreamHero.tsx`),
  for the runner's own code and for systemd's timers. No fairness for users, FFmpeg's
  exit, kills, failed writes, or the expiry of a heartbeat or of the start-limit interval. The
  liveness properties assume, in their statement, that the backend does not crash for
  ever (`DownIsReported`, `LiveIsConfirmed`, `LiveIsReported`) and that runners are
  not killed for ever (`RefusalEndsLoop`).

- `UploadFinalization`: weak fairness for the steps of each session that has begun; an
  await on a lock that stays free ends. Nobody is obliged to upload or delete.
- `Migrations`: weak fairness for the runner's own steps. That it is started again
  after a failure is the entrypoint's loop (`src/backend/entrypoint.sh`).
- `Playout`: weak fairness for the playhead task, which asyncio resumes after its
  sleep, and for the requests together. PostgreSQL's deadlock detector is one of the
  requests' steps.
- `StreamService`: weak fairness for the launcher, for each request that has begun, for
  the monitor's last update and for time. Crashes are bounded and need not happen.

Deadlock is checked in the runs of the runner, the manager, the admission and the
migrations. In `uploads`, `playout` and the stream service's runs every session serves a
bounded number of requests and time ends at a horizon, so that an instance really
stops; there the liveness properties say that it does not stop in the middle.

## 4. Proofs

TLAPS checks, for all values of the constants that satisfy the modules' assumptions,
every safety invariant and every action property that a passing run checks. Four of
them need a further hypothesis, which is that of the run and is named below.

### The manager

- `FFmpegManagerProofs!TypeCorrect`: `Spec => []TypeOK`. `TypeOK` is inductive; it
  says of callers and monitors separately where they may be, without which the
  index of `loc[t].child` and of `pc` could not be placed.
- `RestartCeiling`: `Spec => []RestartBudget`. A count of grants
  alone is not inductive. The invariant adds that the grants since the last reset are
  no more than the persisted counter: an advance raises the counter by at least one
  and grants at most one restart, and a restart is granted only if the new counter is
  within the ceiling. What the in-memory counters hold does not matter, which is the
  claim the code's comments make.
- `NoOrphanWhenSequential`, `ManagedStopsWhenSequential`, `StopsEndFFmpegWhenSequential`:
  `[]NoOrphan`, `[]ManagedStopIsNoFailure` and `StopEndsFFmpeg`, for any number of
  children, under `Sequential`: at most one caller, no automatic restart, no cleanup
  loop. None of the three holds with restarts, and none with the loop (known
  counterexamples above); overlapping callers are kept apart by locks outside of the
  manager, which promises them nothing. `NoOrphan` also assumes that SIGKILL ends FFmpeg (`Unkillable = {}`); a stop
  gives up a child that survives it. The invariant `ClientInv`
  says that a monitor that has its last critical section ahead is the tracked one,
  that `info` describes its child, and that `active` leads to it or a stop is joining
  it. That is why no monitor pops the entries of another child, and why the mark of a
  managed stop is still there when the monitor reads it.

### The admission

- `StartAdmissionProofs!TypeCorrect`: `Spec => []TypeOK`.
- `LimitHolds`: `Spec => []WithinLimit`. The invariant
  `AdmissionInv` has two more parts: a session at "check" or "prepare" holds the
  user's lock (so that there is one of them), and one at "prepare" has the count below
  the limit. The second survives other sessions' steps because none of them can
  commit a start without the lock. The proof needs the streams to be finite and
  `Limit` to be a natural number; sessions may be infinitely many.
- `AdmissionImplementsQuota`: `Spec => AdmissionIsAtomic`, the refinement. A
  commit is an `Admit` (or a stutter), everything that leaves the count a `Retire`,
  and every other step a stutter.

### The systemd runtime

- `SystemdRuntimeProofs!TypeCorrect`: `Spec => []TypeOK`. `found[a]` is a state of the
  unit between `systemctl show` and the report, a status before a launch or a
  reconciler's commit; `FoundOK` says which, and the invariant needs it.
- `NoStaleWithoutCrash`: `Spec => []StaleMeansCrash`. The
  invariant `HeartbeatInv` says that a unit that is down or waits for its restart
  executes nothing, so that an activation meets no runner, and that without a crash or a
  failed write a fresh heartbeat belongs to a runner that renews it and has the clearing ahead.
- `TerminalIsRefused`: `BarredSpec => []RefusesTerminal`, if nobody polls and there is no
  reconciler; with a polling client it is false (known counterexamples). The invariant:
  while the stream is barred, the row stays terminal and the runner gets no further than
  the boot, in any number of automatic restarts. It uses `HeartbeatInv`, by which there
  is no runner when the bar comes down.

### Uploads

- `UploadFinalizationProofs!TypeCorrect`, `AssetsWithinLimit`, `ChargeIsCovered`:
  `Spec => []TypeOK`, `[]AssetLimitHolds`, `[]NeverOvercharged`. For the limit the
  invariant says that a session between its count and its commit holds the ASSETS
  lock and has room, as in the admission of streams; cardinalities need the creators
  to be finite. For the bytes it says that a creator that has not
  committed has no asset, so that each commit changes rows and bytes together.
- `OutcomesReported`, `FinalizedOnce`: `[]OutcomeIsReported`, `[]IdempotentUntilFailure`.
  The invariant `DeliveryInv` says, of an upload that no delivery has failed on, that a
  session at work on it holds its ingest row and finds it unfinished, that a
  finalized row names an asset that was made for it, and that no two creators have made
  one; and of a delivery that has answered, that there is an asset or a manifest entry.

### Migrations

- `MigrationsProofs!TypeCorrect`: `Spec => []TypeOK`: the runner is at a statement of a
  file it has, the schema holds objects that files or patches add, and only
  performance indexes can be invalid.
- `ChecksAlwaysAgree`: of the migrations `main` applies, what is in `Verified` is in
  `Status`. It holds in every schema, reachable or not, because the copies differ on 006
  alone (`ChecksAgree`), and because 006 is not in `Listed` (`ListAssumption`). That they
  do differ there is `ChecksDisagreeOn006`.
- `CounterSurvives`: the invariant follows
  one run after `Boot`: none of its pending files is 036, the one file that drops the
  counter.
- `InterruptionsAreMadeGood`: `Spec => []InterruptionIsMadeGood`, for any number of
  interrupted runs. `MadeGoodInv` follows a run through the list: of every migration
  that is not missing, or whose file the run has reached, each object that its
  verification looks for is there or still to come in the file at hand (`Ahead`). A
  statement may drop another file's object only if a later statement of its own file
  brings it back. There is one exception: 019 drops the alert type that 035 adds. It does no
  harm since 019 is missing only when that type is, and 035 comes later in the list;
  that the type is there only with all that 019 adds is part of what holds between runs
  (`SchemaInv`). The rest of `SchemaInv` covers what the status does not ask for: parts
  that are created with their tables, and the first tables of the initial schema.

`MigrationFiles` is data. The proofs look into none of it: they use the assumptions of
`Migrations` and `MigrationFacts`, each a statement about finitely many statements of
finitely many files without a free constant, and TLC evaluates every one of them in the
run `migrations`.

### Schedules and the stream service

- `ScheduleTimesProofs!RecurrenceAdvances`, `WindowIsNotEmpty`: for all lengths of day
  and week, all changes of the clocks, all weekdays. They rest on `Max` and `Min` of
  finite sets, for which a greatest element is found by well-founded induction over
  the subset ordering. `NextDay` says which day `compute_next_repeating_start` finds: the
  first later one on a selected weekday.
- `StreamServiceProofs!LaunchesAreSound`: the invariant says that FFmpeg's command is
  the `CommandPlan` of a content that is `Launchable`; the rest are lemmas on files and
  lists of any length.
- `StreamServiceProofs!TypeCorrect`: it uses that the results of the schedule
  arithmetic are instants.
- `OnceEach`: outside the two commits of a launch the row's next
  start lies after the occurrence launched last; between the start and its commit the
  launcher's copy does; before a stream exists nothing was launched. That `RecordNext`
  keeps this is `RecurrenceAdvances`.
- `NextStartsAreRight`: `Spec => NextStartIsRight`. By `NextDay` the wall time is the
  first one in order of days; `NextTurn` carries it over to instants, where the clocks
  may skip that time (the turn is the first instant after the gap) or show it twice
  (it is the first of the two).

### Playout

- `PlayoutProofs!TypeCorrect`: `Spec => []TypeOK`. That the lists handed to the slot queue
  are lists of assets needs positions to be unique, since the code orders by them.
- `PositionsAreUnique`: `UniqueInv`, the unique indexes on position and on asset: they
  hold of what is committed and of what each open transaction sees.
- `ReplacementsDoNotMix`: `Spec => []OneEditWins`. The invariant `ListInv` says that until
  a deletion commits the collection has a first row and the rows of one list only
  (enqueued rows apart), and that a transaction that has written its own list deletes
  all of them. Two overlapping transactions cannot both have written a list, for both
  lists have a first position (`OneWriter`), and one that saw a row of a list saw the whole list
  (`SeenTogether`).
- `DeletionsNoticeDepletion`: `Spec => DepletionNoticed`. One deletion at a time is
  between its charge and its commit (`OneCharge`), and what its audit found left in the
  collection stays until then (`AuditInv`).
- `EnqueuesCommit`: `Spec => QueuedIsCommitted`.

Any number of requests, assets, slots and launches; sets of rows are finite.

### Only model-checked

The liveness properties, because fairness and ENABLED are beyond the prover:
`StopReturns`, `CrashSurfaces`, `SessionsFinish`, `DownIsReported`, `LiveIsConfirmed`,
`LiveIsReported`, `RefusalEndsLoop`, `SessionsEnd`, `FailedProbeHeals`, `RequestsEnd`,
`RotationRecurs`, `RecurrenceGoesOn`. Facts by induction over data
and recursive operators are beyond the prover as well; none is used.

## 5. Not modelled

`PROJECT.json` lists every component with the reason. In short: the text of playlists
and commands, single-request edits, authentication, calls of YouTube, metrics,
deployment and the frontend have little or no interleaving of their own.

Assumptions that join the models: `FFmpegManager` assumes that its database
statements return, which `StreamService` refutes for stops in manager mode; its
`StopReturns` is about the manager alone. `StartAdmission` is about systemd mode.

Behaviour seen while modelling that no property is about:

- *Runtime.* `wait_for_exit` may take an automatic restart for the end
  (`ffmpeg_manager.py:542`); elapsed time is added at every exit from one start
  (`ffmpeg_manager.py:1851`); `restart_stream` checks no quota (`control.py:355`); in
  manager mode a row left running by a crash is not reconciled
  (`stream_reconciler.py:114`); the rollback runbook's `scheduler_paused` is read by no
  code (`src/docs/runbooks/stream_runtime_rollback.md:63`).
- *Stream service.* A stop time that was not reached stops the stream's next start
  (`scheduler.py:153`); a user's stop of a recurring stream is undone at the next poll
  while its window is open (`scheduler.py:120`); a schedule update may write "stopped"
  over a stream that has just started (`service.py:315`); a start that commits after a
  deletion leaves FFmpeg without a row (`control.py:267`); an audio-only stream without
  a video list never starts (`helpers.py:179`); an occurrence moved out of the skipped
  hour stays moved (`stream_schedule.py:101`).
- *Launch checks.* A frame rate that was not found passes the gate
  (`quota_quality.py:387`); a failed analysis of key frames skips their check
  (`validator.py:149`); copied sound of an audio list may mix sample rates
  (`playlist_builder.py:768`). `LaunchIsSound` is stated around them: it speaks of the
  key frames that were found, and of sample rates in video lists.
- *Uploads.* Two overlapping deletions of one asset refund it twice; two assets may
  share a file; a failed finalization leaves its file on disk uncounted; `max_assets`
  of 0 means "no limit" before an upload and "none" after it.
- *Playout.* The first enqueue overwrites the slot on air; a forced deletion leaves the
  asset in the running queue; an enqueue or a hot swap passes by the launch checks
  (`service.py:647`); a shuffled queue ends its own playhead task (`hot_swap.py:145`);
  an automatic restart registers a stream again without stopping its old queues
  (`hot_swap.py:274`); a restart with another list runs before that list is committed
  (`service.py:541`).
- *Migrations.* `verify_migration` takes any policy named `users_can_...`, on any table, for
  migration 006 (`apply_migrations.py:777`), the status only the one on `assets` (146), and
  for 003 it wants rows the status does not ask for (708); neither is applied by `main`.
  A file interrupted after the objects its check looks at is counted as
  applied without its tail (004, 005, 013, 015, 017); an exception during the status
  ends the script with code 0 (`apply_migrations.py:1647`), and the entrypoint starts
  the server; a crash inside the initial schema is never made good; an index left
  invalid keeps 018 pending.

## 6. Plan

Done, as described above: the manager, the admission with its refinement, the systemd
runtime, uploads and their quotas, migrations, playout, the stream service with the
scheduler's recurrence and the launch checks. Next, in order of importance:

1. The runner composed with the manager: signals during a launch, `wait_for_exit`
   against an automatic restart, the two writers of the terminal status, durations
   counted once. An abstract specification of a stream's life (down, launching,
   live) for `StreamService` and `SystemdRuntime` both to implement.
2. `Playout` with the audio target and with the double registration of an automatic
   restart.
3. Sliding windows of the rate limiter and of the runtime signals; the daily limit of
   streaming time.

Proofs to come: the safety part of the liveness properties (which locks a waiting session
may hold, so that no two wait for each other); an abstract life of a stream, once there is
one, and that the services implement it.
