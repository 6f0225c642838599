# FTW: a TLA+ verification of the control core

FTW is a local-first home energy management system. One Go process (Core, `go/cmd/ftw`)
polls devices through Lua drivers, keeps telemetry and state, plans and dispatches
battery, solar and EV power, and serves an API; a small launcher (`go/cmd/ftw-launcher`)
chooses the installed release that runs as Core. This directory models the parts that
are concurrent, persistent or fault tolerant, checks them with TLC on small instances
and proves the safety of each of them with TLAPS for every instance.

Paths below are relative to `go/` of the repository.

## Inventory

| Component | State it keeps | Operations | Interacts with | What is hard | Correct when |
|---|---|---|---|---|---|
| **Driver actor** `internal/drivers/registry.go`, `registry_spawn_retry.go` | one `runningDriver` per name (control window, epoch, pending recovery, wallbox cycle, command and default queues); per name a lifecycle gate, the recovery gate and spawn retries | `Send*`, `SendDefault`, `Add`, `Remove`, `Restart`, `Reload`, spawn retry, `ShutdownAll`, the run loop | control tick, API and loadpoint controller call it; it calls the Lua runtime and reports telemetry health | callers, loop and lifecycle race; commands time out half done; defaults fail | no command from before a confirmed default reaches the device after it; a device that may be forced always has somebody trying to release it; status never claims a default that is not true |
| **Control-state writes** `internal/state/control_writes.go` | cache, a job per group, rejections, order, sequence | `SaveConfigGroup`, `LoadConfig`, `GroupStatus`, `CommittedConfig`, worker, `Flush`, `Close` | loadpoint manager and control state call it; it writes SQLite | newer intents arrive while an older one is written; failing disk, shutdown, crash | what is acknowledged or restored is on disk; no older intent overwrites a newer one |
| **Release slots** `internal/nativeupdate`, `cmd/ftw-launcher`, `cmd/ftw/native_update.go` | `slots.json` (`Current`, `Previous`, `Next`, `Trial`, `LastFailed`, probation), the clean-exit mark, the releases on disk | prepare, select, commit, fail, cancel, roll back, install, prune, probation | launcher and Core are two programs over one locked file; systemd restarts them | a crash between any two steps of an update | the box always starts a complete release that reads its data, and every update is decided |
| **Control tick safety** `cmd/ftw/driver_failure_default.go`, `site_dispatch_safety.go`, `tick_supervisor.go`, `internal/telemetry/store.go` | driver health, refusal counts, exclusions, which drivers were defaulted in this episode | watchdog scan, actuation tracker, stale-site tracker, supervisor | driver actor through `SendDefault` | three sources of defaults and a stalled tick | each failed or blocked driver is defaulted once per episode, and recovers |
| **History writer** `internal/state/history_writer.go` | bounded queue, held ticks, commit receipts, archive boundary | enqueue, commit, retry, flush, close | telemetry, SQLite | queue at its limit; commits with unknown outcome | an accepted tick is stored once, a refused one is reported |
| **Loadpoint holds** `internal/loadpoint` | session, manual hold and its saved records (and, not modelled, boost lease, phases) | observe, hold, save, bind, restore | driver actor, control-state writes | restart between a choice and its proof | a restart never restores power the owner took back |
| Planner `internal/mpc` | plan, its age, optimizer health | replan, fallback | optimizer worker | late or missing plans | a plan in use is fresh or its fallback is |
| **App enrolment** `internal/appenroll` | authorised keys, roles, the pairing code | mint, check, commit, revoke | app uplink, cloud link | check and commit are two steps | a code admits one phone; there is always an owner |
| **Cloud link** `internal/cloudlink` | roster number, grant, revocation | send, acknowledge, reconnect | FTW Cloud | lost and repeated messages | the newest roster wins; a revoked copy is deleted |
| **Driver repository** `internal/driverrepo` | installed artifacts, active record, symlink, pins | install, activate, roll back, reconcile | SQLite, file system | crash between record and symlink | record and symlink agree after a start |
| OCPP server, backup, notifications, dispatch, forecasts, prices, API, protocols, web | sessions, files, numbers, views | I/O and computation | all | numerics and I/O rather than coordination | outside this project; see *Not modelled* |

Control flows in one direction: the control tick decides, the driver actor applies,
the device answers. State chosen by the owner goes through the control-state writes
before it is acknowledged. The release slots decide which program does all of this.
Components in bold are modelled.

The hazards of this code, each at its line and with the properties that would catch it
going wrong, are listed in `PROJECT.json`. Every one of them has a property.

## Modules

| Module | Models |
|---|---|
| `DriverActor` | one driver name: run loop, callers, lifecycle, shutdown |
| `DriverActorProofs` | its inductive invariant and theorems |
| `MCDriverActor` | its TLC instances |
| `ControlWrites` | the write-behind store of control state |
| `ControlWritesProofs` | its inductive invariant and theorems |
| `MCControlWrites` | its TLC instances |
| `ReleaseSlots` | release slots, launcher, Core's trial, update requests |
| `ReleaseSlotsProofs` | its inductive invariant and theorems |
| `MCReleaseSlots` | its TLC instances |
| `HistoryLog` | what the history writer promises: each accepted tick stored once, in order |
| `HistoryWriter` | the history writer; implements `HistoryLog` |
| `HistoryWriterProofs` | its inductive invariant and theorems, the refinement of `HistoryLog` among them |
| `MCHistoryWriter` | its TLC instance |
| `ControlTick` | health, exclusion, stale-site defaults and supervision in the control tick |
| `ControlTickProofs` | its inductive invariant and theorems |
| `MCControlTick` | its TLC instance |
| `DriverRepository` | the selection of a managed driver over failures and restarts |
| `DriverRepositoryProofs` | its inductive invariant and theorems |
| `MCDriverRepository` | its TLC instance |
| `AppRoster` | paired phones and watches, and the roster of them at FTW Cloud |
| `AppRosterProofs` | its inductive invariant and theorems |
| `MCAppRoster` | its TLC instances |
| `ManualHold` | Charge now and Pause of a loadpoint, over the promises of `ControlWrites` |
| `ManualHoldProofs` | its inductive invariant and theorems |
| `MCManualHold` | its TLC instances |

### DriverActor

The registry keeps at most one run loop per name alive: `removeLocked` waits for the old
loop's `done` before it releases the gate. One set of variables therefore stands for the
current `runningDriver`; a caller that still holds an older one (`callGen # gen`,
`dfltGen # gen`) touches only fields nobody reads any more.

* *Callers.* A `Send` is `FindDriver` (registry lookup), `ReadEpoch` (`commandEpoch`),
  `Enqueue` (into `cmdCh`), and at any time `CallerTimesOut`. A `SendDefault` is
  `SendDefault`, `CloseControlWindow`, `CancelActiveCommand`, `EnqueueDefault` or
  `WaitForRoom` and giving up: each lock release of the code is a step boundary.
* *Run loop.* `pc` is the place in `runLoop`: the default check at the top, the `select`
  with poll, command, default, recovery timer and stop, a command between the first
  check, the cancel hook and the second check, the device call, and the shutdown default.
* *Lifecycle.* `gate` is the holder of the per-name gate: `Remove`, `SignalStop`,
  `FinishRemove`, `Add`, `StartFails`, `Register`, the spawn retry and `ShutdownAll`.
  `Reload` and `Restart` are a removal that goes on to an add (`andThen`).
* *Device.* `device` is what the device was last told as far as FTW can know; a command
  that fails may have been applied. `driver_default_mode` succeeds or fails freely.
* *History.* `stale`, `resumable` and `handed` exist for the properties only.

### ControlWrites

Every operation holds `w.mu` throughout except the worker's disk write and `Flush`'s
wait. So a save, the worker's `Take`, its `Commit` or `WriteFails`, each look of a
`Flush` and the start of `Close` are one action each, and `DiskWrite` is a step of its
own between `Take` and `Commit`. The values of an intent are a function from some keys to
values. Byte and count limits are one buffer limit over abstract sizes plus the job
limit. A crash clears the memory, keeps `disk` and reloads the cache from it.

### ReleaseSlots

`slots.json` is replaced by one rename under a file lock, so each change of it is one
action. `pc` is the one process that systemd keeps: the launcher (`down`, `chosen`,
`exec`, `execFailed`, `again`), then Core (`starting`, `running`, `committed`, `up`).
`Select` is two steps under the same lock, because it writes the file twice and can be
killed in between: `SelectAfterTrial`, `SelectNext` or `SelectCurrent` (with
`WatchProbation`), then `ChooseRelease` (with the fallback to the previous release).
`ExecFails`, `FailTrial` and the state `again` are the second attempt of `launch`.
`BeginNativeTrial`, `FirstTick`, `Commit`, `PruneAfterCommit` and `TrialTimesOut` are
Core's part; `HandleVersionUpdate` to `CancelPrepared` are the update and rollback
requests, with a boundary wherever the code releases the lock (`CheckTarget` looks at
the candidate before `Prepare` takes it).

A release on disk is absent, sound, damaged (its receipt is readable) or broken.
`Crash` ends the process at any step; `Damage` is loss of files outside FTW; a prune may
be cut off with a release half removed. Times are abstract: `CrashesAge` lets recorded
crashes leave `crashWindow` and the probation end at any moment. Of the crash list only
the newest `CrashLimit` entries are kept, because only reaching the limit has an effect.

### HistoryWriter and HistoryLog

A tick is its admission number, with a size and the archive interval of its oldest
sample. The control loop's admission (`EnqueueTelemetryTick`) reserves room under the lock and sends;
the `run` goroutine takes ticks, holds them until the commit interval passes, the batch
is full or a flush is due, and commits a prefix of at most `maxAttempt` of them. It looks
at the flush target once per turn (`pc = "idle"`) and then blocks (`"wait"`), from where
only a tick, the flush token, the timer or the end wakes it: without a token that the
channel keeps, a target raised in between is a lost wake-up. A commit succeeds, fails any
number of times, or is interrupted with an unknown outcome: the transaction may be on
disk although nobody was told. The next attempt is half as long, and the receipts tell it
which ticks are stored already. `FlushHistory`, `close` with its cancellation, the
archiver's reservation of a boundary and a power cut interleave with all of it.
`HistoryLog` has only the log, the accepted ticks that wait, and restarts; `ExactlyOnce`
is the statement that `HistoryWriter` implements it with `waiting` the ticks in the
queue and in hand that are not on disk.

### ControlTick

One tick passes the phases `pc`: the watchdog scan and the tracker's `update`, the
freshness gate, then the commands in `todo`, or, behind a closed gate, the 0 W that
`standDownBeforeStorage` sends the connected chargers in `stops`, after their default and
in every blocked tick. Polls, restarts of a driver, faults a driver
flags itself, changes of the site meter and outcomes that a driver's actor files later
(`late`) come between the phases, and the tick may hang anywhere; the supervisor then
sends the defaults and ends the process. Time is what the code compares it with: `aged`
(the last good read is past the watchdog timeout), `due` and `trial` (the retry interval
has passed). `told` (what a tick last sent a driver: its default, 0 W or a command),
`outage` and `steady` are observed for the properties.

### DriverRepository

Five durable records say which version of a driver is selected: the active row in SQLite,
the links `active/` and `effective/`, the pin that keeps an owner's older choice, and the
pin it replaced. Install, switch, rollback and the return to the release's own driver are
sequences of single durable writes; each write is a step that may fail, is then undone
as the handler undoes it, and may be the last before the process stops. The start-up
(reconcile, drop a lost row, retire old packages, apply the release's own drivers,
migrate replaced ones, save the configuration) is made of such steps too. `torn` marks a
failed write the code goes on without; `before`, `result` and `wanted` (the version the
owner went back to) are observed. `wanted` ends when the owner moves on, asks for the
release's own copy or loses the file, when a release replaces the driver, when start-up
drops the row (its file lost, or the write that follows the link failing), and at a stop
after which the code no longer has the choice: `MovedOn`, where the version asked for
last is in place and its recovery has not put the older one back, `PinNotSaved`
(see *Findings*), and a failed write passed over.

### AppRoster

`rows` and `disk` are the enrolled devices in memory and in the file, `code` the pairing
code, `offered` the handshakes that were checked and not yet committed. A request holds
the mutex for its change and its save, and then goes on without it to tell the cloud
link: each of these parts is a step of its `job`. The sender of the link builds a
numbered roster, sends it and reads receipts; a link nobody needs ends with the deletion
of its home. The service (`svc`, the messages on the way) is external and modelled from
how the sender uses it. Lost connections, failed saves and restarts interleave.
`spent`, `gone` and `emptied` are observed.

### ManualHold

A tick reads the charger, starts or ends the unplug grace, rebinds the hold to what the
reading proves, restores a saved hold after a restart, drops one whose session ended, and
dispatches. Between ticks and their phases the owner chooses (start, pause, clear, or a
timed hold with power or of 0 W), cars come and go, sockets reconnect, proofs are lost, the
configuration moves the loadpoint to another charger, saves are refused and the process
restarts. The charger and its cars are external. The store is used by what `ControlWrites` promises: one unwritten intent per
group, written as a whole, its keys hidden until then. When another session, charger or
configuration is proven, a hold with power becomes a pause and a hold of 0 W stays as it
is, timed or not; a pause is saved in either case (`PausesChanged`). `want` (the choice in
force; a timed hold is one for the plan), `kept` (the one a restart would find), `stray` (a
pause was saved beside a timed hold of 0 W) and `proven` (charger and session a start was
carried out for) are observed. Any hold may end at a charge level, also one without such
a level in the code.

## Runs

| Run | Instance | What it shows |
|---|---|---|
| `actor_commands` | the pause and resume of a wallbox cycle, 2 `SendDefault`, queue of 1, 2 generations, 1 refused default | No command issued before a confirmed default runs after it; commands run only after the device confirmed its default in this generation, and one in a closed window is canceled; a published `DefaultConfirmed` is true; a wallbox resume runs only while its own pause is the last thing the charger was told |
| `actor_lifecycle` | 1 command, 1 `SendDefault`, 2 generations, 1 refused default, fair | A blocked generation always has a recovery on its way and a device left forced keeps the gate its replacement inherits; after `ShutdownAll` nothing runs or will; a blocked driver is released in the end and `ShutdownAll` returns |
| `writes_durable` | 2 groups that share a key, 2 saves, 1 failure, 1 crash, fair | A `Flush` that returns nil acknowledges only what is on disk; what readers see, or is called committed, is on disk; a key's committed sequence only grows; accepted intents are written, `Flush` and `Close` return |
| `writes_refused` | small buffer, 3 saves | *violation*, see Findings |
| `slots_live` | 3 releases, the newest of another schema, crash limit 2, 1 damaged at a time, fair | The release that runs reads the data; what the box may start is complete and has been ready; slots and clean-exit marks speak of the process that runs; only a crash loop undoes a commit and a fallback runs once; every update is decided; once faults cease the box runs a control loop again, unless no release is left to start |
| `history_exact` | 3 ticks of two sizes, queue of 2 ticks and 3 bytes, commits of 2, any number of failed commits and 1 of unknown outcome, 1 crash, 1 flusher, fair | The writer implements `HistoryLog`; its counters are those of the ticks it holds; a flush or a clean close tells the truth; the archiver never passes a waiting tick; no flush is lost on a goroutine that blocks, and a close ends on a dead disk |
| `tick_exclusion` | 1 driver, also a charger, with a battery command and a late EV command, 2 meters, refusal limit 2, 2 events, fair | Behind a closed gate the last a driver was sent is its default, or a charger's 0 W after it; an excluded driver has been sent its default and no 0 W since; every exclusion has its record, ends early only after an outage, and ends |
| `repo_selection` | 4 versions, 1 retired, releases without a driver of their own, with one of two ages, and one that replaces it, 3 operations, 2 stops, 1 fault | Row, links and what runs agree again after any failure or stop; nothing damaged or retired runs; an older version the owner chose stays, also after an operation that failed or was cut off, with the exceptions named under DriverRepository; a failed update restores what was there |
| `roster_enrol` | 2 phones, 1 watch, 2 requests at a time, 3 changes, 1 loss, 1 failed save | One code enrols one phone; there is an owner, and no watch without its phone; what was removed stays removed |
| `roster_link` | 1 phone, 1 request at a time, 2 changes, 1 loss, fair | A home on the screen is not ended; no change is forgotten; the service ends with the newest roster, or without the home when nothing needs the link |
| `hold_restart` | 2 chargers with sockets, 2 cars, 2 events | The hold is the owner's last choice; manual power stays with the charger and session it was proven for; the saved choice is read only when settled, and an unsaved one, or the pause saved beside a timed hold of 0 W, is on its way |
| `hold_session` | 1 charger without sockets, 2 cars, 2 events | *violation*, see Findings |

A property that is a conjunction of named parts (`ReadersSeeTheDisk`, `LinkSettles`, ...)
has each part defined, with its comment, before it. The type invariants are such parts
except in `DriverActor`, where it is checked by itself.

**Bounds.** `MaxGen`, `MaxFail`, `MaxSeq`, `MaxCrash`, `MaxDamage`, `MaxTick`, `MaxOps`,
`MaxStops`, `MaxFaults`, `MaxFault`, `MaxLoss`, `MaxCar` and `MaxEvents` bound counters;
every call of an actor is made at most once. Two commands against two defaults give every
order of epoch reads, queueing and confirmation, and fill the one-slot queue of defaults;
the liveness run has a plain command and one default. Commands of different callers that
overlap, and an operator's command between a pause and its resume, are left to the
theorems, which hold for any calls. Two generations give an inheritance of the recovery gate; a
third inherits from the second as the second from the first. In ControlWrites two groups
with one shared key give an overlap, a replacement with other keys and a requeue behind
another group; two sequence numbers are an intent on its way to disk and a newer one. In
ReleaseSlots three releases fill `Current`, `Previous` and `Next` or `LastFailed` at
once; a crash limit of two tells one crash from a loop as the code's three does, and one
damaged release at a time is what the fallback is for. Three ticks are a batch of two
that is halved after an unknown outcome, and one that finds the queue full until a part
of the batch is committed. Two actions of one driver, one of them late,
are what the tracker's shared exclusion needs; its records do not look at other drivers.
Three operations on a driver are a selection, an operation that fails, and one on what it
left; two stops let a start-up be cut off. Two phones and a watch give a second claimant
to a code and a dependent of the first. One plug-in before and one after a restart are
what session proofs tell apart. The theorems below hold without these bounds.
`CHECK_DEADLOCK FALSE` is set where the instance ends when its bounded calls and events
are spent; the release slots never stop, and deadlock is checked.

**Fairness.** DriverActor: a goroutine that can run does (weak fairness of the loop, of a
started `SendDefault`, of the gate holder and of `ShutdownAll`); Go's `select` picks among
ready cases at random, so a recovery timer or a stop signal that is ready again and again
is taken (strong fairness). Callers, polls and the device owe nothing except that
refusals are finite. ControlWrites: the worker runs and a disk write ends, a notified
`Flush` looks again, `Close` goes on to its `Flush`; failures are finite. ReleaseSlots:
`deploy/ftw-native.service` has `Restart=always`; a Core that started reaches its first
tick or, as a trial, its six-hour deadline; the control loop takes the restart a request
asked for. `ComesBack` assumes in addition, in its own formula, that faults and stops from
outside cease. HistoryWriter: the `run` goroutine and started `FlushHistory` and `close`
calls go on, a commit ends within its timeout, the retry timer and the budget of `close`
run out; commits may fail for ever and the commit interval need not pass. `FlushCompletes`
assumes in its own formula that failures without end have successes between them.
ControlTick: the clock advances, so a tick ends or the supervisor finds it stalled and
ends the process, and the retry interval passes; nothing is assumed of polls, drivers or
the tick itself. AppRoster: each goroutine goes on, a code runs out, the renewal of the
connection after six hours comes, the service reads what arrives; nobody has to pair and
no connection has to break.

Every property of a passing run has a variant of the model, kept next to the definition
it would replace and marked as faulty, under which TLC finds the property violated; a
property of several parts has one for each part but its types.

## Findings

1. **A refusal can be forgotten** (`writes_refused`). The commit of an older intent
   deletes the rejection record of a newer, refused save of the group
   (`internal/state/control_writes.go:273`); `Flush` then returns nil for it, which
   `control_writes_test.go:226` calls "falsely acknowledged".
2. **A restart can give one car's Charge now to the next** (`hold_session`). The record
   takes the session of the latest reading, or none
   (`internal/loadpoint/manual_hold_state.go:94`): a start carried out for a session is
   saved again without it when the next reading names only the charger, and a committed
   record never gets the session later. Restoring then checks the hardware alone (`:232`).
   `controller_hold_restart_test.go:103` says another session "must not inherit the earlier
   Charge now", and `manual_hold_state.go:27` that a start "cannot grant positive power
   after restart without matching session proof".

Places where code and text disagree, or where the code's behaviour is surprising, that the
models contain and no run is about:

* An `observe_only` replacement of a driver whose shutdown default failed inherits the
  recovery gate (`internal/drivers/registry.go:857`) and calls `driver_default_mode`;
  `cmd/ftw/driver_failure_default.go:300` says such a driver "must receive no command at
  all, and that includes the safe one".
* A failed release can be installed again unattended: the slots remember one failure and a
  later `Prepare` clears it (`internal/nativeupdate/slots.go:140`), against
  `internal/api/api_selfupdate.go:137`.
* A clean stop can count as a crash when a trial cannot be executed and the launcher
  selects twice in one launch (`internal/nativeupdate/probation.go:100`, against `:40`).
  `FallbackNeedsACrashLoop` therefore counts failed starts with unclean stops.
* After the first `FlushHistory` (a full backup, `internal/state/history_sqlite.go:592`)
  the flush target stays above zero, and every later tick commits alone
  (`history_writer.go:363`) instead of in 15-second batches (`CHANGELOG.md:1282`).
* A driver restarted between two ticks can stay excluded without a fault:
  `driver_failure_default.go:317` starts its record over only when health is gone, and
  `internal/drivers/registry.go:874` has filed a new one by then.
* `MigrateReplaced` ends the selection (`internal/driverrepo/replaces.go:71`) before the
  configuration that names the replacing driver is saved (`cmd/ftw/main.go:582`).
* Re-installing the active version makes it its own predecessor; after a failed rename the
  old row is active again with the failed artifact as its predecessor; the recovery of
  `UseBundled` can pin a version the owner had not pinned.
* It can also lose the owner's pin. A failed return to the release's own driver is recovered
  through `ActivateInstalled`, whose `recordChoice` pins the old version only when it is
  older than the release's own (`internal/driverrepo/manager.go:1007`). A version the owner
  had gone back to that is not older comes back unpinned, and a later release with a
  newer copy runs in its place, although going back is "a choice that stays across Core updates" (`:993`).
  The attempt to prove `GoingBackStays` showed this; the property therefore follows a
  choice until the owner asks for the release's own copy.
* A stop can lose the owner's pin too. `Rollback`, which recovers an install or a switch
  that did not start, renames the link back (`internal/driverrepo/manager.go:680`) and only
  then saves the pin of the version it put back (`:684`, `restoreChoice`). After a stop in
  between, start-up finds the link and keeps the selection, but no pin: a release with a
  newer copy runs in place of the version the owner had gone back to, against "a choice
  that stays across Core updates" (`:993`); a stop between the two saves of `savePin`
  (`:1036`) also loses the previous pin. `GoingBackStays` and `ChoicesStay` leave this stop
  out (`PinNotSaved`); without that exception TLC finds the property violated in
  `repo_selection`, in 30 states.
* A timed hold of 0 W can leave a pause behind. When another session or charger is proven,
  `restoreManualHoldForSession` replaces the hold only when it has power
  (`internal/loadpoint/controller_hold_restore.go:104`) and saves a pause in any case
  (`:112`). The timed hold ends and the plan runs; a clear then finds no hold and saves
  nothing (`controller.go:1118`), so the next restart pauses the charger although the owner
  asked for no pause. `controller.go:1067` says a timed hold writes the "cleared" sentinel
  "so a stale persistent hold isn't resurrected". `UnsavedIsPending` therefore speaks of `Due`,
  which is that pause until the next choice that is saved, and `HoldIsTheChoice` of the
  saved choice after a restart.
* `rosterNumber` uses the next number also when storing it failed
  (`internal/cloudlink/sender.go:762`); a roster that returns to the stored content carries
  the lower number, the service ignores it, and it waits for the next connection. With a
  failing write in its instance `roster_link` would violate `NoChangeIsForgotten`; the run
  has none and the theorem `ChangesAreSent` assumes none.
* A code burned between the link's decision and the sender's snapshot leaves an idle link
  until the six-hour renewal.
* `rebindAfterUnplug` clears a choice made after its own decision as well
  (`controller_hold_restore.go:197`), and loading a configuration with another driver name
  drops `manualRestoreUnconfirmed` (`loadpoint.go:684`).
* The record of an earlier charger is not retired when a loadpoint moves, which is why
  `HoldIsTheChoice` and `UnsavedIsPending` speak of a loadpoint that has records of one
  charger.

## Proofs

`DriverActorProofs` proves, from `DriverActorAssumption` alone (types of the bounds, a
queue of at least one slot, the null values outside their sets) and for every set of
calls, defaults and cycles and every bound:

* `Inductive`: the invariant `IInv` holds always;
* from it the properties of the runs: `TypeCorrect`, `StaleCommandsNeverRun`,
  `WindowReachesRunningCommand`, `CommandsFollowAConfirmedDefault`,
  `ConfirmedStatusIsTrue`, `BlockedNeverStranded`, `ForcedNamesStayGated`,
  `ResumesFollowTheirPause` and `NothingRunsAfterShutdown`, and from these
  `AdmissionIsSafe` and `SomebodyReleases` for the properties of two parts.

None of these is inductive alone. The strengthening says: where the gate holder, the
registration and the loop stand relative to each other (`IGate`), how far `ShutdownAll`
is (`IShutdown`), that queued and running commands belong to this generation and occur
once (`IQueue`, `ICur`), what generation and epoch a call can hold (`ICalls`,
`IDefaults`), that a stale call has an epoch the loop no longer admits (`IStale`: this is
what makes the epoch test enough), that an unconfirmed generation is blocked (`IHanded`),
that an observe-only loop only works off an inherited gate (`IObserve`), what a stopped
loop leaves to `FinishRemove` (`IStopped`) and that a pending pause is still resumable
(`IResume`). The proof has one step per action under each conjunct the action can disturb.

`ReleaseSlotsProofs` proves, from `ReleaseSlotsAssumption` (tags are positive numbers,
schemas positive, the crash limit at least one) and for any set of releases:
`SlotsInductive`, and from it `SlotsTypeCorrect`, `DataStaysReadable`,
`NoUntriedReleaseIsKept`, `StartableReleasesStayComplete`, `PreflightNeverRefuses`,
`MarksAreTakenOnce`, the action properties `ProbationNeedsACrashLoop` and
`OneFallbackAttempt`, and for the properties made of these parts `KeptReleasesStart`,
`RecordsNameTheProcess` and `FallbackHasACause`. The strengthening: the slots name different releases and at most
one is pending (`ISlots`), process and slots agree at every launcher step (`IProcess`),
all startable releases share the schema of the data (`ISchema`; the schema check of
`Prepare` is enough only because every later transition stays among those releases),
each recorded crash has a failed start or unclean stop behind it (`ICrashes`), and after
a fallback the previous release is on trial or marked (`IFellBack`).

`ControlWritesProofs` proves `FlushSafe`, `ReadersSafe` and the action property
`CommitsGrow` from `ControlWritesAssumption` (finitely many keys and groups, saves of
known groups, null values outside their sets). What makes them inductive: the worker's
locals belong to a queued job (`IWorker`), groups wait once each (`IOrder`), a job's
unwritten sequences lie between what is on disk and the newest (`ISeqs`), jobs and the
intent in flight share no key (`IDisjoint`) and are newer than what is committed
(`INewer`), the disk is ahead of the cache by the intent just written and no more
(`IDisk`), a group without a job has its last intent on disk unless a newer one took the
key over (`ILatest`), and what a `Flush` waits for is in a job or on disk (`IWant`).

`HistoryWriterProofs` proves `QueueSafe`, `AcknowledgedSafe`, `ArchiveSafe` and
`ImplementsLog`, from `HistoryAssumption` (limits above zero, a size and a time per
tick). `IOpen` says that the ticks in hand and in the queue are the consecutive numbers
after the last reported one and that the byte counter is the sum of their sizes; `ILog`
that the log is in order, ends among the ticks in hand and keeps a receipt for what it
holds unreported; `IRun`, `IPromise` and `ICut` what the goroutine, the acknowledgements
and the archiver rely on. Sums and the filtered queue are recursive functions; their
lemmas (`TotalAdd`, `TotalUnion`, `WithoutPrefix`) are proved from a least counterexample
(`NatMin`), which needs no induction theorem. `ImplementsLog` maps every step of the
writer to a step of `HistoryLog` or a stutter.

`ControlTickProofs` proves `FaultsAreTracked`, `GateReleases` and the action property
`ExclusionsAreSafe`, from `TickAssumption` (a refusal limit of at least two, as in the
code). Its invariant speaks of one driver at a time: health exists for registered drivers
only (`IKnown`), an exclusion has its record at the limit (`IRecord`), what counts as an
outage was one (`IOutage`), a latched driver was sent nothing since its default
(`ILatch`), what a driver was sent last (`ITold`: no command behind a closed gate, where a
charger may have got 0 W after its default), and what the phases of a tick leave to the
next (`IPhase`).

`DriverRepositoryProofs` proves `RecordsStayInAgreement`, `RunningIsSound`, `ChoicesStay`
and the action property `FailuresRestore`, from `RepositoryAssumption` (versions are
positive numbers). The steps and the operation they belong to (`IKind`, `IPhase`), row
and link against the files (`ILink`) and the place of the owner's choice (`IWanted`) hold
always; as long as no failed write was passed over (`Calm`), so do agreement (`IAgree`),
soundness (`ISound`), what held when the operation began (`IBefore`), what a change keeps
for its recovery (`IForward`: the previous row and pin) and what recovery has put back
(`IBack`). The last two are what carries `FailedUpdateRestores` over a dozen single writes.

`AppRosterProofs` proves `RosterSafe`, `CodesAreSpentOnce`, `RemovalsStay`,
`ShownHomesStay` and `ChangesAreSent`, from `RosterAssumption` and
`HouseholdAssumption` (a box starts from a file it wrote: watches have their phones and a
box with phones has an owner). Memory and disk both hold a household (`IRows`), codes are
numbered upwards and a spent one is not live (`ICodes`), a sender that has decided to end
the link has seen no home on the screen (`IShown`), messages exist only on a connection
(`IQueue`); without failed writes the roster numbers rise from the service along the
messages to the stored one (`INumbers`) and a change is with its request, due, waiting for
a timer, or sent (`IChange`). `ChangesAreSent` has the hypothesis `used.fault = 0`, because
without it the statement is false (see *Findings*).

`ManualHoldProofs` proves `RecordsSettle`, `ChoicesAreFollowed` and
`StartsStayWithTheirSession`, from `HoldAssumption` (finitely many chargers, at least
one). Marker, binding and legacy key on disk together say what was committed last
(`IKept`); before the restore nothing else is on its way (`IRead`); what a restart should
find (`Due`: the choice in force, or the pause saved beside a timed hold of 0 W) is saved
or on its way (`ISaved`) and the hold follows the choice in force (`IChoice`), both for a
loadpoint with records of one charger (`Single`, derived from the cardinality the
properties use); a session comes with an identity (`IProof`), the hold is bound to what was
proven of its start (`IBound`), and a dispatch happens under the proof the hold is bound to
(`ISends`).

TLC finds each of these inductive invariants to hold on the instances of the runs, too.

The theorems state every safety invariant and action property of the passing runs and the
refinement of `HistoryLog`. Only model-checked are the liveness properties
(`ActorMakesProgress`, `WritesComplete`, `UpdateIsDecided`, `ComesBack`, `WaitersReturn`,
`ExclusionEnds`, `LinkSettles`), because fairness is out of the prover's reach, and
`NoChangeIsForgotten` after a failed write, where it does not hold. The two violations are
counterexamples and stay with TLC.

## Not modelled, and why

* In the driver actor: driver probes (they use their own registry), setup measurement mode
  (fixed for a process), logging and counters. The HTTP server is drained before
  `ShutdownAll`, so no new lifecycle request arrives after it.
* In the release slots: the saved update status and its texts, release checks and downloads
  over HTTP, archive contents, disk space and file ownership, and a clean-exit mark whose
  removal fails (`internal/nativeupdate/probation.go:75` ignores the error).
* In the history writer: checkpoint maintenance, validation of samples, the rows of a tick,
  a commit interval of zero.
* In the control tick: watts, battery hold, curtail release and the operator's setpoints,
  none of which files an outcome with the tracker; the wallbox cycle and the wake of a
  vehicle, which goroutines of their own send (the cycle's fence is in `DriverActor`); OCPP
  chargers, which are not drivers of the registry and get no default.
* In the driver repository: manifests, signatures, channels, compatibility and a driver's
  runtime policy; an artifact is verified or its install never starts.
* In enrolment and the cloud link: agents and invites, watch codes, sessions and approval
  keys, the readable copy and its grant, readings, the tunnel, backoff, and failures of the
  link record's own write.
* In the loadpoints: charge level and energy, save-error flags, boost, offers, phases,
  surplus and plan dispatch, the shutdown flush.
* SQLite transactions and file renames are atomic everywhere.
* Dispatch, the planner's optimisation, forecasts, prices and device models are
  floating-point computation over large arrays.
* Protocol adapters, the API and the web interface are I/O over the other components.
* Keys, signatures and their checks are cryptography.
* The planner's fallback, OCPP sessions, battery return and restore of a backup have
  coordination worth a module and are in the plan.

Most of the repository's lines are of the kinds above: numerics, I/O, protocol, presentation
and tests. The modules cover the state machines whose failure a test would hardly reach.

## Plan

1. An abstract specification of `DriverActor` (a device that is released, or being
   released, whenever nobody may command it) for `ControlTick` to use, and the proof that
   the actor implements it; the same for what `ManualHold` uses of `ControlWrites`.
2. Further modules: the planner's fallback between optimizer and built-in program, OCPP
   sessions and transactions, battery return and self tune, restore of a backup.
