# Verification of the LoL replay tool

The application watches for a League of Legends game, records it with a copy of
OBS Studio that it manages itself, and lets its user browse, replay and clip the
recordings (Python, PySide6, Inno Setup installer). Everything that can go wrong
in a way a unit test would hardly reach lies between processes and threads: the
GUI, a recorder thread with an asyncio loop, OBS, the game's local servers, the
installer, and the disk across crashes. This project models those parts in TLA+,
checks them with TLC and proves the most important statements with TLAPS.

Paths below are relative to `src/` of the repository, except that the
application's Python code lies in `src/src/` and is named by its file alone.

Contents: 1 the system, 2 modules, 3 correspondence to the code, 4 runs and
bounds, 5 fairness, 6 proofs, 7 disagreements between code and documents,
8 not modelled, 9 plan.

## 1. The system

| Part | State it keeps | Operations | Talks to |
|---|---|---|---|
| Recording supervisor (`recording_supervisor.py`) | `_recording_active`, `_update_shutdown_reserved` under one lock; session flags in `run()` | `run`, `_begin_recording`, `_finish_recording`, `reserve_update_shutdown`, `shutdown` | recorder, OBS runtime, GUI (queued signals), stop event |
| Recorder (`recordtest.py`, class `LoLAutoRecorder`) | `recording_started`, `record_path`, `session_outcome`, `session_finalized`, stop and recovery flags | wait for a game, start with one retry, record until the end, stop, finalise, save | OBS by WebSocket, Riot and LCU servers, session log |
| OBS WebSocket client (`obs_websocket_client.py`) | socket, recording connection, recovery right | record status, start, toggle and stop, one reconnection | OBS |
| Worker threads and main window (`app.py`, `qt_lifecycle.py`) | `_closing`, `_update_shutdown_*`, `_shutdown_attempts`, `bg_recorder_worker`, the page stack | start a recorder, open settings, close, poll for an update request, retry timer, force question | recorder threads, instance guard, OBS processes |
| Instance guard and installer (`single_instance.py`, `installer/LoLReplayTool.iss`) | kernel mutex, three auto-reset events | acquire, ask for a shutdown, answer blocked or complete, release | each other, through the kernel |
| Settings transaction (`obs_bootstrap.py`, `obs_transaction_fs.py`) | journal with its phase, rollback backups, desired temporaries, the files | plan, prepare, commit, recover, replan once | disk, lock file, OBS (writes the same files) |
| OBS copy migration (`obs_bootstrap.py`) | a journal in the destination, the copied tree, temporaries of files | probe, inventory, copy, verify, finalise, recover | disk, interprocess lock, launch of OBS |
| OBS process ownership (`obs_process.py`, `obs_runtime.py`) | a lease file with pid and creation time, the `Popen` object | admit, start, adopt, terminate, force, clear a stale lease, sweep before a settings change | Windows processes, disk, interprocess lock |
| Game detection (`recording_state.py`, `riot_api.py`, `recordtest.py`) | counters and ages of answers, `match_metadata`, `_require_game_clear` | poll, decide start and end, classify TFT, wait for the previous game to clear | Live Client, LCU, process list |
| Live audio operations (`app.py`, `controllers.py`, `obs_runtime.py`, `recordtest.py`) | `OBS_OPERATION_LOCK`, the page's workers, `_audio_apply_pending` | apply, save, reset, check, open and leave the settings | OBS, `setting.json`, recorder |
| Clip export (`player.py`) | FFmpeg process, cancel flag, terminal state | export with a fallback encoder, cancel | FFmpeg, disk |
| Library, storage policy, session log (`recording_library.py`, `storage_policy.py`, `session_log.py`) | recordings, clips and logs on disk | list, delete, clean up to the limit, atomic save | disk |
| Release (`.github/workflows/release.yml`, `scripts/`) | files of a runner, step outputs, the kept artifact, releases on GitHub | build, audit, seal, verify, upload, publish | GitHub, pip, Inno Setup |
| Post-game result, notifications, configuration store, analytics, self check | small or none | | |

How they interact. `MainWindow` owns at most one `RecorderWorker` (a `QThread`)
at a time. The worker creates a `RecordingSupervisor`, whose coroutine is the only
one to talk to the recorder. A stop request is posted from the GUI thread to the
worker's loop and is seen where the coroutine awaits; the update reservation is
taken under a lock and seen at once. The supervisor closes the OBS runtime when
it leaves. The settings page rewrites OBS's configuration and may be open only
without a recorder; every such rewrite is a settings transaction, under the
interprocess mutation guard, and stops OBS first. The installer must not replace
files while any of this runs.

Hard behaviours, and what would be correct (each is a hazard in `PROJECT.json`,
at its line):

- *Recording*: a lost reply to StopRecord, a start whose reply is late or lost, OBS
  or its output dying at any point, a stop request in every await, three paths that
  finalise the same session. Correct: one StopRecord at most, one verdict, complete
  means a video and a log, nothing is lost without a message, no new session
  after a stop of unknown effect, every stop request ends the run.
- *Update shutdown*: threads that do not end, a queued `finished` signal of an
  earlier worker, closes nested in message boxes, a second launch, an installer
  that times out. Correct: the installer proceeds only when nothing is left, the
  window is always either closing or usable, a failed OBS shutdown is remembered.
- *Settings transaction*: a crash between any two disk operations, also in the
  recovery; a write that raises although it took effect; a disk that loses a write
  silently; OBS flushing its files while it is stopped. Correct: the files change
  together or not at all, never over a change the plan did not see, and no journal
  becomes unrecoverable by what the code does itself.
- *Ownership*: OBS may end at any moment and its pid be given to another program; the
  application may crash between any two steps; a second instance works on the same lease.
  Correct: one OBS of ours at a time, its lease stays as long as it runs, nobody
  else's process is signalled.
- *Migration*: a crash at any file, a source or destination changed meanwhile.
  Correct: the destination is used only when whole, and an interrupted copy is
  finished or needs the user, never forgotten.
- *Detection*: three sources that lag, fail and contradict each other. Correct: a match
  is recorded, once, not past its end, and TFT is not.
- *Live audio*: choices during an operation, failures of it, a recorder starting beside
  it. Correct: the last choice lasts, a worker never ends the recorder's OBS.
- *Files*: a hanging FFmpeg, failing removals. Correct: the verdict of an export tells
  what is on the disk, a cancel ends, a half deletion stays repeatable, a
  clean-up goes on past what it cannot remove.
- *Release*: dispatches that race, files altered between steps, lost answers. Correct:
  what is public is what tag and lock determine, whole, and public once.

## 2. Modules

| Module | What it is |
|---|---|
| `RecordingContract` | what the recorder promises its surroundings (abstract) |
| `RecordingSession` | one run of the supervisor with the recorder, the record half of the client and OBS |
| `UpdateShutdown`, `UpdateShutdownProofs` | installer, guard, main window, recorder threads, the OBS they own |
| `AtomicSettings` | what an update of the settings promises: a compare-and-swap of all files (abstract) |
| `SettingsTransaction`, `SettingsTransactionProofs` | the journal protocol, its recovery, OBS as the other writer, crashes; that it implements `AtomicSettings` |
| `LeaseContract` | what the lease promises: started only alone, named by its own lease, released only when ended (abstract) |
| `ProcessLease`, `ProcessLeaseProofs` | processes and pids of Windows, the lease transaction, start, adoption, stop and sweep |
| `CopyContract` | what the migration promises about the destination (abstract) |
| `CopyMigration`, `CopyMigrationProofs` | locks, journal, inventory, copy, finalisation, recovery, and the launch beside it |
| `GameDetection` | the waits for a match and for its end, and what they poll |
| `RecorderProofs` | the proofs about `RecordingSession` and `GameDetection`; it extends both, which is why some names of the latter begin with `Watch` |
| `AudioSettings`, `AudioSettingsProofs` | settings page, its workers, the lock, the recorder's use of the settings |
| `ReplayLibrary`, `ReplayLibraryProofs` | clip export and FFmpeg, deletion, clean-up after a session |
| `ReleasePipeline`, `ReleasePipelineProofs` | the jobs `prepare` and `publish` and GitHub's releases |
| `MC*` | the constants TLC needs |

How they meet. `RecordingSession` and `UpdateShutdown` meet at the worker: the
latter sees of a worker only launching, watching, recording and closing, and of
its supervisor the reservation, which is refused while recording. That is the part of
`RecordingContract` proved of the detailed module (`phase`, `barred`).
`GameDetection` refines the choice `RecordingSession` leaves open, when a game is
seen and when it has ended. `ProcessLease` is what `RecordingSession`, `UpdateShutdown`
and `AudioSettings` take for one bit, an OBS that is owned or not. `CopyMigration`
has its own locks and journal; its finalizer writes the managed files directly and
not through `SettingsTransaction`. `AudioSettings` takes the recorder apart only as
far as it touches the shared OBS.

A definition preceded by "mutant" or "a mutation" (`MayBeginUnlocked` beside
`MayBegin`) is the form of its neighbour with a plausible mistake; the specifications
do not use them. The `mutants` list in `PROJECT.json` pairs each property with one.

## 3. Correspondence to the code

The exact lines of every definition are under `map` in `PROJECT.json`.

**RecordingSession.** One step is the code between two awaits, two OBS requests or
two lock sections. `pc` names where the coroutine stands: `setup`; the loop and its
two waits (`loop`, `clear`, `watch`); the start (`prepare`, `settle`, `adopt`,
`wait1`, `recover`, `resettle`, `wait2`, `startFail`); `sync`, `started`,
`recording`, `result`; the exception handler (`failing`); finalisation (`finStatus`,
`finStop`, `save`, `verdict`), with `fin` naming who finalises; the waits for a
game to be gone (`postClear`, `deferClear`); and `shutdown` (`closing`, `terminate`,
`killing`, `done`). The other variables are the attributes of the same name in the
code, shortened, plus OBS (`out`, `take`) and observations the properties need
(`log`, `notes`, `stops`, `stopLost`, `toggledOff`, `forced`). A recording is a
number, `record_path` the recording it names. OBS steps on its own between any two
requests. A request may be executed and its reply lost: in `StartRecord`,
`ToggleRecord` and `StopRecord` the effect on OBS and the answer are chosen apart.
A status request may fail although the socket stays up. Scene and audio set-up is reduced
to whether it raises.

**UpdateShutdown.** Three kinds of actors. The installer is one API call a step
(`FirstQuery` .. `PollApp`, `GiveUp`). The guard is the process's mutex and its
event handles (`Claim`, `Acquire`, `LeaveMain`, `ProcessEnds`); an event keeps its
state as long as some process holds a handle. The window's `gui` names the
handler it is in: `loop`, `stopping` .. `verify` for `closeEvent`, `flagUpdate` and
`flagNested` for the poll, `waitSettings` for `show_settings`, `abortBox` and
`question` for the modal boxes, in whose nested loop timers and signals still run.
Each worker is a thread with a `phase`; its `finished` signal is queued for the GUI
thread, and another worker may be started before it is served (`show_home` tests
`isRunning()` alone). The handler of the signal looks at the present worker and not at the
sender, so that it may drop one that runs; `lost`, a history variable, holds these.
`obs` says who owns the OBS in the managed directory.

**SettingsTransaction.** The disk is `disk`, the journal (`marker`, `journal`, `jtemp`
for a left-over of its own atomic write), `backup` and `desired`; the process is
`pc`, the plan and what was read. Every step is one durable change of the disk with
the validation directly before it, so a crash can fall between any two. `Crash`
forgets the process and keeps the disk; a temporary being written stays partial.
`cause` is why a recovery runs: on entry to the guard, after a commit, after a
failure, or before the second plan. A file is known by its contents: the code
compares digests and identities, which the model does not tell apart from equal
contents. A plan removes no file, as in every caller. Three kinds of other
writers are there: OBS while it runs (`ObsWrites`), OBS at its stop (`Stop`), and a
user who starts OBS again at any time (`ObsStarts`). Their writes are counted in `writes`;
the history variable `late` says that one of them came after the last look of the
transaction at that file, and lasts until the journal is gone. `AtomicSettings` counts
the same writes: there a file changes without the update only by one of them, and the
update ends over a write it has not compared only after a late one.

**ProcessLease.** A process is a record of pid, creation time and image; `table` says
who has a pid, `live` whose process has not exited. An exited process keeps its pid
while a handle to it is open (`Held`), which is what makes a signal through a handle
safe. Each `a \in Apps` runs one call at a time: `launch` (find, drop a stale lease,
stop, admit, `Popen`, write, publish), `find`, `kill`, `stop`; the steps from `Acquire` on
are inside the lease transaction. Admission, the query of the running processes and the
check of an identity are one observation each. `started` and `forced` are history.
A launch that has swept an unreachable OBS of its own is then refused by the
admission, because that lease is still there; the next launch removes it first.

**CopyMigration.** A tree maps each file to its contents or to `Absent`. An inventory is
one read and stands for its own fingerprint. The journal (`marker`) is written before
the destination is compared with the source: a destination holding what the source
lacks then refuses until the user acts (`NeedsUser`). Writing a file, its temporary
and the rename are one action, whose half-way states are those `Fails` leaves
(also: contention for the lock of the source, the settings marker of the
destination). A torn temporary from before the journal, without a marker, is refused for
ever, as the manual test checklist says. The source may be edited any time, the
destination while its lock is free, OBS itself not while it starts or runs.

**GameDetection.** One turn of a polling loop is one unit of time and the graces are
numbers of polls. What a poll may answer follows from the true state of the match
(`stage`), from `lag` (the LCU still calls a closed game started), `quiet` (the
running game does not answer) and `odd` (a wrong answer, which is also a phase that says
lobby in a match, before or during its recording). `det` are the four
counters with their ages of `RecordingEndDetector`. Champion select, the notification
window and the post-game result are one step; an exception anywhere is `Fails` where
a recording starts or runs; stop requests are left to `RecordingSession`. The LCU's
phase `Reconnect` is not distinguished. The timer of a missing game process is not
reset by answers of the Live Client, hence `MaxOdd < Limit`.

**AudioSettings.** `page`, `timer`, `pending` and `work` are the settings page and its
one worker, `at` where the worker stands (`open`, `act`, `save`, `close` hold the
lock); `rec` is the recorder thread as far as it uses OBS. The settings are the
microphone alone: `choice` on the page, `saved` in `setting.json`, `recMic` read by
the recorder, `obsMic` in OBS. `failed` remembers which of the two a failed worker may
have left behind, `raced` that the window was taken out of the tray while the page
was at work. A refresh of the devices may create a missing microphone input. The OBS of the
recorder is assumed to be owned by the application.

**ReplayLibrary.** `w` walks through `ClipExportWorker.run`, one step per place where
FFmpeg, the disk or the cancel can change between; `ff` is FFmpeg itself, `stray` one
nobody waits for any more. `gui` is the window's handler (ask, put the recording away,
cancel, wait, delete one path after the other), `rp` the recorder's save and
clean-up. FFmpeg holds input and output open, so that Windows refuses to remove them.
An empty output counts as none. Preparing a deletion puts only the opened recording
away: the export of another one goes on.

**ReleasePipeline.** Each dispatch runs one job after the other, one step of the
workflow, or one check of a script, at a time. The contents of a file are told by the
alterations they stem from: none (`Right`, what commit and lock determine), the names
of the files that were altered, or `NoFile`. Where the workflow calls a checking script,
the model has its verdict: an equation between the files it compares. `map` names
such a script's lines with the equation, most of which is how the comparison is done and
is abstracted. What a step writes stems from all it
reads (`Of`), an alteration of `f` leaves `{f}`, and a check compares files the way
the code compares hashes: alterations of the same file may look alike, those of
different files never do. The runner and its
files are gone when a job ends. Each dispatch creates at most one release at a time;
an upload finds *a* release by the tag. The comparison with GitHub is by name and digest;
who uploaded an asset is not known, there as here. That a reply of the last request is lost, so
that the job fails although the release is public, is part of `MakePublic`.
`slipped` remembers an alteration inside one of the three windows of section 7.

## 4. Runs and bounds

| Run | Question | Bounds | Result |
|---|---|---|---|
| `recording_faults` | one StopRecord, completeness, no silent loss, the contract, the end after a stop | 2 games, all faults | holds |
| `update_shutdown` | the installer proceeds only when all is quiet, never stuck closing, the exit leaves no recorder but a dropped one, every update is decided | 2 recorder threads, 1 installer call, 2 launches | holds (0.9 million states) |
| `settings_update` | recoverable, OBS stopped only for a prepared plan, foreign contents kept, the compare-and-swap, a pending journal is resolved | 2 files, 3 contents, 2 writes, 1 fault, 2 crashes, OBS started by hand at any time | holds (1.1 million states) |
| `lease_owner` | one OBS of ours, its lease kept, only ours signalled, temporaries recovered | 2 instances, 2 pids, 2 processes born, 1 fault, 1 crash | holds (0.3 million states) |
| `copy_migration` | whole when used, the contract, resolved or needs the user | 2 processes, 2 sources, 3 files, 1 edit, 2 mishaps | holds |
| `game_detection` | TFT excluded, once per game, within one game, recorded at all | 2 matches, limits and graces 1 or 2, 1 silent poll in a row, 1 wrong answer, 1 failure | holds |
| `audio_settings` | last choice wins, the recorder keeps its OBS, live only while recording, the page rests | 2 microphones, 3 choices, 3 visits | holds |
| `library_files` | verdict and disk agree, a cancel ends, one encoder at a time, log last, clean-up goes on | 3 recordings, 1 export, 1 deletion, crash at any step | holds (1.5 million states) |
| `release_races` | public is right, one release | 2 dispatches, 3 commits, 1 alteration, 1 move of the tag, 1 repeated job, 1 deleted draft | holds |
| `update_exit` | the exit stops every recorder | 2 recorder threads, no installer, 1 launch | violated, section 7 |
| `lease_update` | an update forces no OBS | 1 instance, 1 process | violated, section 7 |
| `library_delete` | a deletion without an error has taken the clips | 2 deletions | violated, section 7 |

Why the bounds are enough. *Games, matches*: what one session leaves to the next
(`requireClear`, the stop flags, the last id) needs two. *Launches*: one instance
leaving and one starting. *Recorder threads*: two, so that one may be started before the
signal of the other is served. *Files*: the interesting disks are those where files
disagree. *Contents*: absent, and two that differ, so a file can be at the original, at
the desired and at foreign contents. *Crashes*: two where a recovery may crash too.
*Pids and births*: a second process is enough to receive a pid that was given back.
*Choices*: one applied, one pending, one that replaces it. *Dispatches*: one that
publishes and one that races it. Where a module has proofs, they cover any value of
these bounds. *Alterations of a release*: one in the run; it was also made with two
(10.8 million states) and, with one dispatch, with three. `PublicHoldsTheTag` is for
any number.

TLC re-checks the type invariant of `RecordingSession`, `UpdateShutdown`,
`GameDetection` and `ReplayLibrary`; those of all modules are proved.

`CHECK_DEADLOCK FALSE` is used where the system may really stop: the installer is done
and the application gone (`update_*`), the bounded births, mishaps or user
inputs are used up and every call has returned (`lease_*`, `copy_migration`,
`library_*`, `audio_settings`), or every dispatch has ended (`release_races`).

In `settings_update` a user may start OBS at any time, also between its stop and the
end of the commit: the code asks whether OBS is gone before the commit and not again. A
write can then fall between the last comparison of a file and the write of the committed
journal, and the commit covers a change nobody compared (`docs/development-map.md:134`
concedes a write that coincides with the stop). After such a late write
`ImplementsAtomic` promises nothing of that one update; of every other update it promises
all. `ForeignContentsKept` holds of late writes too: no single file is replaced that does
not hold what the transaction knows, at the granularity of a comparison with the
replacement directly after it.

In `update_shutdown` a dropped recorder may keep an OBS when the installer proceeds;
its thread is gone with the process, so `ProceedOnlyWhenQuiet` asks for the end of
process and threads always, and for the end of OBS unless a recorder was dropped.

## 5. Fairness

- `RecordingSession`: weak fairness of the program's own steps and of the delivery of
  a posted stop. Every await has a timeout or ends with the stop event, and
  the loop runs its callbacks. Nothing is assumed of player, GUI, OBS or failures;
  an exception is never needed for progress.
- `UpdateShutdown`: weak fairness of a handler that has begun (its waits are bounded)
  and of `main` after the event loop; strong fairness of the retry timer, since a
  click may disable it again and again for a moment, but Qt serves an expired timer.
  Nothing is assumed of user, workers, OBS, installer.
- `SettingsTransaction`: weak fairness of the recovery, of the transaction and of the
  next use of the application; strong fairness of the stop of OBS for a recovery:
  again and again a launch gets as far as that stop and not each time a
  start by hand comes first (the start-up bootstrap passes the callback that stops
  OBS). `PendingResolved` concedes writes by others, after which the code
  rightly refuses.
- `CopyMigration`: weak fairness of each process's migration, and of the launch and
  end of OBS: somebody keeps starting the application, and every attempt to record and
  every opening of the set-up calls the migration. Mishaps are bounded.
- `GameDetection`: weak fairness of the program; every await in it has a timeout.
  Nothing is assumed of launcher and game beyond the bounds of their wrong answers.
- `ReplayLibrary`: weak fairness of the export's worker. Its waits are bounded by
  timeouts, and FFmpeg itself may hang for ever.
- `AudioSettings`: weak fairness of the page's event loop, of the worker, of the end
  of a call that holds the lock and of the bounded wait of `show_settings`. Nothing is
  assumed of the recorder, which may keep watching for ever.
- `ProcessLease` and `ReleasePipeline` state safety only.

## 6. Proofs

TLAPS proves, for every value of the constants:

- **RecordingSession**: `Invariance`, `TypeCorrect`, `ReservationExcluded`, `StopOnce`,
  `CompletedWhole`, `VerdictUnique`, `NothingLostSilently`, `UnknownStopIsFinal`,
  `SupervisorImplementsContract`. The invariant joins: the lock is held exactly in
  the loop body and the finalisations started from it; `stops` counts
  `stopTried`, which finalisation tests; where a recording is known to run and where
  none may; after a lost stop only the way to the end is left; the outcome in memory
  against the saved log. None of the properties is inductive: e.g. "one StopRecord"
  needs that no path but a new session clears the flag, and that a new session
  begins only where no finalisation is pending. `StopIsCounted` proves
  `StopCountsDown`: once the stop is set, every step of `run()` and of the recorder
  under it leaves fewer of at most 17 steps.
- **SettingsTransaction**: `TypeCorrect`, `NothingOrphaned`, `AlwaysRecoverable`,
  `ForeignKept`, `StoppedOnlyPrepared` and `TransactionIsAtomic`. The invariant:
  which journal belongs to which point of the process (`JournalInv`); temporaries belong to files of the journal and those of
  files already recovered are gone (`TemporariesInv`); backups are whole from the
  verification until the recovery (`BackupInv`); files agree with the plan's
  snapshot as long as nobody wrote (`SnapshotInv`). Recoverability then follows from
  an order the code keeps: a rollback writes the file *before* it deletes the backup,
  and each file is rolled back before its temporaries go. For the refinement one
  more part is needed: unless a write was late, the commit and the recovery account for
  every file when they end (`CommitInv`), whatever else is written meanwhile.
  The refinement reads a half-committed update as not made. The commit is then
  one step, the write of the committed journal; every replacement and
  every rollback stutters. `RecoveryIsCounted` proves `RecoveryGoesForward`: unless
  somebody else writes, a recovery that is neither killed nor failed by the file system
  comes nearer its end with each step, and gives up while a journal is left only before
  an OBS that its caller does not stop. To `AlwaysRecoverable` it adds the second look
  after the stop of OBS (`ReadInv`) and that no file or temporary is treated twice.
- **UpdateShutdown**: `Invariance`, `TypeCorrect`, `NeverStuckClosing`,
  `OnlyDroppedAreLeft`, `ProceedsWhenQuiet`. The invariant joins where the window stands with
  what it still owes: a close that goes on has its timer or its handler (`CloseInv`),
  every running worker is the window's own or was dropped (`WorkInv`), and the
  completion is told only when nothing else runs (`QuietInv`). `UpdateIsCounted` proves
  `UpdateCountsDown`: an update attempt that has closed the window is withdrawn only with
  `blocked` signalled, and until then each handler leaves fewer of at most 8; only the
  user, who opens the settings between two attempts, adds to them. Its invariant
  (`AttemptInv`) keeps the attempt apart from another close: no question is open, a close
  counts as an attempt before it stops anything.
- **ProcessLease**: `Invariance`, `TypeCorrect`, `TemporariesHeld`, `ObsOwned`,
  `OnlyOursSignalled`, `OnlyManagedSwept`, `LeaseImplementsContract`. Two facts carry
  it: the process behind an open handle keeps its pid (`TableInv`, `HeldInv`), so
  that what was checked is still what is signalled, and whoever admits a start holds the
  lock and has seen that no OBS of ours runs (`OneInv`, `StepInv`), so that there is
  never a second one for the lease to lose.
- **CopyMigration**: `Invariance`, `TypeCorrect`, `TemporariesKept`, `ObsRunsOnWhole`,
  `CopyImplementsContract`. The invariant: the lock and who is inside (`LockInv`), the
  inventory in hand is one a source had (`SourceInv`) and the one the journal stands
  for (`MarkerInv`), the destination has become it up to `todo` (`CopiedInv`),
  temporaries have a journal (`TempsInv`), and whoever is about to start OBS has seen the
  journal gone under the lock (`UseInv`). `ResumedToTheEnd` proves
  `ResumeIsNotRefused`: the checks of a copy that is taken up again refuse it
  only for what `NeedsUser` names (crashes and failed operations are steps of their own).
  Its invariant (`ResumeInv`) says that no temporary is in the way of who writes, that the
  pinned inventory is one OBS can be started from, that what was written so far is what
  it says, and that a copy waiting for its second phase still is, unless somebody changed it.
- **AudioSettings**: `Invariance`, `TypeCorrect`, `ChoiceWins`, `ObsKept`,
  `LiveOnly`. What is not yet saved is held back, pending or on its way (`FileInv`),
  a recorder exists only beside a quiet or a live page (`PageInv`), and its OBS uses
  what is saved or being saved (`MicInv`). `RestIsCounted` proves
  `RestCountsDown`: page and worker have at most 37 steps to their rest, a worker
  started by another one's end included, and the recorder adds none.
- **ReplayLibrary**: `Invariance`, `LibraryTypes`, `EncodersAlone`, `VerdictIsTrue`,
  `LogLast`, `SweepPersists`. An FFmpeg is the one of the attempt under way and has
  exited where the worker relies on it (`RunInv`), so that nobody else touches the clip
  between what the worker saw and what it says (`ClipInv`). What a deletion has behind
  it stays gone, because new recordings have new numbers (`OrderInv`, `GoneInv`), and
  every log is before the clean-up, stuck, or the one to be kept (`SweepInv`).
  `CancelIsCounted` proves `CancelCountsDown`: a cancelled export has at most 8 steps
  left, each of which leaves fewer.
- **GameDetection**: `WatchInvariance`, `WatchTypeCorrect`, `TftIsNotRecorded`,
  `OneGamePerRecording`, `RecordedOnce`. That a recording ends before the next match
  loads is a matter of counting: the model's clock `since` (polls since the game closed)
  is bounded by what the four counters of `RecordingEndDetector` and their ages have
  seen. With the process list every turn is counted (`ProcessInv`); without it the polls
  that still found the game, those that found nothing and those that failed are told
  apart (`PollInv`), and each counter ends the recording when its limit and grace are
  reached. A match known to be TFT is still being watched, and its metadata say so on
  the word of a source nothing can contradict before the next match (`KnownInv`).
  `RecordedOnce` needs what keeps a recorded match from being taken for a new one:
  first the game must be clear, then the LCU forgets it within the attempts of the
  grace (`DoneInv`). It assumes `MaxGlitch < Limit`: a game that runs on after its end
  was recorded, and leaves as many polls unanswered as it takes to be called clear,
  is recorded again. TLC finds that behaviour with the two equal; the run has
  `MaxGlitch` below `Limit`. `PlayedIsCounted` proves `PlayedCountsDown`: while a match
  is played, the recorder is at most 12*`MaxGlitch`+7 of its steps from recording it.
  Here the invariant (`PlayedInv`) says why nothing of the match before stands in its
  way: metadata that say TFT name the match whose sources do (`MetaInv`), the game that
  must first be clear is an earlier one (`PostInv`), and the wait for it ends within the
  polls the pause has already filled (`WaitInv`).
- **ReleasePipeline**: `Invariance`, `TypeCorrect`, `OnlyOneRelease`,
  `PublicHoldsTheTag`. A dispatch past
  the listing has a draft and saw it alone; no other can then list a single
  release (`AloneInv`), and what was compared is full, so that no upload that finds it
  by the tag can add to it (`WholeInv`). The contents rest on one idea: after a check
  a file can only have been altered itself, so that it stems from `{f}` or nothing
  (`Own`), and a later check compares it with files that do not stem from `f`, hence
  with something equal only when both are right. `BuiltInv` carries this from the
  attested environment to the distribution, `AuditInv` from the audit of the
  installer over the receipt to the licences, `AssetInv` over the artifact, the second
  verification and the digests to the release. Each step of a dispatch is first
  shown to leave the other dispatches alone (`FrameIs`).

Assumptions: the named `ASSUME`s of the modules (bounds are natural numbers, the markers
such as `Absent`, `Nobody` and `NoLease` are none of the values they stand beside,
there are finitely many dispatches and recordings), and `MaxGlitch < Limit` as said. TLC checked every invariant before
it was proved.

Only model-checked: liveness (`StopEnds`, `UpdateDecides`, `PendingResolved` of both
modules, `MatchRecorded`, `CancelEnds`, `PageRests`), which is out of the prover's
reach, as `ENABLED` is. Every other property of a passing run is a theorem. Of each
the part that needs no fairness is proved: `StopCountsDown`, `UpdateCountsDown`,
`CancelCountsDown`, `RestCountsDown` and `PlayedCountsDown` bound the steps to the end of
`StopEnds`, `UpdateDecides`, `CancelEnds`, `PageRests` and `MatchRecorded` for every
value of the constants; `RecoveryGoesForward` and `ResumeIsNotRefused` are what the
`PendingResolved` of `SettingsTransaction` and of `CopyMigration` ask of each attempt.
What is left to TLC there is that a step is always possible and, by the fairness
assumed, taken. These action properties have no run of their own: TLC checked them on the
instances of their modules before they were proved, and where one fails the theorem does.

## 7. Where code and documents disagree

| Run | What happens |
|---|---|
| `update_exit` | A `finished` signal still queued when the next recorder is started drops that one, since its handler does not look at the sender; nobody stops it any more, and the application leaves while it runs (`app.py:2146`). |
| `lease_update` | A stop that may not use force ends the OBS this process started by `Popen.terminate()`, on Windows a forced end, before `allow_force` is looked at (`obs_process.py:3121`). |
| `library_delete` | A deletion that stopped half way and is repeated looks clips up through the video that is gone: it reports success, removes the log and leaves the clips (`recording_library.py:151`). |

The quoted lines are under `findings` in `PROJECT.json`. The following was met while
modelling; the models contain the behaviour, and no property claims the opposite:

- A stop in the settle delay makes the start return normally; the start notification is
  sent though nothing was requested (`recordtest.py:4151`, `recording_supervisor.py:81`).
- A stop while OBS becomes active is saved as a failed recording (`recordtest.py:4186`).
- The start retry may toggle a recording off that started late, or whose reply was
  lost (`recordtest.py:4250`).
- `shutdown()` reads the reservation once and without the lock; a reservation granted
  during the termination does not withdraw the permission to kill
  (`recording_supervisor.py:255`).
- A recording that failed is tried again in the same match while that match still
  loads (`recordtest.py:3719`, `recording_supervisor.py:113`).
- A phase asked for after the end of a match is unknown when the LCU is silent, so that
  a finished match may be taken for a new one (`blind` in `OncePerGame`).
- A classification as TFT is dropped when a session names another id, or when a poll
  answers lobby in the middle of the match. A loading
  screen longer than the grace of a missing game ends a recording that the LCU
  started and begins another.
- A window taken out of the tray while the settings page is at work starts the recorder
  beside it: the recorder may apply old settings after the worker, and a pending
  non-live apply may reach OBS while a match is recorded (`raced` in `AudioSettings`;
  `app.py:1553`).
- `enforce_storage_limit` removes the log also when its video could not be removed; that
  video is then in no list (`storage_policy.py:217`).
- In three windows a file of the runner is hashed anew after its last check: the
  installer before the receipt, installer and licences while assets are written
  (`create_release_assets` compares the receipt once, at its start,
  `scripts/prepare_release_assets.py:3702`), and every asset before `publish` takes its
  digests. `PublicIsRight` excludes them by `slipped`.
- A draft left by a failed job refuses every later dispatch until a maintainer deletes it.

## 8. Not modelled, and why

- *Recording*: scene, source and audio profile set-up (data).
- *Settings and migration*: path, alias and file-identity checks of the primitives
  (what they protect from is other programs renaming files); several processes at the
  mutation guard (the interprocess lock admits one; a crash hands it on, which is
  modelled).
- *Update*: what a thread held when it was killed by `QThread.terminate`.
- *Ownership*: window messages, console signals and Job objects are one kind of
  signal; the fields of a process row are read in one step.
- *Detection*: champion select, events and player data (data), the contents of the
  post-game result.
- *Live audio*: device lists and volumes, the set-up wizard, closing while an
  operation runs (`UpdateShutdown` has a worker of that kind).
- *Library*: playback with mpv, synchronisation offsets, the temporary of the log's own
  atomic save.
- *Release*: parsing of executables, archives and licence texts; the failure test of the
  installer's audit; guards inside the `.iss`; the text of release notes.
- Notifications, configuration store (one lock, one atomic replace), analytics, self
  check, licence pages, the VM test lab: no control that a property could be about.

## 9. Plan

| Step | What |
|---|---|
| done | the nine modules above with their contracts, runs and proofs; every safety property of a passing run is a theorem |
| done | proofs about `GameDetection`; the contents of a release by their origins, so that `PublicIsRight` is proved for any number of alterations |
| done | the countdowns under the liveness properties; a recovery and a resumed copy are refused only for what others did |
| next | a model of files with identities under `SettingsTransaction` and `CopyMigration`, so that renames by other programs can be told from equal contents |
