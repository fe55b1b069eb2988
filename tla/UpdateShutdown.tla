--------------------------- MODULE UpdateShutdown ---------------------------
(* The shutdown of the application for an update: the installer             *)
(* (RequestSafeUpdateShutdown), the single-instance guard with its mutex and *)
(* three auto-reset events, the main window's closing chain, the recorder's  *)
(* worker threads and the OBS they own.                                      *)
(*                                                                           *)
(* The installer is another process, each worker another thread.  A step of  *)
(* the GUI thread is the code between two points where another party can be  *)
(* seen: a wait for a thread, an event loop, an event object, an OBS query.  *)
(* What the worker does inside RecordingSupervisor.run is module             *)
(* RecordingSession; here it is only launching, watching, recording, closing.*)
EXTENDS Integers, FiniteSets

CONSTANTS
    MaxWorkers,   \* bound: recorder threads one application process starts
    MaxInstalls,  \* bound: times the installer is run
    MaxLaunches   \* bound: times the application is launched

ASSUME MaxWorkersAssumption == MaxWorkers \in Nat
ASSUME InstallsAssumption == MaxInstalls \in Nat /\ MaxLaunches \in Nat

VARIABLES
    \* the installer
    ins,         \* where RequestSafeUpdateShutdown stands, "idle" outside it
    seen,        \* ShutdownCompleted
    verdict,     \* of its latest call: none, proceed, refused
    installs,    \* calls so far
    \* SingleInstanceGuard: who holds the mutex, and the events' states
    app,         \* none, claiming, running, releasing, exiting
    launches,    \* launches so far
    events,      \* the signalled ones among request, blocked, complete
    \* MainWindow
    gui,         \* where the GUI thread stands
    startup,     \* _finish_startup_setup: pending, active, done
    autostart,   \* _recorder_autostart_enabled
    bg,          \* bg_recorder_worker, 0 for None
    finished,    \* workers whose `finished` signal is queued
    closing,     \* _closing
    quitting,    \* _is_quitting
    updateReq,   \* _update_shutdown_requested
    updateDone,  \* _update_shutdown_completed
    attempts,    \* _shutdown_attempts
    timer,       \* the QTimer.singleShot(1000, self.close) is pending
    lastFailed,  \* _last_recorder_shutdown_failed
    \* RecorderWorker and its RecordingSupervisor
    phase,       \* of each worker
    flagged,     \* workers with _update_shutdown_requested
    stopped,     \* workers with a stop request
    reserved,    \* workers whose supervisor reserved the update shutdown
    failed,      \* workers with supervisor.shutdown_error
    \* OBS in the managed directory
    obs,         \* none, owned (by a lease of this application), foreign
    \* history
    lost         \* workers that were dropped while they ran

insVars == <<ins, seen, verdict, installs>>
appVars == <<app, launches>>
winVars == <<startup, autostart, bg, finished>>
endVars == <<closing, quitting, updateReq, updateDone, attempts, timer, lastFailed>>
workVars == <<phase, flagged, stopped, reserved, failed>>
vars == <<insVars, appVars, events, gui, winVars, endVars, workVars, obs, lost>>

Workers == 1 .. MaxWorkers
MaxAttempts == 3         \* _shutdown_max_attempts
MaxUpdateAttempts == 1   \* _update_shutdown_max_attempts

Handles == {"resetBlocked", "resetComplete", "request", "pollBlocked", "pollComplete", "pollApp"}
Phases == {"none", "new", "created", "starting", "watching", "recording", "closing", "ended",
           "killed"}
Running(i) == phase[i] \notin {"none", "ended", "killed"}
BgRunning == bg # 0 /\ Running(bg)
BgFailed == bg # 0 /\ bg \in failed

AppHolds == app \in {"running", "exiting"}   \* the event handles
MutexHeld == app # "none"

(* SetEvent; an event lives as long as a process holds a handle of it.       *)
Signal(e) == events' = events \union {e}
Abandoned(others) == events' = IF others THEN events ELSE {}

NewWindow ==
    /\ gui = "loop" /\ startup = "pending" /\ autostart = FALSE
    /\ bg = 0 /\ finished = {} /\ closing = FALSE /\ quitting = FALSE
    /\ updateReq = FALSE /\ updateDone = FALSE /\ attempts = 0 /\ timer = FALSE
    /\ lastFailed = FALSE
    /\ phase = [i \in Workers |-> "none"]
    /\ flagged = {} /\ stopped = {} /\ reserved = {} /\ failed = {}

Init ==
    /\ ins = "idle" /\ seen = FALSE /\ verdict = "none" /\ installs = 0
    /\ app = "none" /\ launches = 0 /\ events = {}
    /\ NewWindow
    /\ obs \in {"none", "owned", "foreign"}   \* left by an earlier process, or the user's
    /\ lost = {}

-----------------------------------------------------------------------------
(* The installer: RequestSafeUpdateShutdown, one API call a step.            *)

InstallerIdle == UNCHANGED <<appVars, gui, winVars, endVars, workVars, obs, lost>>

FirstQuery ==
    /\ ins = "idle" /\ installs < MaxInstalls
    /\ installs' = installs + 1 /\ seen' = FALSE
    /\ IF MutexHeld THEN ins' = "open" /\ verdict' = "none"
                    ELSE ins' = "idle" /\ verdict' = "proceed"
    /\ events' = events /\ InstallerIdle

(* An application without the events (an older version, or one that is just  *)
(* claiming or releasing them) is not asked.                                 *)
OpenEvents ==
    /\ ins = "open"
    /\ IF AppHolds THEN ins' = "resetBlocked" /\ verdict' = verdict
                   ELSE ins' = "idle" /\ verdict' = "refused"
    /\ UNCHANGED <<seen, installs, events>> /\ InstallerIdle

ResetEvents ==
    /\ \/ ins = "resetBlocked" /\ ins' = "resetComplete" /\ events' = events \ {"blocked"}
       \/ ins = "resetComplete" /\ ins' = "request" /\ events' = events \ {"complete"}
    /\ UNCHANGED <<seen, verdict, installs>> /\ InstallerIdle

RequestShutdown ==
    /\ ins = "request" /\ ins' = "pollBlocked" /\ Signal("request")
    /\ UNCHANGED <<seen, verdict, installs>> /\ InstallerIdle

(* Every return closes the installer's handles.                              *)
Return(v, left) ==
    /\ ins' = "idle" /\ verdict' = v /\ seen' = FALSE
    /\ events' = IF AppHolds THEN left ELSE {}

PollBlocked ==
    /\ ins = "pollBlocked"
    /\ IF "blocked" \in events THEN Return("refused", events \ {"blocked"})
       ELSE ins' = "pollComplete" /\ UNCHANGED <<verdict, seen, events>>
    /\ UNCHANGED installs /\ InstallerIdle

PollComplete ==
    /\ ins = "pollComplete" /\ ins' = "pollApp"
    /\ seen' = (seen \/ "complete" \in events)
    /\ events' = events \ {"complete"}
    /\ UNCHANGED <<verdict, installs>> /\ InstallerIdle

(* Mutant: a vanished application is enough.                                 *)
MayProceedUnasked(done) == TRUE

(* The application is gone: only its completion lets the update proceed.     *)
MayProceed(done) == done

PollApp ==
    /\ ins = "pollApp"
    /\ IF MutexHeld THEN ins' = "pollBlocked" /\ UNCHANGED <<seen, verdict, events>>
       ELSE Return(IF MayProceed(seen \/ "complete" \in events) THEN "proceed" ELSE "refused",
                   events \ {"complete"})
    /\ UNCHANGED installs /\ InstallerIdle

(* UpdateShutdownPollCount polls have passed, or an API call has failed.     *)
GiveUp ==
    /\ ins \in Handles /\ Return("refused", events)
    /\ UNCHANGED installs /\ InstallerIdle

InstallerStep == OpenEvents \/ ResetEvents \/ RequestShutdown \/ PollBlocked \/ PollComplete
                   \/ PollApp

-----------------------------------------------------------------------------
(* SingleInstanceGuard and main().                                           *)

GuardIdle == UNCHANGED <<insVars, gui, winVars, endVars, workVars, obs>>

(* acquire: the mutex first ...                                              *)
Claim ==
    /\ app = "none" /\ launches < MaxLaunches
    /\ app' = "claiming" /\ launches' = launches + 1 /\ events' = events
    /\ lost' = lost /\ GuardIdle

(* ... then the events: one that exists already belongs to somebody.         *)
EventsTaken == ins \in Handles

Acquire ==
    /\ app = "claiming" /\ app' = IF EventsTaken THEN "none" ELSE "running"
    /\ lost' = IF EventsTaken THEN lost ELSE {}
    /\ UNCHANGED <<launches, events>> /\ GuardIdle

(* The end of main(): after a completed update shutdown the handles stay     *)
(* open until the process is gone; otherwise the events are closed first and *)
(* the mutex last.                                                           *)
LeaveMain ==
    /\ app = "running" /\ gui = "quit"
    /\ IF updateDone THEN app' = "exiting" /\ Signal("complete")
                     ELSE app' = "releasing" /\ Abandoned(ins \in Handles)
    /\ UNCHANGED <<launches, lost>> /\ GuardIdle

ProcessEnds ==
    /\ app \in {"releasing", "exiting"} /\ app' = "none"
    /\ launches' = launches /\ Abandoned(ins \in Handles)
    /\ gui' = "loop" /\ startup' = "pending" /\ autostart' = FALSE
    /\ bg' = 0 /\ finished' = {} /\ closing' = FALSE /\ quitting' = FALSE
    /\ updateReq' = FALSE /\ updateDone' = FALSE /\ attempts' = 0 /\ timer' = FALSE
    /\ lastFailed' = FALSE
    /\ phase' = [i \in Workers |-> "none"]
    /\ flagged' = {} /\ stopped' = {} /\ reserved' = {} /\ failed' = {}
    /\ UNCHANGED <<insVars, obs, lost>>

-----------------------------------------------------------------------------
(* RecorderWorker i.                                                         *)

WorkerIdle == UNCHANGED <<insVars, appVars, events, gui, startup, autostart, bg, endVars,
                          lost>>
Flags == UNCHANGED <<flagged, stopped>>
Alive == app = "running"
Move(i, from, to) == phase[i] = from /\ phase' = [phase EXCEPT ![i] = to]

(* run_async: the supervisor is assigned ...                                 *)
CreateSupervisor(i) ==
    /\ Alive /\ Move(i, "new", "created")
    /\ UNCHANGED <<finished, reserved, failed, obs>> /\ Flags /\ WorkerIdle

(* ... and then the request that came before it is looked at.                *)
CheckRequested(i) ==
    /\ Alive /\ Move(i, "created", "starting")
    /\ reserved' = IF i \in flagged THEN reserved \union {i} ELSE reserved
    /\ UNCHANGED <<finished, failed, obs>> /\ Flags /\ WorkerIdle

(* The runtime launches or adopts the managed OBS; one that is running and   *)
(* not owned is refused.                                                     *)
LaunchObs(i) ==
    /\ Alive /\ obs # "foreign" /\ obs' = "owned" /\ Move(i, "starting", "watching")
    /\ UNCHANGED <<finished, reserved, failed>> /\ Flags /\ WorkerIdle

(* What was asked of a thread that is over is not looked at any more.        *)
Forget(i) == /\ flagged' = flagged \ {i} /\ stopped' = stopped \ {i}
             /\ reserved' = reserved \ {i}

LaunchFails(i) ==
    /\ Alive /\ Move(i, "starting", "ended")
    /\ finished' = finished \union {i}
    /\ obs' \in IF obs = "foreign" THEN {obs} ELSE {obs, "owned"}   \* its cleanup may fail too
    /\ failed' = failed /\ Forget(i) /\ WorkerIdle

BeginRecording(i) ==
    /\ Alive /\ i \notin stopped /\ i \notin reserved /\ Move(i, "watching", "recording")
    /\ UNCHANGED <<finished, reserved, failed, obs>> /\ Flags /\ WorkerIdle

FinishRecording(i) ==
    /\ Alive /\ Move(i, "recording", "watching")
    /\ UNCHANGED <<finished, reserved, failed, obs>> /\ Flags /\ WorkerIdle

(* The stop request, the refusal of _begin_recording, or an exception.       *)
StopWatching(i) ==
    /\ Alive /\ (Move(i, "watching", "closing") \/ Move(i, "recording", "closing"))
    /\ UNCHANGED <<finished, reserved, failed, obs>> /\ Flags /\ WorkerIdle

(* shutdown(): OBS has ended, or its end is not confirmed.                   *)
ShutDownObs(i) ==
    /\ Alive /\ Move(i, "closing", "ended")
    /\ finished' = finished \union {i}
    /\ \/ obs' = "none" /\ failed' = failed
       \/ obs' = obs /\ failed' = failed \union {i}
    /\ Forget(i) /\ WorkerIdle

WorkerStep(i) == CreateSupervisor(i) \/ CheckRequested(i) \/ LaunchObs(i) \/ LaunchFails(i)
                   \/ BeginRecording(i) \/ FinishRecording(i) \/ StopWatching(i) \/ ShutDownObs(i)

ObsEnds ==
    /\ obs # "none" /\ obs' = "none"
    /\ UNCHANGED <<insVars, appVars, events, gui, winVars, endVars, workVars, lost>>

-----------------------------------------------------------------------------
(* The main window.  gui is "loop" in the event loop, "abortBox" in the one  *)
(* of the message box that _abort_update_shutdown opens inside closeEvent    *)
(* (Qt ignores a close() there), "question" in that of the force question.   *)

GuiTurn == app = "running" /\ UNCHANGED <<insVars, appVars>>
GuiStep == GuiTurn /\ lost' = lost
InLoop == gui \in {"loop", "abortBox"}

(* start_background_recorder                                                 *)
MayStart == ~BgRunning /\ ~lastFailed

(* The window refers to the last worker, over or not, until then.            *)
Over == {i \in Workers : ~Running(i)}

StartRecorder ==
    /\ MayStart
    /\ \E i \in Workers :
         /\ phase[i] = "none" /\ \A j \in 1 .. (i - 1) : phase[j] # "none"
         /\ bg' = i /\ phase' = [phase EXCEPT ![i] = "new"]
    /\ flagged' = flagged \ Over /\ stopped' = stopped \ Over
    /\ reserved' = reserved \ Over /\ failed' = failed \ Over
KeepRecorder == ~MayStart /\ UNCHANGED <<bg, workVars>>
EnsureRecorder == StartRecorder \/ KeepRecorder

BeginSetup ==
    /\ GuiStep /\ gui = "loop" /\ startup = "pending"
    /\ startup' = IF closing THEN "done" ELSE "active"
    /\ UNCHANGED <<events, gui, autostart, bg, finished, endVars, workVars, obs>>

EndSetup ==
    /\ GuiStep /\ gui = "loop" /\ startup = "active" /\ startup' = "done"
    /\ autostart' \in BOOLEAN
    /\ IF autostart' THEN EnsureRecorder ELSE UNCHANGED <<bg, workVars>>
    /\ UNCHANGED <<events, gui, finished, endVars, obs>>

(* show_home, after the player page is left; a worker may end while it is.   *)
ShowHome ==
    /\ GuiStep /\ gui = "loop" /\ startup = "done"
    /\ IF autostart /\ ~closing THEN EnsureRecorder ELSE UNCHANGED <<bg, workVars>>
    /\ UNCHANGED <<events, gui, startup, autostart, finished, endVars, obs>>

(* on_bg_recorder_finished looks at the present worker, not at the sender:    *)
(* one that was started before the signal of the last one is served is       *)
(* dropped, and nobody stops it any more.                                    *)
RecorderFinished ==
    /\ GuiTurn /\ gui \in {"loop", "abortBox", "question"}
    /\ \E i \in finished : finished' = finished \ {i}
    /\ lastFailed' = (lastFailed \/ BgFailed)
    /\ bg' = IF closing THEN bg ELSE 0
    /\ lost' = IF BgRunning /\ ~closing THEN lost \union {bg} ELSE lost
    /\ UNCHANGED <<events, gui, startup, autostart, closing, quitting, updateReq,
                   updateDone, attempts, timer, workVars, obs>>

(* request_update_shutdown of the worker, up to the supervisor's answer: a   *)
(* supervisor that does not exist yet is not asked.                          *)
Refuses(i) == phase[i] = "recording"
Asked(i) == phase[i] # "new"
Ask == reserved' = IF Asked(bg) THEN reserved \union {bg} ELSE reserved

(* ... and its second half, with stop().                                     *)
FlagAndStop == /\ flagged' = flagged \union {bg} /\ stopped' = stopped \union {bg}
               /\ UNCHANGED <<phase, reserved, failed>>

(* show_settings                                                             *)
ShowSettings ==
    /\ GuiStep /\ gui = "loop" /\ startup = "done"
    /\ IF BgRunning /\ ~Refuses(bg)
       THEN /\ gui' = "flagSettings" /\ Ask
            /\ lastFailed' = (lastFailed \/ BgFailed)
            /\ UNCHANGED <<phase, flagged, stopped, failed>>
       ELSE /\ lastFailed' = (lastFailed \/ BgFailed) /\ gui' = gui
            /\ UNCHANGED workVars
    /\ UNCHANGED <<events, startup, autostart, bg, finished, closing, quitting, updateReq,
                   updateDone, attempts, timer, obs>>

FlagSettings ==
    /\ GuiStep /\ gui = "flagSettings" /\ gui' = "waitSettings"
    /\ FlagAndStop
    /\ UNCHANGED <<events, winVars, endVars, obs>>

(* stop_background_recorder(5000): the thread has ended, or the time is up.  *)
WaitSettings ==
    /\ GuiStep /\ gui = "waitSettings" /\ gui' = "loop"
    /\ \E ended \in BOOLEAN :
         /\ ended => ~Running(bg)
         /\ lastFailed' = IF ended /\ bg \notin failed THEN lastFailed ELSE bg \in failed
         /\ bg' = IF ended THEN 0 ELSE bg
    /\ UNCHANGED <<events, startup, autostart, finished, closing, quitting, updateReq,
                   updateDone, attempts, timer, workVars, obs>>

-----------------------------------------------------------------------------
(* The update request.                                                       *)

(* _poll_update_shutdown_request with _handle_update_shutdown_request.       *)
Consume == ~closing /\ InLoop /\ "request" \in events
Left == events \ {"request"}
Close == IF gui = "loop" THEN "close" ELSE gui   \* close() nested in closeEvent does nothing

PollRefused ==
    /\ GuiStep /\ Consume
    /\ startup = "active" \/ lastFailed \/ (BgRunning /\ Refuses(bg))
    /\ events' = Left \union {"blocked"}
    /\ UNCHANGED <<gui, startup, autostart, bg, finished, endVars, workVars, obs>>

PollGranted ==
    /\ GuiStep /\ Consume /\ startup # "active" /\ ~lastFailed /\ events' = Left
    /\ \/ /\ BgRunning /\ ~Refuses(bg) /\ Ask
          /\ gui' = IF gui = "loop" THEN "flagUpdate" ELSE "flagNested"
          /\ UNCHANGED <<phase, flagged, stopped, failed, endVars>>
       \/ /\ ~BgRunning /\ gui' = Close
          /\ updateReq' = TRUE /\ updateDone' = FALSE /\ quitting' = TRUE
          /\ UNCHANGED <<closing, attempts, timer, lastFailed, workVars>>
    /\ UNCHANGED <<winVars, obs>>

FlagUpdate ==
    /\ GuiStep /\ gui \in {"flagUpdate", "flagNested"}
    /\ gui' = IF gui = "flagUpdate" THEN "close" ELSE "abortBox"
    /\ FlagAndStop
    /\ updateReq' = TRUE /\ updateDone' = FALSE /\ quitting' = TRUE
    /\ UNCHANGED <<events, winVars, closing, attempts, timer, lastFailed, obs>>

(* WaitForSingleObject fails: the installer is told, nothing is consumed.    *)
PollFails ==
    /\ GuiStep /\ ~closing /\ InLoop /\ Signal("blocked")
    /\ UNCHANGED <<gui, winVars, endVars, workVars, obs>>

-----------------------------------------------------------------------------
(* closeEvent.                                                               *)

(* The tray's quit (quitting), or the window's close button.                 *)
Quit ==
    /\ GuiStep /\ gui = "loop" /\ gui' = "close"
    /\ quitting' \in {quitting, TRUE}
    /\ UNCHANGED <<events, winVars, closing, updateReq, updateDone, attempts, timer, lastFailed,
                   workVars, obs>>

CloseTimer ==
    /\ GuiStep /\ timer /\ InLoop /\ timer' = FALSE /\ gui' = Close
    /\ UNCHANGED <<events, winVars, closing, quitting, updateReq, updateDone, attempts,
                   lastFailed, workVars, obs>>

(* should_minimize_to_tray: only a close that is no quit hides the window.   *)
MinimizeToTray ==
    /\ GuiStep /\ gui = "close" /\ ~quitting /\ gui' = "loop"
    /\ UNCHANGED <<events, winVars, endVars, workVars, obs>>

BeginClose ==
    /\ GuiStep /\ gui = "close" /\ gui' = "stopping"
    /\ closing' = TRUE /\ quitting' = TRUE
    /\ attempts' = IF attempts > MaxAttempts THEN attempts ELSE attempts + 1   \* bound
    /\ stopped' = IF BgRunning THEN stopped \union {bg} ELSE stopped
    /\ UNCHANGED <<events, winVars, updateReq, updateDone, timer, lastFailed, phase, flagged,
                   reserved, failed, obs>>

MayForce == ~updateReq /\ attempts > MaxAttempts

(* stop_background_recorder, once the wait is over: a worker that ended      *)
(* counts as stopped for an update only if its OBS did.                      *)
CountsAsStopped == ~updateReq \/ IF bg = 0 THEN ~lastFailed ELSE bg \notin failed

(* Mutant: the wait for the thread always counts as over.                    *)
WaitIgnored == TRUE

(* request_worker_stop waits for the thread; force_worker_stop kills it.     *)
WaitOver == ~BgRunning \/ MayForce

(* _stop_all_background_work: `others` are the player, analytics and         *)
(* settings workers; a forced one is terminated.                             *)
StopWork ==
    /\ GuiStep /\ gui = "stopping"
    /\ \E others \in BOOLEAN, ended \in BOOLEAN :
         /\ ended => WaitOver
         /\ phase' = IF BgRunning /\ ended /\ MayForce THEN [phase EXCEPT ![bg] = "killed"] ELSE phase
         /\ bg' = IF ended /\ CountsAsStopped THEN 0 ELSE bg
         /\ gui' = IF ~(ended /\ CountsAsStopped /\ others) THEN "unstopped"
                   ELSE IF updateReq THEN "verify" ELSE "quit"
    /\ UNCHANGED <<events, startup, autostart, finished, endVars, flagged, stopped,
                   reserved, failed, obs>>

(* Mutant: the attempts are counted from below zero.                         *)
FreshAttemptsLess == -1

(* _shutdown_attempts = 0                                                    *)
FreshAttempts == 0

(* Mutant: _closing stays set.                                               *)
AbortWithoutReset ==
    /\ Signal("blocked") /\ gui' = "abortBox"
    /\ updateReq' = FALSE /\ updateDone' = FALSE /\ quitting' = FALSE
    /\ attempts' = FreshAttempts /\ UNCHANGED closing

(* _abort_update_shutdown                                                    *)
Abort ==
    /\ Signal("blocked") /\ gui' = "abortBox"
    /\ updateReq' = FALSE /\ updateDone' = FALSE /\ quitting' = FALSE /\ closing' = FALSE
    /\ attempts' = FreshAttempts

ObsUnconfirmed == lastFailed \/ BgFailed

(* Mutant: an update is tried without end.                                   *)
UpdateAttemptsUnlimited == FALSE

UpdateAttemptsUsed == attempts > MaxUpdateAttempts

AbortUnstopped ==
    /\ GuiStep /\ gui = "unstopped" /\ updateReq /\ (ObsUnconfirmed \/ UpdateAttemptsUsed)
    /\ lastFailed' = (lastFailed \/ ObsUnconfirmed)
    /\ Abort
    /\ UNCHANGED <<winVars, timer, workVars, obs>>

RetryClose ==
    /\ GuiStep /\ gui = "unstopped" /\ ~MayForce
    /\ ~(updateReq /\ (ObsUnconfirmed \/ UpdateAttemptsUsed))
    /\ timer' = TRUE /\ gui' = "loop"
    /\ UNCHANGED <<events, winVars, closing, quitting, updateReq, updateDone, attempts,
                   lastFailed, workVars, obs>>

AskForce ==
    /\ GuiStep /\ gui = "unstopped" /\ MayForce /\ gui' = "question"
    /\ UNCHANGED <<events, winVars, endVars, workVars, obs>>

(* Yes: stop everything by force once more; no: start over.                  *)
AnswerForce ==
    /\ GuiStep /\ gui = "question"
    /\ \/ /\ gui' = "quit" /\ bg' = 0 /\ UNCHANGED <<attempts, timer>>
          /\ phase' = IF BgRunning THEN [phase EXCEPT ![bg] = "killed"] ELSE phase
       \/ /\ gui' = "loop" /\ timer' = TRUE /\ attempts' \in {FreshAttempts, attempts}
          /\ UNCHANGED <<bg, phase>>
    /\ UNCHANGED <<events, startup, autostart, finished, closing, quitting, updateReq,
                   updateDone, lastFailed, flagged, stopped, reserved, failed, obs>>

(* _stop_owned_obs_for_update: an owned OBS is asked to close, never killed; *)
(* one that stays, or that nobody may stop, ends the update.                 *)
AcceptUpdate == gui' = "quit" /\ updateDone' = updateReq
VerifyObs ==
    /\ GuiStep /\ gui = "verify"
    /\ obs' \in IF obs = "owned" THEN {"none", "owned"} ELSE {obs}
    /\ \/ /\ obs' = "none" /\ AcceptUpdate
          /\ UNCHANGED <<events, closing, quitting, updateReq, attempts, lastFailed>>
       \/ lastFailed' = TRUE /\ Abort
    /\ UNCHANGED <<winVars, timer, workVars>>

DismissAbort ==
    /\ GuiStep /\ gui = "abortBox" /\ gui' = "loop"
    /\ UNCHANGED <<events, winVars, endVars, workVars, obs>>

-----------------------------------------------------------------------------
Handler == MinimizeToTray \/ BeginClose \/ StopWork \/ AbortUnstopped \/ RetryClose \/ AskForce
             \/ AnswerForce \/ VerifyObs \/ FlagUpdate \/ FlagSettings \/ WaitSettings
Gui == Handler \/ CloseTimer \/ DismissAbort \/ BeginSetup \/ EndSetup \/ ShowHome
         \/ RecorderFinished \/ ShowSettings \/ PollRefused \/ PollGranted \/ PollFails \/ Quit

Guard == Claim \/ Acquire \/ LeaveMain \/ ProcessEnds

Next == \/ FirstQuery \/ InstallerStep \/ GiveUp
        \/ Guard
        \/ \E i \in Workers : WorkerStep(i)
        \/ ObsEnds
        \/ Gui

Spec == Init /\ [][Next]_vars

(* The GUI thread runs: a handler that has begun ends, for its waits are     *)
(* bounded, and an expired timer is served however often the user clicks     *)
(* (hence the strong fairness).  Nothing is assumed of the user, the         *)
(* workers, OBS or the installer.                                            *)
FairSpec == Spec /\ WF_vars(Handler) /\ SF_vars(CloseTimer) /\ WF_vars(LeaveMain)

-----------------------------------------------------------------------------
(* Properties.                                                               *)

(* Every variable has its type, and no number passes its bound.              *)
TypeOK ==
    /\ ins \in Handles \union {"idle", "open"} /\ seen \in BOOLEAN
    /\ verdict \in {"none", "proceed", "refused"} /\ installs \in 0 .. MaxInstalls
    /\ app \in {"none", "claiming", "running", "releasing", "exiting"}
    /\ launches \in 0 .. MaxLaunches
    /\ events \subseteq {"request", "blocked", "complete"}
    /\ gui \in {"loop", "flagSettings", "waitSettings", "flagUpdate", "flagNested", "close",
                "stopping", "unstopped", "verify", "abortBox", "question", "quit"}
    /\ startup \in {"pending", "active", "done"} /\ autostart \in BOOLEAN
    /\ bg \in 0 .. MaxWorkers /\ finished \subseteq Workers
    /\ closing \in BOOLEAN /\ quitting \in BOOLEAN /\ updateReq \in BOOLEAN
    /\ updateDone \in BOOLEAN /\ attempts \in 0 .. (MaxAttempts + 1) /\ timer \in BOOLEAN
    /\ lastFailed \in BOOLEAN /\ phase \in [Workers -> Phases]
    /\ flagged \subseteq Workers /\ stopped \subseteq Workers /\ reserved \subseteq Workers
    /\ failed \subseteq Workers /\ obs \in {"none", "owned", "foreign"}
    /\ lost \subseteq Workers

(* development-map.md: the installer waits for the completion and for the    *)
(* mutex, and fails closed otherwise.  After it has asked a running          *)
(* application, it replaces files only when that process is gone with no     *)
(* recorder thread left, and no managed OBS but that of a dropped worker.    *)
ProceedOnlyWhenQuiet ==
    [][verdict' = "proceed" /\ ins \in Handles
         => /\ app = "none" /\ \A i \in Workers : ~Running(i)
            /\ lost = {} => obs = "none"]_vars

(* A window that is closing is never left in its event loop without the      *)
(* timer that closes it again: nothing else would answer the installer.      *)
NotStuckClosing == app = "running" /\ closing /\ gui \in {"loop", "abortBox"} => timer

(* An update attempt is decided: the application leaves, or it resumes and   *)
(* has told the installer so.                                                *)
UpdateDecides == (updateReq /\ closing) ~> (app # "running" \/ ~closing)

(* How many handlers of the GUI thread are left at most until it is decided. *)
StepsLeft ==
    CASE gui = "stopping"     -> IF UpdateAttemptsUsed THEN 3 ELSE 8
      [] gui = "unstopped"    -> IF UpdateAttemptsUsed THEN 2 ELSE 7
      [] gui = "flagSettings" -> 7
      [] gui = "waitSettings" -> 6
      [] gui = "loop"         -> 5
      [] gui = "close"        -> 4
      [] gui = "verify"       -> 2
      [] OTHER                -> 1

(* An update attempt that has closed the window is not withdrawn in silence: *)
(* the installer is told, and until then each handler leaves fewer of them,  *)
(* however often workers and OBS outlive the waits.  Only the user, who      *)
(* opens the settings between two attempts, adds to them.                    *)
UpdateCountsDown ==
    [][updateReq /\ closing /\ app = "running" =>
          \/ ~closing' /\ "blocked" \in events'
          \/ /\ updateReq' /\ closing'
             /\ Handler \/ CloseTimer => StepsLeft' < StepsLeft
             /\ ShowSettings \/ StepsLeft' <= StepsLeft
          \/ LeaveMain]_vars

(* manual-test-checklist.md: the end of the application stops the recording  *)
(* process and OBS connection safely.  No recorder thread runs when the      *)
(* process ends ...                                                          *)
ExitStopsRecorder ==
    app \in {"releasing", "exiting"} => \A i \in Workers : ~Running(i)

(* ... which is true of those that were not dropped: whatever the closing    *)
(* chain waits for, gives up, or asks the user, it never leaves a recorder   *)
(* it knows of.                                                              *)
OnlyDroppedOutlive ==
    app \in {"releasing", "exiting"} => \A i \in Workers : Running(i) => i \in lost

=============================================================================
