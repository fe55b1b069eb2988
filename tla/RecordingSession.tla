-------------------------- MODULE RecordingSession --------------------------
(* One run of RecordingSupervisor.run (recording_supervisor.py) with the     *)
(* LoLAutoRecorder it drives (recordtest.py), the recording half of the      *)
(* ObsWebSocketClient and the record output of OBS itself.                   *)
(*                                                                           *)
(* The supervisor is a coroutine on the worker thread's event loop.  A stop  *)
(* request of the GUI thread is posted to that loop, so the program sees it  *)
(* only where the coroutine awaits; the update reservation is taken under a  *)
(* lock and takes effect at once.  OBS is a separate process that may start  *)
(* late, stop by itself or die between any two requests.                     *)
(* One step of the model is the code between two awaits, two OBS requests or *)
(* two lock sections.                                                        *)
EXTENDS Integers, FiniteSets

CONSTANTS
    MaxGames,   \* bound: number of games the player starts
    Faults      \* may OBS, the connection and the disk fail?

ASSUME MaxGamesAssumption == MaxGames \in Nat
ASSUME FaultsAssumption == Faults \in BOOLEAN

VARIABLES
    \* RecordingSupervisor
    pc,             \* where the coroutine stands
    fin,            \* why the session is being finalised
    active,         \* _recording_active
    reserved,       \* _update_shutdown_reserved
    attempted,      \* session_finalize_attempted
    mayContinue,    \* should_continue of the exception handler
    saved,          \* FinalizeResult.success
    \* stop request
    posted,         \* the GUI called RecorderWorker.stop
    stop,           \* stop_event is set
    \* LoLAutoRecorder
    recStarted,     \* recording_started
    recPath,        \* record_path: the OBS recording it names, 0 for None
    stopTried,      \* _recording_stop_attempted
    outcome,        \* session_outcome
    otherData,      \* champion select, synchronisation or event data exist
    finalized,      \* session_finalized
    requireClear,   \* _require_game_clear
    \* ObsWebSocketClient
    client,         \* the socket: "up", or "none" once discarded
    conn,           \* _recording_connection was captured
    recovered,      \* _recording_recovery_attempted
    \* OBS
    out,            \* the record output: off, starting, on; or OBS is dead
    take,           \* number of the latest recording of OBS
    \* observations
    games,          \* games seen so far
    session,        \* sessions begun (reset_session)
    log,            \* outcome in the saved session log, "none" without one
    notes,          \* notifications sent for this session
    stops,          \* StopRecord requests sent in this session
    stopLost,       \* a StopRecord of this session was never confirmed
    allowForce,     \* the allow_force the runtime is closed with
    forced          \* OBS was killed by force after the update reservation

supVars  == <<fin, active, attempted, mayContinue, saved>>
recVars  == <<recStarted, recPath, stopTried, outcome, otherData, finalized, requireClear>>
cliVars  == <<client, conn, recovered>>
obsVars  == <<out, take>>
obsvVars == <<games, session, log, notes, stops, stopLost, allowForce, forced>>
vars == <<pc, reserved, posted, stop, supVars, recVars, cliVars, obsVars, obsvVars>>

Outcomes == {"completed", "aborted", "failed"}
Reasons  == {"none", "completed", "aborted", "failed", "shutdown", "stopOnly"}

(* Control points inside the try of run(): from _begin_recording to          *)
(* _finish_recording.                                                        *)
Inside == {"prepare", "settle", "adopt", "wait1", "recover", "resettle", "wait2", "startFail",
           "sync", "started", "recording", "result", "failing"}
Finalising == {"finStatus", "finStop", "save", "verdict"}

(* Control points where the coroutine awaits: callbacks of the loop, and     *)
(* with them a posted stop, run only there.                                  *)
Awaiting == {"clear", "watch", "settle", "wait1", "resettle", "wait2", "sync", "recording",
             "result", "postClear", "deferClear"}

PCs == {"setup", "loop", "clear", "watch"} \union Inside \union Finalising
         \union {"postClear", "deferClear", "closing", "terminate", "killing", "done"}

Init ==
    /\ pc = "setup" /\ fin = "none" /\ active = FALSE /\ reserved = FALSE
    /\ attempted = FALSE /\ mayContinue = FALSE /\ saved = TRUE
    /\ stop \in BOOLEAN /\ posted = stop    \* run(): stop_flag may be set before the loop exists
    /\ recStarted = FALSE /\ recPath = 0 /\ stopTried = FALSE /\ outcome = "completed"
    /\ otherData = FALSE /\ finalized = FALSE /\ requireClear = FALSE
    /\ client = "up" /\ conn = FALSE /\ recovered = FALSE
    /\ out = "off" /\ take = 0
    /\ games = 0 /\ session = 0 /\ log = "none" /\ notes = {} /\ stops = 0
    /\ stopLost = FALSE /\ allowForce = TRUE /\ forced = FALSE

Goto(from, to) == pc = from /\ pc' = to

(* has_session_data                                                          *)
HasSessionData == ~finalized /\ (recStarted \/ recPath # 0 \/ otherData)

-----------------------------------------------------------------------------
(* The GUI thread and the event loop.                                        *)

(* RecorderWorker.stop: the event is set by a callback of the loop.          *)
PostStop ==
    /\ ~posted /\ posted' = TRUE
    /\ UNCHANGED <<pc, reserved, stop, supVars, recVars, cliVars, obsVars, obsvVars>>

DeliverStop ==
    /\ posted /\ ~stop /\ pc \in Awaiting
    /\ stop' = TRUE
    /\ UNCHANGED <<pc, reserved, posted, supVars, recVars, cliVars, obsVars, obsvVars>>

(* reserve_update_shutdown, refused while a recording is active; once it is  *)
(* granted request_update_shutdown calls stop().                             *)
ReserveUpdateShutdown ==
    /\ ~active /\ ~reserved
    /\ reserved' = TRUE /\ posted' = TRUE
    /\ UNCHANGED <<pc, stop, supVars, recVars, cliVars, obsVars, obsvVars>>

-----------------------------------------------------------------------------
(* OBS, on its own.                                                          *)

OutputStarts ==
    /\ out = "starting" /\ out' = "on"
    /\ UNCHANGED <<pc, reserved, posted, stop, supVars, recVars, cliVars, take, obsvVars>>

(* An encoder that does not come up, a full disk, OBS closed by its user.    *)
OutputFails ==
    /\ Faults /\ out \in {"starting", "on"} /\ out' = "off"
    /\ UNCHANGED <<pc, reserved, posted, stop, supVars, recVars, cliVars, take, obsvVars>>

ObsDies ==
    /\ Faults /\ out # "dead" /\ out' = "dead"
    /\ UNCHANGED <<pc, reserved, posted, stop, supVars, recVars, cliVars, take, obsvVars>>

(* _get_record_status: a transport error discards the socket, and one        *)
(* reconnection per prepared recording may replace it.  The answer is        *)
(* "active", "inactive" or "error": an exception, or a reply of OBS that     *)
(* holds no status, which leaves the socket as it is.                        *)
Reading == IF out = "on" THEN "active" ELSE "inactive"

RecordStatus(answer) ==
    \/ /\ client = "up" /\ out # "dead" /\ answer = Reading
       /\ UNCHANGED cliVars
    \/ /\ client = "up" /\ Faults /\ out # "dead" /\ answer = "error"
       /\ UNCHANGED cliVars
    \/ /\ client = "up" /\ Faults /\ conn /\ ~recovered
       /\ recovered' = TRUE /\ conn' = conn
       /\ \/ out # "dead" /\ client' = "up" /\ answer = Reading
          \/ client' = "none" /\ answer = "error"
    \/ /\ client = "up" /\ Faults /\ (~conn \/ recovered)
       /\ client' = "none" /\ answer = "error" /\ UNCHANGED <<conn, recovered>>
    \/ /\ client = "none" /\ answer = "error" /\ UNCHANGED cliVars

-----------------------------------------------------------------------------
(* run(): configuration, preflight, runtime, audio profile.                  *)
SetupOk ==
    /\ Goto("setup", "loop")
    /\ UNCHANGED <<reserved, posted, stop, supVars, recVars, cliVars, obsVars, obsvVars>>

(* Preflight or create_runtime raises: there is nothing to shut down.        *)
SetupFails ==
    /\ Faults /\ Goto("setup", "done")
    /\ UNCHANGED <<reserved, posted, stop, supVars, recVars, cliVars, obsVars, obsvVars>>

(* _apply_audio_profile raises after the runtime exists.                     *)
AudioProfileFails ==
    /\ Faults /\ Goto("setup", "closing")
    /\ UNCHANGED <<reserved, posted, stop, supVars, recVars, cliVars, obsVars, obsvVars>>

(* The head of the while loop.                                               *)
BeginSession ==
    /\ ~stop /\ Goto("loop", "clear")
    /\ recStarted' = FALSE /\ recPath' = 0 /\ stopTried' = FALSE /\ outcome' = "completed"
    /\ otherData' = FALSE /\ finalized' = FALSE
    /\ attempted' = FALSE
    /\ session' = session + 1 /\ log' = "none" /\ notes' = {} /\ stops' = 0
    /\ UNCHANGED <<reserved, posted, stop, fin, active, mayContinue, saved, requireClear, cliVars,
                   obsVars, games, stopLost, allowForce, forced>>

(* Mutant: the inner waits do not look at the stop.                          *)
StopSeenAtHeadOnly == {"loop"}

(* should_stop is asked at the head of every waiting loop.                   *)
StopSeen == {"loop", "clear", "watch"}

LeaveLoop ==
    /\ stop /\ pc \in StopSeen /\ pc' = "closing"
    /\ UNCHANGED <<reserved, posted, stop, supVars, recVars, cliVars, obsVars, obsvVars>>

(* An unexpected exception while waiting leaves run() through its finally.   *)
WaitRaises ==
    /\ Faults /\ pc \in {"clear", "watch"} /\ pc' = "closing"
    /\ UNCHANGED <<reserved, posted, stop, supVars, recVars, cliVars, obsVars, obsvVars>>

(* wait_for_game_start_async: first the previous game must be gone ...       *)
PreviousGameClear ==
    /\ ~stop /\ Goto("clear", "watch")
    /\ requireClear' = FALSE
    /\ UNCHANGED <<reserved, posted, stop, supVars, recStarted, recPath, stopTried, outcome,
                   otherData, finalized, cliVars, obsVars, obsvVars>>

(* ... champion select leaves data ...                                       *)
CaptureChampSelect ==
    /\ ~stop /\ pc = "watch" /\ ~otherData /\ otherData' = TRUE
    /\ UNCHANGED <<pc, reserved, posted, stop, supVars, recStarted, recPath, stopTried, outcome,
                   finalized, requireClear, cliVars, obsVars, obsvVars>>

(* Mutant: a reservation is not looked at.                                   *)
MayBeginUnlocked == TRUE

(* ... and a game starts: _begin_recording, unless an update is reserved.    *)
MayBegin == ~reserved

GameStarts ==
    /\ ~stop /\ pc = "watch" /\ games < MaxGames
    /\ games' = games + 1
    /\ IF MayBegin THEN pc' = "prepare" /\ active' = TRUE
                   ELSE pc' = "closing" /\ active' = active
    /\ UNCHANGED <<reserved, posted, stop, fin, attempted, mayContinue, saved, recVars, cliVars,
                   obsVars, session, log, notes, stops, stopLost, allowForce, forced>>

-----------------------------------------------------------------------------
(* start_recording_async.                                                    *)

(* prepare_recording_start: the connection may not be captured, and every    *)
(* exception of it is swallowed.                                             *)
CaptureConnection ==
    /\ recovered' = FALSE /\ client' = client
    /\ conn' \in IF client = "up" /\ out # "dead" /\ ~Faults THEN {TRUE}
                 ELSE IF client = "up" /\ out # "dead" THEN BOOLEAN ELSE {FALSE}

Prepare ==
    /\ Goto("prepare", "settle")
    /\ CaptureConnection
    /\ UNCHANGED <<reserved, posted, stop, supVars, recVars, obsVars, obsvVars>>

(* The recordings directory or the marker source is missing.                 *)
PrepareRaises ==
    /\ Faults /\ Goto("prepare", "failing")
    /\ UNCHANGED <<reserved, posted, stop, supVars, recVars, cliVars, obsVars, obsvVars>>

(* A stop during the settle delay returns without an exception.              *)
SettleStopped ==
    /\ stop /\ Goto("settle", "started")
    /\ UNCHANGED <<reserved, posted, stop, supVars, recVars, cliVars, obsVars, obsvVars>>

NewRecording == out = "off" /\ out' = "starting" /\ take' = take + 1

(* StartRecord: accepted; rejected by OBS, then the status tells whether to  *)
(* adopt; or failed in transport, perhaps after OBS has executed it.         *)
StartRecord ==
    /\ ~stop /\ pc = "settle"
    /\ \/ /\ client = "up" /\ pc' = "wait1"
          /\ NewRecording \/ (out = "starting" /\ UNCHANGED obsVars)
       \/ /\ client = "up" /\ out = "on" /\ pc' = "adopt" /\ UNCHANGED obsVars
       \/ /\ client = "up" /\ out = "off" /\ Faults /\ pc' = "adopt" /\ UNCHANGED obsVars
       \/ /\ Faults /\ pc' = "recover"
          /\ (client = "up" /\ NewRecording) \/ UNCHANGED obsVars
       \/ /\ client = "none" /\ pc' = "recover" /\ UNCHANGED obsVars
    /\ UNCHANGED <<reserved, posted, stop, supVars, recVars, cliVars, obsvVars>>

RecordingConfirmed ==
    /\ recStarted' = TRUE
    /\ UNCHANGED <<recPath, stopTried, outcome, otherData, finalized, requireClear>>

(* "OBS was already recording": that recording is continued.                 *)
AdoptRunning ==
    /\ pc = "adopt"
    /\ \E answer \in {"active", "inactive", "error"} :
         /\ RecordStatus(answer)
         /\ IF answer = "active" THEN pc' = "sync" /\ RecordingConfirmed
                                 ELSE pc' = "recover" /\ UNCHANGED recVars
    /\ UNCHANGED <<reserved, posted, stop, supVars, obsVars, obsvVars>>

(* wait_for_recording_active_async, one poll; a stop or the timeout gives up *)
(* the first attempt for the retry and the retry for the failure.            *)
PollActive ==
    /\ ~stop /\ pc \in {"wait1", "wait2"}
    /\ \E answer \in {"active", "inactive", "error"} :
         /\ RecordStatus(answer)
         /\ IF answer = "active" THEN pc' = "sync" /\ RecordingConfirmed
                                 ELSE pc' = pc /\ UNCHANGED recVars
    /\ UNCHANGED <<reserved, posted, stop, supVars, obsVars, obsvVars>>

ActiveTimeout ==
    /\ stop \/ Faults
    /\ \/ Goto("wait1", "recover")
       \/ Goto("wait2", "startFail")
    /\ UNCHANGED <<reserved, posted, stop, supVars, recVars, cliVars, obsVars, obsvVars>>

(* _recover_recording_start_async: prepare again, settle, ToggleRecord.      *)
RecoverStart ==
    /\ pc = "recover"
    /\ IF stop THEN pc' = "startFail" /\ UNCHANGED cliVars
               ELSE pc' = "resettle" /\ CaptureConnection
    /\ UNCHANGED <<reserved, posted, stop, supVars, recVars, obsVars, obsvVars>>

ResettleStopped ==
    /\ stop /\ Goto("resettle", "startFail")
    /\ UNCHANGED <<reserved, posted, stop, supVars, recVars, cliVars, obsVars, obsvVars>>

(* ToggleRecord starts an idle output and stops a running one.               *)
ToggleOutput ==
    \/ NewRecording
    \/ out = "on" /\ out' = "off" /\ take' = take
    \/ out = "starting" /\ UNCHANGED obsVars

ToggleRecord ==
    /\ ~stop /\ pc = "resettle"
    /\ \/ client = "up" /\ ToggleOutput /\ pc' = "wait2"
       \/ client = "up" /\ Faults /\ ToggleOutput /\ pc' = "startFail"
       \/ (Faults \/ client = "none") /\ pc' = "startFail" /\ UNCHANGED obsVars
    /\ UNCHANGED <<reserved, posted, stop, supVars, recVars, cliVars, games, session, log, notes,
                   stops, stopLost, allowForce, forced>>

(* The error text asks OBS for its status once more, then RecorderError.     *)
StartFails ==
    /\ Goto("startFail", "failing")
    /\ \E answer \in {"active", "inactive", "error"} : RecordStatus(answer)
    /\ UNCHANGED <<reserved, posted, stop, supVars, recVars, obsVars, obsvVars>>

(* The GameStart event, the game time and the marker; a stop cuts it short.  *)
Synchronise ==
    /\ Goto("sync", "started")
    /\ otherData' \in {otherData, TRUE}
    /\ UNCHANGED <<reserved, posted, stop, supVars, recStarted, recPath, stopTried, outcome,
                   finalized, requireClear, cliVars, obsVars, obsvVars>>

MarkerRaises ==
    /\ Faults /\ Goto("sync", "failing")
    /\ otherData' = TRUE
    /\ UNCHANGED <<reserved, posted, stop, supVars, recStarted, recPath, stopTried, outcome,
                   finalized, requireClear, cliVars, obsVars, obsvVars>>

-----------------------------------------------------------------------------
(* finalize_session is entered with the outcome the supervisor decided.      *)
Finalise(why, result) ==
    /\ pc' = "finStatus" /\ fin' = why /\ attempted' = TRUE /\ outcome' = result
    /\ UNCHANGED <<recStarted, recPath, stopTried, otherData, finalized>>

NotifyStarted ==
    /\ pc = "started" /\ notes' = notes \union {"started"}
    /\ IF stop THEN Finalise("aborted", "aborted")
               ELSE pc' = "recording" /\ UNCHANGED <<fin, attempted, outcome, recStarted, recPath,
                                                     stopTried, otherData, finalized>>
    /\ UNCHANGED <<reserved, posted, stop, active, mayContinue, saved, requireClear, cliVars,
                   obsVars, games, session, log, stops, stopLost, allowForce, forced>>

(* record_until_end_async: a poll reads the recording clock and the events.  *)
ObserveGame ==
    /\ ~stop /\ pc = "recording"
    /\ \E answer \in {"active", "inactive", "error"} : RecordStatus(answer)
    /\ otherData' \in {otherData, TRUE}
    /\ UNCHANGED <<pc, reserved, posted, stop, supVars, recStarted, recPath, stopTried, outcome,
                   finalized, requireClear, obsVars, obsvVars>>

(* The end detector decides; the result of the game is then awaited ...      *)
GameEnds ==
    /\ ~stop /\ Goto("recording", "result")
    /\ UNCHANGED <<reserved, posted, stop, supVars, recVars, cliVars, obsVars, obsvVars>>

(* ... and a stop that arrives meanwhile no longer matters.  Only a GameEnd  *)
(* event makes the next session wait for this game to be gone.               *)
ResultAwaited ==
    /\ pc = "result"
    /\ Finalise("completed", "completed")
    /\ requireClear' \in BOOLEAN
    /\ UNCHANGED <<reserved, posted, stop, active, mayContinue, saved, cliVars, obsVars, obsvVars>>

(* Mutant: a cancelled recording is saved under its own outcome.             *)
CancelOutcomeKept == "cancelled"

(* record_until_end_async returned CANCELLED: saved as ABORTED.              *)
CancelOutcome == "aborted"

RecordingCancelled ==
    /\ stop /\ pc = "recording"
    /\ IF HasSessionData
         THEN Finalise("aborted", CancelOutcome) /\ active' = active
         ELSE /\ pc' = "closing" /\ active' = FALSE
              /\ UNCHANGED <<fin, attempted, outcome, recStarted, recPath, stopTried, otherData,
                             finalized>>
    /\ UNCHANGED <<reserved, posted, stop, mayContinue, saved, requireClear, cliVars, obsVars,
                   obsvVars>>

RecordingRaises ==
    /\ Faults /\ pc \in {"recording", "result"} /\ pc' = "failing"
    /\ UNCHANGED <<reserved, posted, stop, supVars, recVars, cliVars, obsVars, obsvVars>>

(* except Exception: partial save when there is anything to save.            *)
HandleFailure ==
    /\ pc = "failing"
    /\ mayContinue' = ~stop
    /\ IF HasSessionData
         THEN Finalise("failed", "failed") /\ saved' = saved
         ELSE /\ pc' = "verdict" /\ fin' = "failed" /\ saved' = TRUE
              /\ UNCHANGED <<attempted, outcome, recStarted, recPath, stopTried, otherData,
                             finalized>>
    /\ UNCHANGED <<reserved, posted, stop, active, requireClear, cliVars, obsVars, obsvVars>>

-----------------------------------------------------------------------------
(* _stop_recording_locked, which finalize_session and shutdown share.        *)
AfterStop == IF fin = "stopOnly" THEN "terminate" ELSE "save"

(* Mutant: a StopRecord whose reply was lost is sent again.                  *)
StopRefusedOnce == recPath # 0 \/ ~recStarted \/ client = "none"

(* Nothing to stop, or the stop cannot be asked for (again).                 *)
StopRefused == recPath # 0 \/ ~recStarted \/ client = "none" \/ stopTried

StopSkipped ==
    /\ pc = "finStatus" /\ pc' = AfterStop
    /\ StopRefused
    /\ outcome' = IF recPath # 0 \/ ~recStarted THEN outcome ELSE "failed"
    /\ UNCHANGED <<reserved, posted, stop, supVars, recStarted, recPath, stopTried, otherData,
                   finalized, requireClear, cliVars, obsVars, obsvVars>>

(* Only a recording OBS confirms to be running is stopped.                   *)
StopChecksStatus ==
    /\ pc = "finStatus" /\ ~StopRefused
    /\ \E answer \in {"active", "inactive", "error"} :
         /\ RecordStatus(answer)
         /\ IF answer = "active"
              THEN pc' = "finStop" /\ UNCHANGED <<recStarted, outcome>>
              ELSE /\ pc' = AfterStop /\ outcome' = "failed"
                   /\ recStarted' = (answer = "error")
    /\ UNCHANGED <<reserved, posted, stop, supVars, recPath, stopTried, otherData, finalized,
                   requireClear, obsVars, obsvVars>>

(* ObsWebSocketClient.stop_recording gives up the right to reconnect first;  *)
(* a lost reply cannot establish which recording is now active.              *)
DropRecoveryContext == conn' = FALSE /\ recovered' = TRUE

(* StopRecord: the file is reported, not reported, there was no recording    *)
(* any more (501), OBS refuses, or the reply is lost.                        *)
StopRecord ==
    /\ pc = "finStop" /\ pc' = AfterStop
    /\ stopTried' = TRUE /\ stops' = stops + 1
    /\ DropRecoveryContext
    /\ \/ /\ out = "on" /\ out' = "off" /\ recStarted' = FALSE /\ client' = client
          /\ \/ recPath' = take /\ outcome' = outcome
             \/ Faults /\ recPath' = 0 /\ outcome' = "failed"
          /\ stopLost' = stopLost
       \/ /\ out \in {"off", "starting"} /\ out' = out /\ recStarted' = FALSE /\ client' = client
          /\ recPath' = 0 /\ outcome' = "failed" /\ stopLost' = stopLost
       \/ /\ Faults /\ recStarted' = recStarted /\ recPath' = 0 /\ outcome' = "failed"
          /\ \/ client' = client /\ out # "dead" /\ out' = out
             \/ client' = "none" /\ out' \in IF out = "on" THEN {"on", "off"} ELSE {out}
          /\ stopLost' = TRUE
    /\ UNCHANGED <<reserved, posted, stop, supVars, otherData, finalized, requireClear, take,
                   games, session, log, notes, allowForce, forced>>

(* The rest of finalize_session: save_json, when there is anything to save.  *)
SaveSession ==
    /\ Goto("save", "verdict")
    /\ IF HasSessionData
         THEN \/ finalized' = TRUE /\ log' = outcome /\ saved' = TRUE
              \/ Faults /\ UNCHANGED <<finalized, log>> /\ saved' = FALSE
         ELSE UNCHANGED <<finalized, log>> /\ saved' = TRUE
    /\ UNCHANGED <<reserved, posted, stop, fin, active, attempted, mayContinue, recStarted,
                   recPath, stopTried, outcome, otherData, requireClear, cliVars, obsVars, games,
                   session, notes, stops, stopLost, allowForce, forced>>

(* Mutant: a saved log is enough for complete.                               *)
SessionCompleteIfSaved == saved

(* What run() does with the FinalizeResult.  Each way passes the finally of  *)
(* the loop body, _finish_recording.                                         *)
SessionComplete == saved /\ outcome = "completed"

CompletedVerdict ==
    /\ pc = "verdict" /\ fin = "completed" /\ active' = FALSE
    /\ IF SessionComplete
         THEN pc' = "postClear" /\ notes' = notes
         ELSE pc' = "closing" /\ notes' = notes \union {"failed"}
    /\ UNCHANGED <<reserved, posted, stop, fin, attempted, mayContinue, saved, recVars, cliVars,
                   obsVars, games, session, log, stops, stopLost, allowForce, forced>>

(* An unconfirmed stop or a failed save ends the monitoring; otherwise the   *)
(* next session waits for the game that failed to be gone.                   *)
ContinueAfterFailure == mayContinue /\ saved /\ ~recStarted

AfterFailure == "deferClear"

FailedVerdict ==
    /\ pc = "verdict" /\ fin = "failed" /\ active' = FALSE
    /\ notes' = notes \union {"failed"}
    /\ mayContinue' = ContinueAfterFailure
    /\ IF ContinueAfterFailure
         THEN pc' = AfterFailure /\ requireClear' = TRUE
         ELSE pc' = "closing" /\ requireClear' = requireClear
    /\ UNCHANGED <<reserved, posted, stop, fin, attempted, saved, recStarted, recPath, stopTried,
                   outcome, otherData, finalized, cliVars, obsVars, games, session, log, stops,
                   stopLost, allowForce, forced>>

(* Mutant: an abort is always taken for clean.                               *)
AbortUnchecked == TRUE

(* _finalize_aborted, from the loop body or from shutdown().                 *)
AbortClean == saved /\ outcome = "aborted" /\ ~recStarted

AbortedVerdict ==
    /\ pc = "verdict" /\ fin \in {"aborted", "shutdown"} /\ active' = FALSE
    /\ pc' = IF fin = "aborted" THEN "closing" ELSE "terminate"
    /\ notes' = IF AbortClean THEN notes ELSE notes \union {"failed"}
    /\ UNCHANGED <<reserved, posted, stop, fin, attempted, mayContinue, saved, recVars, cliVars,
                   obsVars, games, session, log, stops, stopLost, allowForce, forced>>

(* _wait_for_post_game_notification_window, then RECORDING_COMPLETED: the    *)
(* wait ends with the game, with a stop or with a swallowed exception.       *)
NotifyCompleted ==
    /\ Goto("postClear", "loop")
    /\ requireClear' \in IF stop THEN {requireClear} ELSE IF Faults THEN {requireClear, FALSE}
                         ELSE {FALSE}
    /\ notes' = notes \union {"completed"}
    /\ UNCHANGED <<reserved, posted, stop, supVars, recStarted, recPath, stopTried, outcome,
                   otherData, finalized, cliVars, obsVars, games, session, log, stops, stopLost, allowForce, forced>>

FailedGameClear ==
    /\ pc = "deferClear" /\ pc' = IF stop THEN "closing" ELSE "loop"
    /\ requireClear' \in IF stop THEN {requireClear} ELSE {requireClear, FALSE}
    /\ UNCHANGED <<reserved, posted, stop, supVars, recStarted, recPath, stopTried, outcome,
                   otherData, finalized, cliVars, obsVars, obsvVars>>

-----------------------------------------------------------------------------
(* shutdown().                                                               *)
Shutdown ==
    /\ pc = "closing" /\ stop' = TRUE
    /\ IF HasSessionData /\ ~attempted
         THEN Finalise("shutdown", "aborted")
         ELSE /\ IF finalized THEN pc' = "terminate" /\ fin' = fin
                              ELSE pc' = "finStatus" /\ fin' = "stopOnly"
              /\ UNCHANGED <<attempted, outcome, recStarted, recPath, stopTried, otherData,
                             finalized>>
    /\ UNCHANGED <<reserved, posted, active, mayContinue, saved, requireClear, cliVars, obsVars,
                   obsvVars>>

(* The reservation is read once, without the lock ...                        *)
CloseRuntime ==
    /\ Goto("terminate", "killing")
    /\ allowForce' = ~reserved
    /\ UNCHANGED <<reserved, posted, stop, supVars, recVars, cliVars, obsVars, games, session, log,
                   notes, stops, stopLost, forced>>

(* ... and the termination of OBS, which may take seconds, acts on it.       *)
TerminateObs ==
    /\ Goto("killing", "done")
    /\ \/ out' = "dead" /\ forced' = forced
       \/ Faults /\ allowForce /\ out # "dead" /\ out' = "dead" /\ forced' = (forced \/ reserved)
       \/ Faults /\ out' = out /\ forced' = forced
    /\ client' = "none"
    /\ UNCHANGED <<reserved, posted, stop, supVars, recVars, conn, recovered, take, games, session,
                   log, notes, stops, stopLost, allowForce>>

Finished == pc = "done" /\ UNCHANGED vars

-----------------------------------------------------------------------------
Gui == PostStop \/ ReserveUpdateShutdown
Obs == OutputStarts \/ OutputFails \/ ObsDies
Game == CaptureChampSelect \/ GameStarts \/ GameEnds

Start == \/ Prepare \/ SettleStopped \/ StartRecord \/ AdoptRunning \/ PollActive
         \/ ActiveTimeout \/ RecoverStart \/ ResettleStopped \/ ToggleRecord \/ StartFails
         \/ Synchronise \/ NotifyStarted

Finalisation == \/ StopSkipped \/ StopChecksStatus \/ StopRecord \/ SaveSession
                \/ CompletedVerdict \/ FailedVerdict \/ AbortedVerdict

(* The coroutine's own steps; a game that starts or ends is the player's.    *)
Program == \/ SetupOk \/ BeginSession \/ LeaveLoop \/ PreviousGameClear \/ Start
           \/ ObserveGame \/ ResultAwaited \/ RecordingCancelled \/ HandleFailure
           \/ Finalisation \/ NotifyCompleted \/ FailedGameClear \/ Shutdown \/ CloseRuntime
           \/ TerminateObs

(* Exceptions that something outside the program causes.                     *)
Raise == SetupFails \/ AudioProfileFails \/ WaitRaises \/ PrepareRaises \/ MarkerRaises
           \/ RecordingRaises

Next == Gui \/ DeliverStop \/ Obs \/ Game \/ Program \/ Raise \/ Finished

Spec == Init /\ [][Next]_vars

(* The loop runs its callbacks and resumes the coroutine: every await of the *)
(* program has a timeout or ends with the stop event.  Nothing is assumed of *)
(* the player, the GUI, OBS or the failures: no exception helps to progress. *)
Fairness == WF_vars(Program) /\ WF_vars(DeliverStop)

FairSpec == Spec /\ Fairness

-----------------------------------------------------------------------------
(* Properties.                                                               *)

FlagType ==
    /\ active \in BOOLEAN /\ reserved \in BOOLEAN /\ attempted \in BOOLEAN
    /\ mayContinue \in BOOLEAN /\ saved \in BOOLEAN /\ posted \in BOOLEAN /\ stop \in BOOLEAN
    /\ recStarted \in BOOLEAN /\ stopTried \in BOOLEAN /\ otherData \in BOOLEAN
    /\ finalized \in BOOLEAN /\ requireClear \in BOOLEAN /\ conn \in BOOLEAN
    /\ recovered \in BOOLEAN /\ stopLost \in BOOLEAN
    /\ allowForce \in BOOLEAN /\ forced \in BOOLEAN

DataType ==
    /\ pc \in PCs /\ fin \in Reasons
    /\ recPath \in Nat /\ outcome \in Outcomes
    /\ client \in {"up", "none"}
    /\ out \in {"off", "starting", "on", "dead"} /\ take \in Nat
    /\ games \in 0 .. MaxGames /\ session \in Nat /\ log \in Outcomes \union {"none"}
    /\ notes \subseteq {"started", "completed", "failed"} /\ stops \in Nat

(* Every variable has its type; the two halves are proved apart.             *)
TypeOK == FlagType /\ DataType

(* An update reservation and a recording exclude each other for the whole    *)
(* stretch from _begin_recording to _finish_recording, finalisation and save *)
(* included (only the abort inside shutdown(), after the loop, may finalise  *)
(* under a reservation).                                                     *)
ReservationExcludesRecording ==
    reserved => pc \notin Inside /\ (pc \in Finalising => fin \in {"shutdown", "stopOnly"})

(* No session sends StopRecord twice, although the exception handler, the    *)
(* abort path and shutdown() each try to stop the recording.                 *)
StopSentOnce == stops <= 1

(* A session told to be complete has a saved log that says so, the file of   *)
(* an OBS recording, exactly one StopRecord and no recording left over.      *)
CompletedIsWhole ==
    ("completed" \in notes \/ log = "completed") =>
        /\ log = "completed" /\ recPath # 0 /\ stops = 1
        /\ ~recStarted /\ ~stopLost

(* The user is never told both that a session completed and that it failed.  *)
OneVerdict == ~({"completed", "failed"} \subseteq notes)

(* After a StopRecord whose effect was never confirmed the supervisor starts *)
(* no other session, nor does it while a recording may still be running.     *)
UnknownStopEndsMonitoring ==
    [][session' # session => ~stopLost /\ ~recStarted]_vars

(* Nothing recorded is lost in silence: when the coroutine leaves a session  *)
(* that has a video, or may have one, its log is saved or the user was told  *)
(* of the failure.                                                           *)
NoSilentLoss ==
    pc \in {"closing", "terminate", "killing", "done", "postClear", "deferClear"}
      /\ (recPath # 0 \/ recStarted \/ stopTried) => finalized \/ "failed" \in notes

(* A stop request, whenever it arrives, ends the run.                        *)
StopEnds == posted ~> (pc = "done")

(* How many steps of the program are left at most once the stop is set.      *)
StepsLeft ==
    LET last == fin \in {"shutdown", "stopOnly"} IN
    CASE pc = "done" -> 0
      [] pc = "killing" -> 1
      [] pc = "terminate" -> 2
      [] pc = "verdict" -> IF last THEN 3 ELSE 10
      [] pc = "save" -> IF last THEN 4 ELSE 11
      [] pc = "finStop" -> IF last THEN 5 ELSE 12
      [] pc = "finStatus" -> IF last THEN 6 ELSE 13
      [] pc = "closing" -> 7
      [] pc = "loop" -> 8
      [] pc \in {"setup", "clear", "watch", "postClear", "deferClear"} -> 9
      [] pc \in {"failing", "started"} -> 14
      [] pc \in {"settle", "startFail", "sync", "recording", "result"} -> 15
      [] pc \in {"prepare", "recover", "resettle", "wait2"} -> 16
      [] pc \in {"adopt", "wait1"} -> 17

(* Once the stop is set it stays set, and every step of the program, raised  *)
(* exceptions included, leaves fewer steps to the end: neither the waits nor *)
(* the retry of the start nor a finalisation can go round again, whatever    *)
(* OBS, the game and the GUI do meanwhile.                                   *)
StopCountsDown ==
    [][stop => /\ stop'
               /\ \/ StepsLeft' < StepsLeft
                  \/ UNCHANGED <<pc, stop, supVars, recVars, cliVars, obsvVars>>]_vars

(* The supervisor implements its contract: a refinement in which the lock    *)
(* and the control points of run() become the phase.                         *)
Ending == {"closing", "terminate", "killing", "done"}
PhaseOf == IF active THEN "recording"
           ELSE IF pc \in Ending \/ pc \in Finalising THEN "ended" ELSE "waiting"
VerdictOf == IF "completed" \in notes THEN "completed"
             ELSE IF "failed" \in notes THEN "failed" ELSE "none"

Contract == INSTANCE RecordingContract
              WITH phase <- PhaseOf, barred <- reserved, lost <- stopLost, verdict <- VerdictOf
ImplementsContract == Contract!Spec

=============================================================================
