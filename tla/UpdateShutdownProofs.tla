------------------------- MODULE UpdateShutdownProofs -------------------------
(***************************************************************************)
(* Proofs about UpdateShutdown, for any number of recorder threads, runs   *)
(* of the installer and launches of the application.                       *)
(***************************************************************************)
EXTENDS UpdateShutdown, TLAPS

Guis == {"loop", "flagSettings", "waitSettings", "flagUpdate", "flagNested", "close",
         "stopping", "unstopped", "verify", "abortBox", "question", "quit"}
DataType ==
    /\ ins \in Handles \union {"idle", "open"} /\ verdict \in {"none", "proceed", "refused"}
    /\ app \in {"none", "claiming", "running", "releasing", "exiting"}
    /\ events \subseteq {"request", "blocked", "complete"}
    /\ gui \in Guis /\ startup \in {"pending", "active", "done"}
    /\ obs \in {"none", "owned", "foreign"}
CountType ==
    /\ installs \in 0 .. MaxInstalls /\ launches \in 0 .. MaxLaunches
    /\ attempts \in 0 .. (MaxAttempts + 1)
FlagType ==
    /\ seen \in BOOLEAN /\ autostart \in BOOLEAN /\ closing \in BOOLEAN /\ quitting \in BOOLEAN
    /\ updateReq \in BOOLEAN /\ updateDone \in BOOLEAN /\ timer \in BOOLEAN
    /\ lastFailed \in BOOLEAN
WorkType ==
    /\ bg \in 0 .. MaxWorkers /\ finished \subseteq Workers /\ phase \in [Workers -> Phases]
    /\ flagged \subseteq Workers /\ stopped \subseteq Workers /\ reserved \subseteq Workers
    /\ failed \subseteq Workers /\ lost \subseteq Workers

(* A handler that works on the recorder has one.                            *)
BgInv == gui \in {"flagSettings", "waitSettings", "flagUpdate", "flagNested"} => bg # 0
(* A window that is closing goes on, or waits for its timer.                *)
CloseInv ==
    /\ closing => quitting
    /\ gui \in {"abortBox", "flagNested"} => ~closing
    /\ closing /\ gui \in {"loop", "flagSettings", "waitSettings", "flagUpdate"} => timer
(* The only recorder thread that runs is the one the window knows, but for  *)
(* the dropped ones; a window that quits, or verifies OBS, has none left.   *)
NoneRuns == \A i \in Workers : ~Running(i)
OnlyDropped == \A i \in Workers : Running(i) => i \in lost
WorkInv ==
    /\ \A i \in Workers : Running(i) => i = bg \/ i \in lost
    /\ gui \in {"verify", "quit"} => OnlyDropped
    /\ app # "running" => OnlyDropped
    /\ app \in {"none", "claiming"} => NoneRuns
(* Once the completion is told, it is true, and stays so until the installer*)
(* has closed the events: no new instance of the application gets past them.*)
Told == "complete" \in events \/ (ins \in Handles /\ seen)
QuietInv ==
    /\ events # {} => AppHolds \/ ins \in Handles
    /\ ins = "open" => ~seen
    /\ ins # "idle" => verdict # "proceed"
    /\ updateDone => gui = "quit" /\ (lost = {} => obs = "none")
    /\ updateDone => app \notin {"none", "claiming"}
    /\ Told => app \in {"exiting", "none", "claiming"} /\ (lost = {} => obs = "none")
Types == DataType /\ CountType /\ FlagType /\ WorkType
IInv == Types /\ BgInv /\ CloseInv /\ WorkInv /\ QuietInv

-----------------------------------------------------------------------------
(* The types of the proofs and of the specification are the same.           *)
LEMMA TypesAgree == Types <=> TypeOK
  BY DEF Types, DataType, CountType, FlagType, WorkType, TypeOK, Guis

(* The recorder is started only when none runs that the window knows.       *)
LEMMA EnsureIs ==
    ASSUME WorkType, EnsureRecorder
    PROVE  /\ bg' \in 0 .. MaxWorkers /\ phase' \in [Workers -> Phases]
           /\ flagged' \subseteq Workers /\ stopped' \subseteq Workers
           /\ reserved' \subseteq Workers /\ failed' \subseteq Workers
           /\ \/ bg' = bg /\ phase' = phase
              \/ /\ ~BgRunning /\ bg' \in Workers
                 /\ \A i \in Workers : i # bg' => phase'[i] = phase[i]
<1>1. CASE StartRecorder
  <2>1. PICK i \in Workers : bg' = i /\ phase' = [phase EXCEPT ![i] = "new"]
    BY <1>1 DEF StartRecorder
  <2>2. i \in 0 .. MaxWorkers
    BY MaxWorkersAssumption DEF Workers
  <2>3. QED
    BY <1>1, <2>1, <2>2 DEF StartRecorder, MayStart, WorkType, Phases
<1>2. CASE KeepRecorder
  BY <1>2 DEF KeepRecorder, WorkType, workVars
<1>3. QED
  BY <1>1, <1>2 DEF EnsureRecorder

(* The recorder the window knows, when it runs, is one of the workers.      *)
LEMMA BgIsWorker == ASSUME WorkType, bg # 0 PROVE bg \in Workers
  BY MaxWorkersAssumption DEF WorkType, Workers

(* The background work is over, and a forced recorder killed, or it is not. *)
LEMMA StopWorkIs ==
    ASSUME StopWork
    PROVE  \/ bg' = bg /\ phase' = phase /\ gui' = "unstopped"
           \/ /\ WaitOver /\ gui' \in {"verify", "quit", "unstopped"}
              /\ phase' = IF BgRunning /\ MayForce THEN [phase EXCEPT ![bg] = "killed"] ELSE phase
<1>1. PICK others \in BOOLEAN, ended \in BOOLEAN :
        /\ ended => WaitOver
        /\ phase' = IF BgRunning /\ ended /\ MayForce THEN [phase EXCEPT ![bg] = "killed"]
            ELSE phase
        /\ bg' = IF ended /\ CountsAsStopped THEN 0 ELSE bg
        /\ gui' = IF ~(ended /\ CountsAsStopped /\ others) THEN "unstopped"
                  ELSE IF updateReq THEN "verify" ELSE "quit"
  BY DEF StopWork
<1>2. CASE ended
  BY <1>1, <1>2
<1>3. CASE ~ended
  BY <1>1, <1>3
<1>4. QED
  BY <1>2, <1>3

-----------------------------------------------------------------------------
(* Every step keeps DataType.                                               *)
LEMMA NextDataType == IInv /\ [Next]_vars => DataType'
<1> SUFFICES ASSUME IInv, [Next]_vars PROVE DataType'
  OBVIOUS
<1> USE DEF IInv, Types, DataType, Handles, Guis, FlagType, insVars, appVars, winVars, endVars,
    workVars, vars
<1>1. ASSUME FirstQuery PROVE DataType'
  BY <1>1 DEF FirstQuery, InstallerIdle
<1>2. ASSUME OpenEvents PROVE DataType'
  BY <1>2 DEF OpenEvents, InstallerIdle
<1>3. ASSUME ResetEvents PROVE DataType'
  <2>1. ins' \in Handles /\ events' \subseteq events
    BY <1>3 DEF ResetEvents
  <2>2. QED
    BY <1>3, <2>1 DEF ResetEvents, InstallerIdle
<1>4. ASSUME RequestShutdown PROVE DataType'
  BY <1>4 DEF RequestShutdown, InstallerIdle, Signal
<1>5. ASSUME PollBlocked PROVE DataType'
  BY <1>5 DEF PollBlocked, InstallerIdle, Return
<1>6. ASSUME PollComplete PROVE DataType'
  BY <1>6 DEF PollComplete, InstallerIdle
<1>7. ASSUME PollApp PROVE DataType'
  BY <1>7 DEF PollApp, InstallerIdle, Return, MayProceed
<1>8. ASSUME GiveUp PROVE DataType'
  BY <1>8 DEF GiveUp, InstallerIdle, Return
<1>9. ASSUME Claim PROVE DataType'
  BY <1>9 DEF Claim, GuardIdle
<1>10. ASSUME Acquire PROVE DataType'
  BY <1>10 DEF Acquire, GuardIdle, EventsTaken
<1>11. ASSUME LeaveMain PROVE DataType'
  BY <1>11 DEF LeaveMain, GuardIdle, Abandoned, Signal
<1>12. ASSUME ProcessEnds PROVE DataType'
  BY <1>12 DEF ProcessEnds, GuardIdle, Abandoned
<1>13. ASSUME NEW i \in Workers, CreateSupervisor(i) PROVE DataType'
  BY <1>13 DEF CreateSupervisor, WorkerIdle, Alive, Move, Flags
<1>14. ASSUME NEW i \in Workers, CheckRequested(i) PROVE DataType'
  BY <1>14 DEF CheckRequested, WorkerIdle, Alive, Move, Flags
<1>15. ASSUME NEW i \in Workers, LaunchObs(i) PROVE DataType'
  BY <1>15 DEF LaunchObs, WorkerIdle, Alive, Move, Flags
<1>16. ASSUME NEW i \in Workers, LaunchFails(i) PROVE DataType'
  BY <1>16 DEF LaunchFails, WorkerIdle, Alive, Move, Forget
<1>17. ASSUME NEW i \in Workers, BeginRecording(i) PROVE DataType'
  BY <1>17 DEF BeginRecording, WorkerIdle, Alive, Move, Flags
<1>18. ASSUME NEW i \in Workers, FinishRecording(i) PROVE DataType'
  BY <1>18 DEF FinishRecording, WorkerIdle, Alive, Move, Flags
<1>19. ASSUME NEW i \in Workers, StopWatching(i) PROVE DataType'
  BY <1>19 DEF StopWatching, WorkerIdle, Alive, Move, Flags
<1>20. ASSUME NEW i \in Workers, ShutDownObs(i) PROVE DataType'
  BY <1>20 DEF ShutDownObs, WorkerIdle, Alive, Move, Forget
<1>21. ASSUME ObsEnds PROVE DataType'
  BY <1>21 DEF ObsEnds
<1>22. ASSUME MinimizeToTray PROVE DataType'
  BY <1>22 DEF MinimizeToTray, GuiStep, GuiTurn
<1>23. ASSUME BeginClose PROVE DataType'
  BY <1>23, BgIsWorker DEF BeginClose, GuiStep, GuiTurn, BgRunning
<1>24. ASSUME StopWork PROVE DataType'
  BY <1>24, BgIsWorker DEF StopWork, GuiStep, GuiTurn, BgRunning, MayForce, WaitOver,
      CountsAsStopped
<1>25. ASSUME AbortUnstopped PROVE DataType'
  BY <1>25 DEF AbortUnstopped, GuiStep, GuiTurn, Abort, Signal, ObsUnconfirmed, UpdateAttemptsUsed
<1>26. ASSUME RetryClose PROVE DataType'
  BY <1>26 DEF RetryClose, GuiStep, GuiTurn, MayForce
<1>27. ASSUME AskForce PROVE DataType'
  BY <1>27 DEF AskForce, GuiStep, GuiTurn, MayForce
<1>28. ASSUME AnswerForce PROVE DataType'
  BY <1>28, BgIsWorker DEF AnswerForce, GuiStep, GuiTurn, BgRunning
<1>29. ASSUME VerifyObs PROVE DataType'
  BY <1>29 DEF VerifyObs, GuiStep, GuiTurn, Abort, Signal, AcceptUpdate
<1>30. ASSUME FlagUpdate PROVE DataType'
  BY <1>30, BgIsWorker DEF FlagUpdate, GuiStep, GuiTurn, FlagAndStop
<1>31. ASSUME FlagSettings PROVE DataType'
  BY <1>31, BgIsWorker DEF FlagSettings, GuiStep, GuiTurn, FlagAndStop
<1>32. ASSUME WaitSettings PROVE DataType'
  BY <1>32 DEF WaitSettings, GuiStep, GuiTurn
<1>33. ASSUME CloseTimer PROVE DataType'
  BY <1>33 DEF CloseTimer, GuiStep, GuiTurn, Close, InLoop
<1>34. ASSUME DismissAbort PROVE DataType'
  BY <1>34 DEF DismissAbort, GuiStep, GuiTurn
<1>35. ASSUME BeginSetup PROVE DataType'
  BY <1>35 DEF BeginSetup, GuiStep, GuiTurn
<1>36. ASSUME EndSetup PROVE DataType'
  BY <1>36, EnsureIs DEF EndSetup, GuiStep, GuiTurn
<1>37. ASSUME ShowHome PROVE DataType'
  BY <1>37, EnsureIs DEF ShowHome, GuiStep, GuiTurn
<1>38. ASSUME RecorderFinished PROVE DataType'
  BY <1>38, BgIsWorker DEF RecorderFinished, GuiStep, GuiTurn, BgRunning, BgFailed
<1>39. ASSUME ShowSettings PROVE DataType'
  BY <1>39, BgIsWorker DEF ShowSettings, GuiStep, GuiTurn, BgRunning, Ask, BgFailed
<1>40. ASSUME PollRefused PROVE DataType'
  BY <1>40 DEF PollRefused, GuiStep, GuiTurn, BgFailed, Consume, Left, InLoop
<1>41. ASSUME PollGranted PROVE DataType'
  BY <1>41, BgIsWorker DEF PollGranted, GuiStep, GuiTurn, BgRunning, Consume, Left, Ask, Close,
      InLoop
<1>42. ASSUME PollFails PROVE DataType'
  BY <1>42 DEF PollFails, GuiStep, GuiTurn, Signal, InLoop
<1>43. ASSUME Quit PROVE DataType'
  BY <1>43 DEF Quit, GuiStep, GuiTurn
<1>44. CASE UNCHANGED vars
  BY <1>44
<1>45. QED
  BY <1>1, <1>2, <1>3, <1>4, <1>5, <1>6, <1>7, <1>8, <1>9, <1>10, <1>11, <1>12, <1>13, <1>14,
      <1>15, <1>16, <1>17, <1>18, <1>19, <1>20, <1>21, <1>22, <1>23, <1>24, <1>25, <1>26, <1>27,
      <1>28, <1>29, <1>30, <1>31, <1>32, <1>33, <1>34, <1>35, <1>36, <1>37, <1>38, <1>39, <1>40,
      <1>41, <1>42, <1>43, <1>44 DEF Next, InstallerStep, Guard, WorkerStep, Gui, Handler

(* Every step keeps CountType.                                              *)
LEMMA NextCountType == IInv /\ [Next]_vars => CountType'
<1> SUFFICES ASSUME IInv, [Next]_vars PROVE CountType'
  OBVIOUS
<1> USE InstallsAssumption DEF IInv, Types, CountType, MaxAttempts, FreshAttempts, insVars,
    appVars, winVars, endVars, workVars, vars
<1>1. ASSUME FirstQuery PROVE CountType'
  BY <1>1 DEF FirstQuery, InstallerIdle
<1>2. ASSUME OpenEvents PROVE CountType'
  BY <1>2 DEF OpenEvents, InstallerIdle
<1>3. ASSUME ResetEvents PROVE CountType'
  BY <1>3 DEF ResetEvents, InstallerIdle
<1>4. ASSUME RequestShutdown PROVE CountType'
  BY <1>4 DEF RequestShutdown, InstallerIdle, Signal
<1>5. ASSUME PollBlocked PROVE CountType'
  BY <1>5 DEF PollBlocked, InstallerIdle, Return
<1>6. ASSUME PollComplete PROVE CountType'
  BY <1>6 DEF PollComplete, InstallerIdle
<1>7. ASSUME PollApp PROVE CountType'
  BY <1>7 DEF PollApp, InstallerIdle, Return, MayProceed
<1>8. ASSUME GiveUp PROVE CountType'
  BY <1>8 DEF GiveUp, InstallerIdle, Return
<1>9. ASSUME Claim PROVE CountType'
  BY <1>9 DEF Claim, GuardIdle
<1>10. ASSUME Acquire PROVE CountType'
  BY <1>10 DEF Acquire, GuardIdle, EventsTaken
<1>11. ASSUME LeaveMain PROVE CountType'
  BY <1>11 DEF LeaveMain, GuardIdle, Abandoned, Signal
<1>12. ASSUME ProcessEnds PROVE CountType'
  BY <1>12 DEF ProcessEnds, GuardIdle, Abandoned
<1>13. ASSUME NEW i \in Workers, CreateSupervisor(i) PROVE CountType'
  BY <1>13 DEF CreateSupervisor, WorkerIdle, Alive, Move, Flags
<1>14. ASSUME NEW i \in Workers, CheckRequested(i) PROVE CountType'
  BY <1>14 DEF CheckRequested, WorkerIdle, Alive, Move, Flags
<1>15. ASSUME NEW i \in Workers, LaunchObs(i) PROVE CountType'
  BY <1>15 DEF LaunchObs, WorkerIdle, Alive, Move, Flags
<1>16. ASSUME NEW i \in Workers, LaunchFails(i) PROVE CountType'
  BY <1>16 DEF LaunchFails, WorkerIdle, Alive, Move, Forget
<1>17. ASSUME NEW i \in Workers, BeginRecording(i) PROVE CountType'
  BY <1>17 DEF BeginRecording, WorkerIdle, Alive, Move, Flags
<1>18. ASSUME NEW i \in Workers, FinishRecording(i) PROVE CountType'
  BY <1>18 DEF FinishRecording, WorkerIdle, Alive, Move, Flags
<1>19. ASSUME NEW i \in Workers, StopWatching(i) PROVE CountType'
  BY <1>19 DEF StopWatching, WorkerIdle, Alive, Move, Flags
<1>20. ASSUME NEW i \in Workers, ShutDownObs(i) PROVE CountType'
  BY <1>20 DEF ShutDownObs, WorkerIdle, Alive, Move, Forget
<1>21. ASSUME ObsEnds PROVE CountType'
  BY <1>21 DEF ObsEnds
<1>22. ASSUME MinimizeToTray PROVE CountType'
  BY <1>22 DEF MinimizeToTray, GuiStep, GuiTurn
<1>23. ASSUME BeginClose PROVE CountType'
  BY <1>23, BgIsWorker DEF BeginClose, GuiStep, GuiTurn, BgRunning
<1>24. ASSUME StopWork PROVE CountType'
  BY <1>24, BgIsWorker DEF StopWork, GuiStep, GuiTurn, BgRunning, MayForce, WaitOver,
      CountsAsStopped
<1>25. ASSUME AbortUnstopped PROVE CountType'
  BY <1>25 DEF AbortUnstopped, GuiStep, GuiTurn, Abort, Signal, ObsUnconfirmed, UpdateAttemptsUsed
<1>26. ASSUME RetryClose PROVE CountType'
  BY <1>26 DEF RetryClose, GuiStep, GuiTurn, MayForce
<1>27. ASSUME AskForce PROVE CountType'
  BY <1>27 DEF AskForce, GuiStep, GuiTurn, MayForce
<1>28. ASSUME AnswerForce PROVE CountType'
  BY <1>28, BgIsWorker DEF AnswerForce, GuiStep, GuiTurn, BgRunning
<1>29. ASSUME VerifyObs PROVE CountType'
  BY <1>29 DEF VerifyObs, GuiStep, GuiTurn, Abort, Signal, AcceptUpdate
<1>30. ASSUME FlagUpdate PROVE CountType'
  BY <1>30, BgIsWorker DEF FlagUpdate, GuiStep, GuiTurn, FlagAndStop
<1>31. ASSUME FlagSettings PROVE CountType'
  BY <1>31, BgIsWorker DEF FlagSettings, GuiStep, GuiTurn, FlagAndStop
<1>32. ASSUME WaitSettings PROVE CountType'
  BY <1>32 DEF WaitSettings, GuiStep, GuiTurn
<1>33. ASSUME CloseTimer PROVE CountType'
  BY <1>33 DEF CloseTimer, GuiStep, GuiTurn, Close, InLoop
<1>34. ASSUME DismissAbort PROVE CountType'
  BY <1>34 DEF DismissAbort, GuiStep, GuiTurn
<1>35. ASSUME BeginSetup PROVE CountType'
  BY <1>35 DEF BeginSetup, GuiStep, GuiTurn
<1>36. ASSUME EndSetup PROVE CountType'
  BY <1>36, EnsureIs DEF EndSetup, GuiStep, GuiTurn
<1>37. ASSUME ShowHome PROVE CountType'
  BY <1>37, EnsureIs DEF ShowHome, GuiStep, GuiTurn
<1>38. ASSUME RecorderFinished PROVE CountType'
  BY <1>38, BgIsWorker DEF RecorderFinished, GuiStep, GuiTurn, BgRunning, BgFailed
<1>39. ASSUME ShowSettings PROVE CountType'
  BY <1>39, BgIsWorker DEF ShowSettings, GuiStep, GuiTurn, BgRunning, Ask, BgFailed
<1>40. ASSUME PollRefused PROVE CountType'
  BY <1>40 DEF PollRefused, GuiStep, GuiTurn, BgFailed, Consume, Left, InLoop
<1>41. ASSUME PollGranted PROVE CountType'
  BY <1>41, BgIsWorker DEF PollGranted, GuiStep, GuiTurn, BgRunning, Consume, Left, Ask, Close,
      InLoop
<1>42. ASSUME PollFails PROVE CountType'
  BY <1>42 DEF PollFails, GuiStep, GuiTurn, Signal, InLoop
<1>43. ASSUME Quit PROVE CountType'
  BY <1>43 DEF Quit, GuiStep, GuiTurn
<1>44. CASE UNCHANGED vars
  BY <1>44
<1>45. QED
  BY <1>1, <1>2, <1>3, <1>4, <1>5, <1>6, <1>7, <1>8, <1>9, <1>10, <1>11, <1>12, <1>13, <1>14,
      <1>15, <1>16, <1>17, <1>18, <1>19, <1>20, <1>21, <1>22, <1>23, <1>24, <1>25, <1>26, <1>27,
      <1>28, <1>29, <1>30, <1>31, <1>32, <1>33, <1>34, <1>35, <1>36, <1>37, <1>38, <1>39, <1>40,
      <1>41, <1>42, <1>43, <1>44 DEF Next, InstallerStep, Guard, WorkerStep, Gui, Handler

(* Every step keeps FlagType.                                               *)
LEMMA NextFlagType == IInv /\ [Next]_vars => FlagType'
<1> SUFFICES ASSUME IInv, [Next]_vars PROVE FlagType'
  OBVIOUS
<1> USE DEF IInv, Types, FlagType, insVars, appVars, winVars, endVars, workVars, vars
<1>1. ASSUME FirstQuery PROVE FlagType'
  BY <1>1 DEF FirstQuery, InstallerIdle
<1>2. ASSUME OpenEvents PROVE FlagType'
  BY <1>2 DEF OpenEvents, InstallerIdle
<1>3. ASSUME ResetEvents PROVE FlagType'
  BY <1>3 DEF ResetEvents, InstallerIdle
<1>4. ASSUME RequestShutdown PROVE FlagType'
  BY <1>4 DEF RequestShutdown, InstallerIdle, Signal
<1>5. ASSUME PollBlocked PROVE FlagType'
  BY <1>5 DEF PollBlocked, InstallerIdle, Return
<1>6. ASSUME PollComplete PROVE FlagType'
  BY <1>6 DEF PollComplete, InstallerIdle
<1>7. ASSUME PollApp PROVE FlagType'
  BY <1>7 DEF PollApp, InstallerIdle, Return, MayProceed
<1>8. ASSUME GiveUp PROVE FlagType'
  BY <1>8 DEF GiveUp, InstallerIdle, Return
<1>9. ASSUME Claim PROVE FlagType'
  BY <1>9 DEF Claim, GuardIdle
<1>10. ASSUME Acquire PROVE FlagType'
  BY <1>10 DEF Acquire, GuardIdle, EventsTaken
<1>11. ASSUME LeaveMain PROVE FlagType'
  BY <1>11 DEF LeaveMain, GuardIdle, Abandoned, Signal
<1>12. ASSUME ProcessEnds PROVE FlagType'
  BY <1>12 DEF ProcessEnds, GuardIdle, Abandoned
<1>13. ASSUME NEW i \in Workers, CreateSupervisor(i) PROVE FlagType'
  BY <1>13 DEF CreateSupervisor, WorkerIdle, Alive, Move, Flags
<1>14. ASSUME NEW i \in Workers, CheckRequested(i) PROVE FlagType'
  BY <1>14 DEF CheckRequested, WorkerIdle, Alive, Move, Flags
<1>15. ASSUME NEW i \in Workers, LaunchObs(i) PROVE FlagType'
  BY <1>15 DEF LaunchObs, WorkerIdle, Alive, Move, Flags
<1>16. ASSUME NEW i \in Workers, LaunchFails(i) PROVE FlagType'
  BY <1>16 DEF LaunchFails, WorkerIdle, Alive, Move, Forget
<1>17. ASSUME NEW i \in Workers, BeginRecording(i) PROVE FlagType'
  BY <1>17 DEF BeginRecording, WorkerIdle, Alive, Move, Flags
<1>18. ASSUME NEW i \in Workers, FinishRecording(i) PROVE FlagType'
  BY <1>18 DEF FinishRecording, WorkerIdle, Alive, Move, Flags
<1>19. ASSUME NEW i \in Workers, StopWatching(i) PROVE FlagType'
  BY <1>19 DEF StopWatching, WorkerIdle, Alive, Move, Flags
<1>20. ASSUME NEW i \in Workers, ShutDownObs(i) PROVE FlagType'
  BY <1>20 DEF ShutDownObs, WorkerIdle, Alive, Move, Forget
<1>21. ASSUME ObsEnds PROVE FlagType'
  BY <1>21 DEF ObsEnds
<1>22. ASSUME MinimizeToTray PROVE FlagType'
  BY <1>22 DEF MinimizeToTray, GuiStep, GuiTurn
<1>23. ASSUME BeginClose PROVE FlagType'
  BY <1>23, BgIsWorker DEF BeginClose, GuiStep, GuiTurn, BgRunning
<1>24. ASSUME StopWork PROVE FlagType'
  BY <1>24, BgIsWorker DEF StopWork, GuiStep, GuiTurn, BgRunning, MayForce, WaitOver,
      CountsAsStopped
<1>25. ASSUME AbortUnstopped PROVE FlagType'
  BY <1>25 DEF AbortUnstopped, GuiStep, GuiTurn, Abort, Signal, ObsUnconfirmed, UpdateAttemptsUsed
<1>26. ASSUME RetryClose PROVE FlagType'
  BY <1>26 DEF RetryClose, GuiStep, GuiTurn, MayForce
<1>27. ASSUME AskForce PROVE FlagType'
  BY <1>27 DEF AskForce, GuiStep, GuiTurn, MayForce
<1>28. ASSUME AnswerForce PROVE FlagType'
  BY <1>28, BgIsWorker DEF AnswerForce, GuiStep, GuiTurn, BgRunning
<1>29. ASSUME VerifyObs PROVE FlagType'
  BY <1>29 DEF VerifyObs, GuiStep, GuiTurn, Abort, Signal, AcceptUpdate
<1>30. ASSUME FlagUpdate PROVE FlagType'
  BY <1>30, BgIsWorker DEF FlagUpdate, GuiStep, GuiTurn, FlagAndStop
<1>31. ASSUME FlagSettings PROVE FlagType'
  BY <1>31, BgIsWorker DEF FlagSettings, GuiStep, GuiTurn, FlagAndStop
<1>32. ASSUME WaitSettings PROVE FlagType'
  <2>1. lastFailed' \in BOOLEAN
    <3>1. (bg \in failed) \in BOOLEAN
      OBVIOUS
    <3>2. lastFailed' \in {lastFailed, (bg \in failed)}
      BY <1>32 DEF WaitSettings
    <3>3. QED
      BY <3>1, <3>2
  <2>2. QED
    BY <1>32, <2>1 DEF WaitSettings, GuiStep, GuiTurn
<1>33. ASSUME CloseTimer PROVE FlagType'
  BY <1>33 DEF CloseTimer, GuiStep, GuiTurn, Close, InLoop
<1>34. ASSUME DismissAbort PROVE FlagType'
  BY <1>34 DEF DismissAbort, GuiStep, GuiTurn
<1>35. ASSUME BeginSetup PROVE FlagType'
  BY <1>35 DEF BeginSetup, GuiStep, GuiTurn
<1>36. ASSUME EndSetup PROVE FlagType'
  BY <1>36, EnsureIs DEF EndSetup, GuiStep, GuiTurn
<1>37. ASSUME ShowHome PROVE FlagType'
  BY <1>37, EnsureIs DEF ShowHome, GuiStep, GuiTurn
<1>38. ASSUME RecorderFinished PROVE FlagType'
  BY <1>38, BgIsWorker DEF RecorderFinished, GuiStep, GuiTurn, BgRunning, BgFailed
<1>39. ASSUME ShowSettings PROVE FlagType'
  BY <1>39, BgIsWorker DEF ShowSettings, GuiStep, GuiTurn, BgRunning, Ask, BgFailed
<1>40. ASSUME PollRefused PROVE FlagType'
  BY <1>40 DEF PollRefused, GuiStep, GuiTurn, BgFailed, Consume, Left, InLoop
<1>41. ASSUME PollGranted PROVE FlagType'
  BY <1>41, BgIsWorker DEF PollGranted, GuiStep, GuiTurn, BgRunning, Consume, Left, Ask, Close,
      InLoop
<1>42. ASSUME PollFails PROVE FlagType'
  BY <1>42 DEF PollFails, GuiStep, GuiTurn, Signal, InLoop
<1>43. ASSUME Quit PROVE FlagType'
  BY <1>43 DEF Quit, GuiStep, GuiTurn
<1>44. CASE UNCHANGED vars
  BY <1>44
<1>45. QED
  BY <1>1, <1>2, <1>3, <1>4, <1>5, <1>6, <1>7, <1>8, <1>9, <1>10, <1>11, <1>12, <1>13, <1>14,
      <1>15, <1>16, <1>17, <1>18, <1>19, <1>20, <1>21, <1>22, <1>23, <1>24, <1>25, <1>26, <1>27,
      <1>28, <1>29, <1>30, <1>31, <1>32, <1>33, <1>34, <1>35, <1>36, <1>37, <1>38, <1>39, <1>40,
      <1>41, <1>42, <1>43, <1>44 DEF Next, InstallerStep, Guard, WorkerStep, Gui, Handler

(* Every step keeps WorkType.                                               *)
LEMMA NextWorkType == IInv /\ [Next]_vars => WorkType'
<1> SUFFICES ASSUME IInv, [Next]_vars PROVE WorkType'
  OBVIOUS
<1> USE MaxWorkersAssumption DEF IInv, Types, WorkType, BgInv, Phases, insVars, appVars, winVars,
    endVars, workVars, vars
<1>1. ASSUME FirstQuery PROVE WorkType'
  BY <1>1 DEF FirstQuery, InstallerIdle
<1>2. ASSUME OpenEvents PROVE WorkType'
  BY <1>2 DEF OpenEvents, InstallerIdle
<1>3. ASSUME ResetEvents PROVE WorkType'
  BY <1>3 DEF ResetEvents, InstallerIdle
<1>4. ASSUME RequestShutdown PROVE WorkType'
  BY <1>4 DEF RequestShutdown, InstallerIdle, Signal
<1>5. ASSUME PollBlocked PROVE WorkType'
  BY <1>5 DEF PollBlocked, InstallerIdle, Return
<1>6. ASSUME PollComplete PROVE WorkType'
  BY <1>6 DEF PollComplete, InstallerIdle
<1>7. ASSUME PollApp PROVE WorkType'
  BY <1>7 DEF PollApp, InstallerIdle, Return, MayProceed
<1>8. ASSUME GiveUp PROVE WorkType'
  BY <1>8 DEF GiveUp, InstallerIdle, Return
<1>9. ASSUME Claim PROVE WorkType'
  BY <1>9 DEF Claim, GuardIdle
<1>10. ASSUME Acquire PROVE WorkType'
  BY <1>10 DEF Acquire, GuardIdle, EventsTaken
<1>11. ASSUME LeaveMain PROVE WorkType'
  BY <1>11 DEF LeaveMain, GuardIdle, Abandoned, Signal
<1>12. ASSUME ProcessEnds PROVE WorkType'
  BY <1>12 DEF ProcessEnds, GuardIdle, Abandoned
<1>13. ASSUME NEW i \in Workers, CreateSupervisor(i) PROVE WorkType'
  BY <1>13 DEF CreateSupervisor, WorkerIdle, Alive, Move, Flags
<1>14. ASSUME NEW i \in Workers, CheckRequested(i) PROVE WorkType'
  BY <1>14 DEF CheckRequested, WorkerIdle, Alive, Move, Flags
<1>15. ASSUME NEW i \in Workers, LaunchObs(i) PROVE WorkType'
  BY <1>15 DEF LaunchObs, WorkerIdle, Alive, Move, Flags
<1>16. ASSUME NEW i \in Workers, LaunchFails(i) PROVE WorkType'
  BY <1>16 DEF LaunchFails, WorkerIdle, Alive, Move, Forget
<1>17. ASSUME NEW i \in Workers, BeginRecording(i) PROVE WorkType'
  BY <1>17 DEF BeginRecording, WorkerIdle, Alive, Move, Flags
<1>18. ASSUME NEW i \in Workers, FinishRecording(i) PROVE WorkType'
  BY <1>18 DEF FinishRecording, WorkerIdle, Alive, Move, Flags
<1>19. ASSUME NEW i \in Workers, StopWatching(i) PROVE WorkType'
  BY <1>19 DEF StopWatching, WorkerIdle, Alive, Move, Flags
<1>20. ASSUME NEW i \in Workers, ShutDownObs(i) PROVE WorkType'
  BY <1>20 DEF ShutDownObs, WorkerIdle, Alive, Move, Forget
<1>21. ASSUME ObsEnds PROVE WorkType'
  BY <1>21 DEF ObsEnds
<1>22. ASSUME MinimizeToTray PROVE WorkType'
  BY <1>22 DEF MinimizeToTray, GuiStep, GuiTurn
<1>23. ASSUME BeginClose PROVE WorkType'
  BY <1>23, BgIsWorker DEF BeginClose, GuiStep, GuiTurn, BgRunning
<1>24. ASSUME StopWork PROVE WorkType'
  BY <1>24, BgIsWorker DEF StopWork, GuiStep, GuiTurn, BgRunning, MayForce, WaitOver,
      CountsAsStopped
<1>25. ASSUME AbortUnstopped PROVE WorkType'
  BY <1>25 DEF AbortUnstopped, GuiStep, GuiTurn, Abort, Signal, ObsUnconfirmed, UpdateAttemptsUsed
<1>26. ASSUME RetryClose PROVE WorkType'
  BY <1>26 DEF RetryClose, GuiStep, GuiTurn, MayForce
<1>27. ASSUME AskForce PROVE WorkType'
  BY <1>27 DEF AskForce, GuiStep, GuiTurn, MayForce
<1>28. ASSUME AnswerForce PROVE WorkType'
  BY <1>28, BgIsWorker DEF AnswerForce, GuiStep, GuiTurn, BgRunning
<1>29. ASSUME VerifyObs PROVE WorkType'
  BY <1>29 DEF VerifyObs, GuiStep, GuiTurn, Abort, Signal, AcceptUpdate
<1>30. ASSUME FlagUpdate PROVE WorkType'
  BY <1>30, BgIsWorker DEF FlagUpdate, GuiStep, GuiTurn, FlagAndStop
<1>31. ASSUME FlagSettings PROVE WorkType'
  BY <1>31, BgIsWorker DEF FlagSettings, GuiStep, GuiTurn, FlagAndStop
<1>32. ASSUME WaitSettings PROVE WorkType'
  BY <1>32 DEF WaitSettings, GuiStep, GuiTurn
<1>33. ASSUME CloseTimer PROVE WorkType'
  BY <1>33 DEF CloseTimer, GuiStep, GuiTurn, Close, InLoop
<1>34. ASSUME DismissAbort PROVE WorkType'
  BY <1>34 DEF DismissAbort, GuiStep, GuiTurn
<1>35. ASSUME BeginSetup PROVE WorkType'
  BY <1>35 DEF BeginSetup, GuiStep, GuiTurn
<1>36. ASSUME EndSetup PROVE WorkType'
  BY <1>36, EnsureIs DEF EndSetup, GuiStep, GuiTurn
<1>37. ASSUME ShowHome PROVE WorkType'
  BY <1>37, EnsureIs DEF ShowHome, GuiStep, GuiTurn
<1>38. ASSUME RecorderFinished PROVE WorkType'
  BY <1>38, BgIsWorker DEF RecorderFinished, GuiStep, GuiTurn, BgRunning, BgFailed
<1>39. ASSUME ShowSettings PROVE WorkType'
  BY <1>39, BgIsWorker DEF ShowSettings, GuiStep, GuiTurn, BgRunning, Ask, BgFailed
<1>40. ASSUME PollRefused PROVE WorkType'
  BY <1>40 DEF PollRefused, GuiStep, GuiTurn, BgFailed, Consume, Left, InLoop
<1>41. ASSUME PollGranted PROVE WorkType'
  BY <1>41, BgIsWorker DEF PollGranted, GuiStep, GuiTurn, BgRunning, Consume, Left, Ask, Close,
      InLoop
<1>42. ASSUME PollFails PROVE WorkType'
  BY <1>42 DEF PollFails, GuiStep, GuiTurn, Signal, InLoop
<1>43. ASSUME Quit PROVE WorkType'
  BY <1>43 DEF Quit, GuiStep, GuiTurn
<1>44. CASE UNCHANGED vars
  BY <1>44
<1>45. QED
  BY <1>1, <1>2, <1>3, <1>4, <1>5, <1>6, <1>7, <1>8, <1>9, <1>10, <1>11, <1>12, <1>13, <1>14,
      <1>15, <1>16, <1>17, <1>18, <1>19, <1>20, <1>21, <1>22, <1>23, <1>24, <1>25, <1>26, <1>27,
      <1>28, <1>29, <1>30, <1>31, <1>32, <1>33, <1>34, <1>35, <1>36, <1>37, <1>38, <1>39, <1>40,
      <1>41, <1>42, <1>43, <1>44 DEF Next, InstallerStep, Guard, WorkerStep, Gui, Handler

(* Every step keeps BgInv.                                                  *)
LEMMA NextBgInv == IInv /\ [Next]_vars => BgInv'
<1> SUFFICES ASSUME IInv, [Next]_vars PROVE BgInv'
  OBVIOUS
<1> USE DEF IInv, Types, WorkType, BgInv, insVars, appVars, winVars, endVars, workVars, vars
<1>1. ASSUME FirstQuery PROVE BgInv'
  BY <1>1 DEF FirstQuery, InstallerIdle
<1>2. ASSUME OpenEvents PROVE BgInv'
  BY <1>2 DEF OpenEvents, InstallerIdle
<1>3. ASSUME ResetEvents PROVE BgInv'
  BY <1>3 DEF ResetEvents, InstallerIdle
<1>4. ASSUME RequestShutdown PROVE BgInv'
  BY <1>4 DEF RequestShutdown, InstallerIdle, Signal
<1>5. ASSUME PollBlocked PROVE BgInv'
  BY <1>5 DEF PollBlocked, InstallerIdle, Return
<1>6. ASSUME PollComplete PROVE BgInv'
  BY <1>6 DEF PollComplete, InstallerIdle
<1>7. ASSUME PollApp PROVE BgInv'
  BY <1>7 DEF PollApp, InstallerIdle, Return, MayProceed
<1>8. ASSUME GiveUp PROVE BgInv'
  BY <1>8 DEF GiveUp, InstallerIdle, Return
<1>9. ASSUME Claim PROVE BgInv'
  BY <1>9 DEF Claim, GuardIdle
<1>10. ASSUME Acquire PROVE BgInv'
  BY <1>10 DEF Acquire, GuardIdle, EventsTaken
<1>11. ASSUME LeaveMain PROVE BgInv'
  BY <1>11 DEF LeaveMain, GuardIdle, Abandoned, Signal
<1>12. ASSUME ProcessEnds PROVE BgInv'
  BY <1>12 DEF ProcessEnds, GuardIdle, Abandoned
<1>13. ASSUME NEW i \in Workers, CreateSupervisor(i) PROVE BgInv'
  BY <1>13 DEF CreateSupervisor, WorkerIdle, Alive, Move, Flags
<1>14. ASSUME NEW i \in Workers, CheckRequested(i) PROVE BgInv'
  BY <1>14 DEF CheckRequested, WorkerIdle, Alive, Move, Flags
<1>15. ASSUME NEW i \in Workers, LaunchObs(i) PROVE BgInv'
  BY <1>15 DEF LaunchObs, WorkerIdle, Alive, Move, Flags
<1>16. ASSUME NEW i \in Workers, LaunchFails(i) PROVE BgInv'
  BY <1>16 DEF LaunchFails, WorkerIdle, Alive, Move, Forget
<1>17. ASSUME NEW i \in Workers, BeginRecording(i) PROVE BgInv'
  BY <1>17 DEF BeginRecording, WorkerIdle, Alive, Move, Flags
<1>18. ASSUME NEW i \in Workers, FinishRecording(i) PROVE BgInv'
  BY <1>18 DEF FinishRecording, WorkerIdle, Alive, Move, Flags
<1>19. ASSUME NEW i \in Workers, StopWatching(i) PROVE BgInv'
  BY <1>19 DEF StopWatching, WorkerIdle, Alive, Move, Flags
<1>20. ASSUME NEW i \in Workers, ShutDownObs(i) PROVE BgInv'
  BY <1>20 DEF ShutDownObs, WorkerIdle, Alive, Move, Forget
<1>21. ASSUME ObsEnds PROVE BgInv'
  BY <1>21 DEF ObsEnds
<1>22. ASSUME MinimizeToTray PROVE BgInv'
  BY <1>22 DEF MinimizeToTray, GuiStep, GuiTurn
<1>23. ASSUME BeginClose PROVE BgInv'
  BY <1>23, BgIsWorker DEF BeginClose, GuiStep, GuiTurn, BgRunning
<1>24. ASSUME StopWork PROVE BgInv'
  BY <1>24, BgIsWorker DEF StopWork, GuiStep, GuiTurn, BgRunning, MayForce, WaitOver,
      CountsAsStopped
<1>25. ASSUME AbortUnstopped PROVE BgInv'
  BY <1>25 DEF AbortUnstopped, GuiStep, GuiTurn, Abort, Signal, ObsUnconfirmed, UpdateAttemptsUsed
<1>26. ASSUME RetryClose PROVE BgInv'
  BY <1>26 DEF RetryClose, GuiStep, GuiTurn, MayForce
<1>27. ASSUME AskForce PROVE BgInv'
  BY <1>27 DEF AskForce, GuiStep, GuiTurn, MayForce
<1>28. ASSUME AnswerForce PROVE BgInv'
  BY <1>28, BgIsWorker DEF AnswerForce, GuiStep, GuiTurn, BgRunning
<1>29. ASSUME VerifyObs PROVE BgInv'
  BY <1>29 DEF VerifyObs, GuiStep, GuiTurn, Abort, Signal, AcceptUpdate
<1>30. ASSUME FlagUpdate PROVE BgInv'
  BY <1>30, BgIsWorker DEF FlagUpdate, GuiStep, GuiTurn, FlagAndStop
<1>31. ASSUME FlagSettings PROVE BgInv'
  BY <1>31, BgIsWorker DEF FlagSettings, GuiStep, GuiTurn, FlagAndStop
<1>32. ASSUME WaitSettings PROVE BgInv'
  BY <1>32 DEF WaitSettings, GuiStep, GuiTurn
<1>33. ASSUME CloseTimer PROVE BgInv'
  BY <1>33 DEF CloseTimer, GuiStep, GuiTurn, Close, InLoop
<1>34. ASSUME DismissAbort PROVE BgInv'
  BY <1>34 DEF DismissAbort, GuiStep, GuiTurn
<1>35. ASSUME BeginSetup PROVE BgInv'
  BY <1>35 DEF BeginSetup, GuiStep, GuiTurn
<1>36. ASSUME EndSetup PROVE BgInv'
  BY <1>36, EnsureIs DEF EndSetup, GuiStep, GuiTurn
<1>37. ASSUME ShowHome PROVE BgInv'
  BY <1>37, EnsureIs DEF ShowHome, GuiStep, GuiTurn
<1>38. ASSUME RecorderFinished PROVE BgInv'
  BY <1>38, BgIsWorker DEF RecorderFinished, GuiStep, GuiTurn, BgRunning, BgFailed
<1>39. ASSUME ShowSettings PROVE BgInv'
  BY <1>39, BgIsWorker DEF ShowSettings, GuiStep, GuiTurn, BgRunning, Ask, BgFailed
<1>40. ASSUME PollRefused PROVE BgInv'
  BY <1>40 DEF PollRefused, GuiStep, GuiTurn, BgFailed, Consume, Left, InLoop
<1>41. ASSUME PollGranted PROVE BgInv'
  BY <1>41, BgIsWorker DEF PollGranted, GuiStep, GuiTurn, BgRunning, Consume, Left, Ask, Close,
      InLoop
<1>42. ASSUME PollFails PROVE BgInv'
  BY <1>42 DEF PollFails, GuiStep, GuiTurn, Signal, InLoop
<1>43. ASSUME Quit PROVE BgInv'
  BY <1>43 DEF Quit, GuiStep, GuiTurn
<1>44. CASE UNCHANGED vars
  BY <1>44
<1>45. QED
  BY <1>1, <1>2, <1>3, <1>4, <1>5, <1>6, <1>7, <1>8, <1>9, <1>10, <1>11, <1>12, <1>13, <1>14,
      <1>15, <1>16, <1>17, <1>18, <1>19, <1>20, <1>21, <1>22, <1>23, <1>24, <1>25, <1>26, <1>27,
      <1>28, <1>29, <1>30, <1>31, <1>32, <1>33, <1>34, <1>35, <1>36, <1>37, <1>38, <1>39, <1>40,
      <1>41, <1>42, <1>43, <1>44 DEF Next, InstallerStep, Guard, WorkerStep, Gui, Handler

(* Every step keeps CloseInv.                                               *)
LEMMA NextCloseInv == IInv /\ [Next]_vars => CloseInv'
<1> SUFFICES ASSUME IInv, [Next]_vars PROVE CloseInv'
  OBVIOUS
<1> USE DEF IInv, Types, FlagType, CloseInv, insVars, appVars, winVars, endVars, workVars, vars
<1>1. ASSUME FirstQuery PROVE CloseInv'
  BY <1>1 DEF FirstQuery, InstallerIdle
<1>2. ASSUME OpenEvents PROVE CloseInv'
  BY <1>2 DEF OpenEvents, InstallerIdle
<1>3. ASSUME ResetEvents PROVE CloseInv'
  BY <1>3 DEF ResetEvents, InstallerIdle
<1>4. ASSUME RequestShutdown PROVE CloseInv'
  BY <1>4 DEF RequestShutdown, InstallerIdle, Signal
<1>5. ASSUME PollBlocked PROVE CloseInv'
  BY <1>5 DEF PollBlocked, InstallerIdle, Return
<1>6. ASSUME PollComplete PROVE CloseInv'
  BY <1>6 DEF PollComplete, InstallerIdle
<1>7. ASSUME PollApp PROVE CloseInv'
  BY <1>7 DEF PollApp, InstallerIdle, Return, MayProceed
<1>8. ASSUME GiveUp PROVE CloseInv'
  BY <1>8 DEF GiveUp, InstallerIdle, Return
<1>9. ASSUME Claim PROVE CloseInv'
  BY <1>9 DEF Claim, GuardIdle
<1>10. ASSUME Acquire PROVE CloseInv'
  BY <1>10 DEF Acquire, GuardIdle, EventsTaken
<1>11. ASSUME LeaveMain PROVE CloseInv'
  BY <1>11 DEF LeaveMain, GuardIdle, Abandoned, Signal
<1>12. ASSUME ProcessEnds PROVE CloseInv'
  BY <1>12 DEF ProcessEnds, GuardIdle, Abandoned
<1>13. ASSUME NEW i \in Workers, CreateSupervisor(i) PROVE CloseInv'
  BY <1>13 DEF CreateSupervisor, WorkerIdle, Alive, Move, Flags
<1>14. ASSUME NEW i \in Workers, CheckRequested(i) PROVE CloseInv'
  BY <1>14 DEF CheckRequested, WorkerIdle, Alive, Move, Flags
<1>15. ASSUME NEW i \in Workers, LaunchObs(i) PROVE CloseInv'
  BY <1>15 DEF LaunchObs, WorkerIdle, Alive, Move, Flags
<1>16. ASSUME NEW i \in Workers, LaunchFails(i) PROVE CloseInv'
  BY <1>16 DEF LaunchFails, WorkerIdle, Alive, Move, Forget
<1>17. ASSUME NEW i \in Workers, BeginRecording(i) PROVE CloseInv'
  BY <1>17 DEF BeginRecording, WorkerIdle, Alive, Move, Flags
<1>18. ASSUME NEW i \in Workers, FinishRecording(i) PROVE CloseInv'
  BY <1>18 DEF FinishRecording, WorkerIdle, Alive, Move, Flags
<1>19. ASSUME NEW i \in Workers, StopWatching(i) PROVE CloseInv'
  BY <1>19 DEF StopWatching, WorkerIdle, Alive, Move, Flags
<1>20. ASSUME NEW i \in Workers, ShutDownObs(i) PROVE CloseInv'
  BY <1>20 DEF ShutDownObs, WorkerIdle, Alive, Move, Forget
<1>21. ASSUME ObsEnds PROVE CloseInv'
  BY <1>21 DEF ObsEnds
<1>22. ASSUME MinimizeToTray PROVE CloseInv'
  BY <1>22 DEF MinimizeToTray, GuiStep, GuiTurn
<1>23. ASSUME BeginClose PROVE CloseInv'
  BY <1>23, BgIsWorker DEF BeginClose, GuiStep, GuiTurn, BgRunning
<1>24. ASSUME StopWork PROVE CloseInv'
  BY <1>24, BgIsWorker DEF StopWork, GuiStep, GuiTurn, BgRunning, MayForce, WaitOver,
      CountsAsStopped
<1>25. ASSUME AbortUnstopped PROVE CloseInv'
  BY <1>25 DEF AbortUnstopped, GuiStep, GuiTurn, Abort, Signal, ObsUnconfirmed, UpdateAttemptsUsed
<1>26. ASSUME RetryClose PROVE CloseInv'
  BY <1>26 DEF RetryClose, GuiStep, GuiTurn, MayForce
<1>27. ASSUME AskForce PROVE CloseInv'
  BY <1>27 DEF AskForce, GuiStep, GuiTurn, MayForce
<1>28. ASSUME AnswerForce PROVE CloseInv'
  BY <1>28, BgIsWorker DEF AnswerForce, GuiStep, GuiTurn, BgRunning
<1>29. ASSUME VerifyObs PROVE CloseInv'
  BY <1>29 DEF VerifyObs, GuiStep, GuiTurn, Abort, Signal, AcceptUpdate
<1>30. ASSUME FlagUpdate PROVE CloseInv'
  BY <1>30, BgIsWorker DEF FlagUpdate, GuiStep, GuiTurn, FlagAndStop
<1>31. ASSUME FlagSettings PROVE CloseInv'
  BY <1>31, BgIsWorker DEF FlagSettings, GuiStep, GuiTurn, FlagAndStop
<1>32. ASSUME WaitSettings PROVE CloseInv'
  BY <1>32 DEF WaitSettings, GuiStep, GuiTurn
<1>33. ASSUME CloseTimer PROVE CloseInv'
  BY <1>33 DEF CloseTimer, GuiStep, GuiTurn, Close, InLoop
<1>34. ASSUME DismissAbort PROVE CloseInv'
  BY <1>34 DEF DismissAbort, GuiStep, GuiTurn
<1>35. ASSUME BeginSetup PROVE CloseInv'
  BY <1>35 DEF BeginSetup, GuiStep, GuiTurn
<1>36. ASSUME EndSetup PROVE CloseInv'
  BY <1>36, EnsureIs DEF EndSetup, GuiStep, GuiTurn
<1>37. ASSUME ShowHome PROVE CloseInv'
  BY <1>37, EnsureIs DEF ShowHome, GuiStep, GuiTurn
<1>38. ASSUME RecorderFinished PROVE CloseInv'
  BY <1>38, BgIsWorker DEF RecorderFinished, GuiStep, GuiTurn, BgRunning, BgFailed
<1>39. ASSUME ShowSettings PROVE CloseInv'
  BY <1>39, BgIsWorker DEF ShowSettings, GuiStep, GuiTurn, BgRunning, Ask, BgFailed
<1>40. ASSUME PollRefused PROVE CloseInv'
  BY <1>40 DEF PollRefused, GuiStep, GuiTurn, BgFailed, Consume, Left, InLoop
<1>41. ASSUME PollGranted PROVE CloseInv'
  BY <1>41, BgIsWorker DEF PollGranted, GuiStep, GuiTurn, BgRunning, Consume, Left, Ask, Close,
      InLoop
<1>42. ASSUME PollFails PROVE CloseInv'
  BY <1>42 DEF PollFails, GuiStep, GuiTurn, Signal, InLoop
<1>43. ASSUME Quit PROVE CloseInv'
  BY <1>43 DEF Quit, GuiStep, GuiTurn
<1>44. CASE UNCHANGED vars
  BY <1>44
<1>45. QED
  BY <1>1, <1>2, <1>3, <1>4, <1>5, <1>6, <1>7, <1>8, <1>9, <1>10, <1>11, <1>12, <1>13, <1>14,
      <1>15, <1>16, <1>17, <1>18, <1>19, <1>20, <1>21, <1>22, <1>23, <1>24, <1>25, <1>26, <1>27,
      <1>28, <1>29, <1>30, <1>31, <1>32, <1>33, <1>34, <1>35, <1>36, <1>37, <1>38, <1>39, <1>40,
      <1>41, <1>42, <1>43, <1>44 DEF Next, InstallerStep, Guard, WorkerStep, Gui, Handler

(* Every step keeps WorkInv.                                                *)
LEMMA NextWorkInv == IInv /\ [Next]_vars => WorkInv'
<1> SUFFICES ASSUME IInv, [Next]_vars PROVE WorkInv'
  OBVIOUS
<1> USE DEF IInv, Types, DataType, WorkType, BgInv, WorkInv, NoneRuns, OnlyDropped, Running,
    Phases, insVars, appVars, winVars, endVars, workVars, vars
<1>1. ASSUME FirstQuery PROVE WorkInv'
  BY <1>1 DEF FirstQuery, InstallerIdle
<1>2. ASSUME OpenEvents PROVE WorkInv'
  BY <1>2 DEF OpenEvents, InstallerIdle
<1>3. ASSUME ResetEvents PROVE WorkInv'
  BY <1>3 DEF ResetEvents, InstallerIdle
<1>4. ASSUME RequestShutdown PROVE WorkInv'
  BY <1>4 DEF RequestShutdown, InstallerIdle, Signal
<1>5. ASSUME PollBlocked PROVE WorkInv'
  BY <1>5 DEF PollBlocked, InstallerIdle, Return
<1>6. ASSUME PollComplete PROVE WorkInv'
  BY <1>6 DEF PollComplete, InstallerIdle
<1>7. ASSUME PollApp PROVE WorkInv'
  BY <1>7 DEF PollApp, InstallerIdle, Return, MayProceed
<1>8. ASSUME GiveUp PROVE WorkInv'
  BY <1>8 DEF GiveUp, InstallerIdle, Return
<1>9. ASSUME Claim PROVE WorkInv'
  BY <1>9 DEF Claim, GuardIdle
<1>10. ASSUME Acquire PROVE WorkInv'
  BY <1>10 DEF Acquire, GuardIdle, EventsTaken
<1>11. ASSUME LeaveMain PROVE WorkInv'
  BY <1>11 DEF LeaveMain, GuardIdle, Abandoned, Signal
<1>12. ASSUME ProcessEnds PROVE WorkInv'
  BY <1>12 DEF ProcessEnds, GuardIdle, Abandoned
<1>13. ASSUME NEW i \in Workers, CreateSupervisor(i) PROVE WorkInv'
  BY <1>13 DEF CreateSupervisor, WorkerIdle, Alive, Move, Flags
<1>14. ASSUME NEW i \in Workers, CheckRequested(i) PROVE WorkInv'
  BY <1>14 DEF CheckRequested, WorkerIdle, Alive, Move, Flags
<1>15. ASSUME NEW i \in Workers, LaunchObs(i) PROVE WorkInv'
  BY <1>15 DEF LaunchObs, WorkerIdle, Alive, Move, Flags
<1>16. ASSUME NEW i \in Workers, LaunchFails(i) PROVE WorkInv'
  <2>1. /\ Running(i) /\ phase' = [phase EXCEPT ![i] = "ended"]
        /\ UNCHANGED <<bg, gui, app, lost>>
    BY <1>16 DEF LaunchFails, WorkerIdle, Alive, Move
  <2>2. \A j \in Workers : j # i => phase'[j] = phase[j]
    BY <2>1
  <2>3. phase'[i] = "ended"
    BY <2>1
  <2>4. QED
    BY <2>1, <2>2, <2>3
<1>17. ASSUME NEW i \in Workers, BeginRecording(i) PROVE WorkInv'
  BY <1>17 DEF BeginRecording, WorkerIdle, Alive, Move, Flags
<1>18. ASSUME NEW i \in Workers, FinishRecording(i) PROVE WorkInv'
  BY <1>18 DEF FinishRecording, WorkerIdle, Alive, Move, Flags
<1>19. ASSUME NEW i \in Workers, StopWatching(i) PROVE WorkInv'
  BY <1>19 DEF StopWatching, WorkerIdle, Alive, Move, Flags
<1>20. ASSUME NEW i \in Workers, ShutDownObs(i) PROVE WorkInv'
  <2>1. /\ Running(i) /\ phase' = [phase EXCEPT ![i] = "ended"]
        /\ UNCHANGED <<bg, gui, app, lost>>
    BY <1>20 DEF ShutDownObs, WorkerIdle, Alive, Move
  <2>2. \A j \in Workers : j # i => phase'[j] = phase[j]
    BY <2>1
  <2>3. phase'[i] = "ended"
    BY <2>1
  <2>4. QED
    BY <2>1, <2>2, <2>3
<1>21. ASSUME ObsEnds PROVE WorkInv'
  BY <1>21 DEF ObsEnds
<1>22. ASSUME MinimizeToTray PROVE WorkInv'
  BY <1>22 DEF MinimizeToTray, GuiStep, GuiTurn
<1>23. ASSUME BeginClose PROVE WorkInv'
  BY <1>23, BgIsWorker DEF BeginClose, GuiStep, GuiTurn, BgRunning
<1>24. ASSUME StopWork PROVE WorkInv'
  <2>1. UNCHANGED <<app, lost>> /\ app = "running" /\ gui = "stopping" /\ bg' \in {0, bg}
    BY <1>24 DEF StopWork, GuiStep, GuiTurn
  <2>2. CASE bg' = bg /\ phase' = phase /\ gui' = "unstopped"
    BY <2>1, <2>2
  <2>3. CASE /\ WaitOver /\ gui' \in {"verify", "quit", "unstopped"}
             /\ phase' = IF BgRunning /\ MayForce THEN [phase EXCEPT ![bg] = "killed"] ELSE phase
    <3>1. OnlyDropped'
      <4>1. CASE BgRunning
        <5>1. phase' = [phase EXCEPT ![bg] = "killed"] /\ bg \in Workers
          BY <2>3, <4>1, BgIsWorker DEF BgRunning, WaitOver
        <5>2. QED
          BY <2>1, <5>1
      <4>2. CASE ~BgRunning
        BY <2>1, <2>3, <4>2, MaxWorkersAssumption DEF BgRunning, Workers
      <4>3. QED
        BY <4>1, <4>2
    <3>2. QED
      BY <2>1, <2>3, <3>1
  <2>4. QED
    BY <1>24, <2>2, <2>3, StopWorkIs
<1>25. ASSUME AbortUnstopped PROVE WorkInv'
  BY <1>25 DEF AbortUnstopped, GuiStep, GuiTurn, Abort, Signal, ObsUnconfirmed, UpdateAttemptsUsed
<1>26. ASSUME RetryClose PROVE WorkInv'
  BY <1>26 DEF RetryClose, GuiStep, GuiTurn, MayForce
<1>27. ASSUME AskForce PROVE WorkInv'
  BY <1>27 DEF AskForce, GuiStep, GuiTurn, MayForce
<1>28. ASSUME AnswerForce PROVE WorkInv'
  <2>1. UNCHANGED <<app, lost>> /\ app = "running"
    BY <1>28 DEF AnswerForce, GuiStep, GuiTurn
  <2>2. CASE gui' = "loop" /\ bg' = bg /\ phase' = phase
    BY <2>1, <2>2
  <2>3. CASE bg' = 0 /\ phase' = IF BgRunning THEN [phase EXCEPT ![bg] = "killed"] ELSE phase
    <3>1. OnlyDropped'
      <4>1. CASE BgRunning
        BY <2>1, <2>3, <4>1, BgIsWorker DEF BgRunning
      <4>2. CASE ~BgRunning
        BY <2>1, <2>3, <4>2, MaxWorkersAssumption DEF BgRunning, Workers
      <4>3. QED
        BY <4>1, <4>2
    <3>2. QED
      BY <2>1, <2>3, <3>1
  <2>4. QED
    BY <1>28, <2>2, <2>3 DEF AnswerForce
<1>29. ASSUME VerifyObs PROVE WorkInv'
  BY <1>29 DEF VerifyObs, GuiStep, GuiTurn, Abort, Signal, AcceptUpdate
<1>30. ASSUME FlagUpdate PROVE WorkInv'
  BY <1>30, BgIsWorker DEF FlagUpdate, GuiStep, GuiTurn, FlagAndStop
<1>31. ASSUME FlagSettings PROVE WorkInv'
  BY <1>31, BgIsWorker DEF FlagSettings, GuiStep, GuiTurn, FlagAndStop
<1>32. ASSUME WaitSettings PROVE WorkInv'
  BY <1>32 DEF WaitSettings, GuiStep, GuiTurn
<1>33. ASSUME CloseTimer PROVE WorkInv'
  BY <1>33 DEF CloseTimer, GuiStep, GuiTurn, Close, InLoop
<1>34. ASSUME DismissAbort PROVE WorkInv'
  BY <1>34 DEF DismissAbort, GuiStep, GuiTurn
<1>35. ASSUME BeginSetup PROVE WorkInv'
  BY <1>35 DEF BeginSetup, GuiStep, GuiTurn
<1>36. ASSUME EndSetup PROVE WorkInv'
  <2>1. UNCHANGED <<gui, app, lost>> /\ gui = "loop" /\ app = "running"
    BY <1>36 DEF EndSetup, GuiStep, GuiTurn
  <2>2. CASE bg' = bg /\ phase' = phase
    BY <2>1, <2>2
  <2>3. CASE EnsureRecorder /\ ~(bg' = bg /\ phase' = phase)
    <3>1. ~BgRunning /\ bg' \in Workers /\ \A j \in Workers : j # bg' => phase'[j] = phase[j]
      BY <2>3, EnsureIs
    <3>2. \A j \in Workers : Running(j) => j \in lost
      BY <3>1, MaxWorkersAssumption DEF BgRunning, Workers
    <3>3. QED
      BY <2>1, <3>1, <3>2
  <2>4. QED
    BY <1>36, <2>2, <2>3 DEF EndSetup
<1>37. ASSUME ShowHome PROVE WorkInv'
  <2>1. UNCHANGED <<gui, app, lost>> /\ gui = "loop" /\ app = "running"
    BY <1>37 DEF ShowHome, GuiStep, GuiTurn
  <2>2. CASE bg' = bg /\ phase' = phase
    BY <2>1, <2>2
  <2>3. CASE EnsureRecorder /\ ~(bg' = bg /\ phase' = phase)
    <3>1. ~BgRunning /\ bg' \in Workers /\ \A j \in Workers : j # bg' => phase'[j] = phase[j]
      BY <2>3, EnsureIs
    <3>2. \A j \in Workers : Running(j) => j \in lost
      BY <3>1, MaxWorkersAssumption DEF BgRunning, Workers
    <3>3. QED
      BY <2>1, <3>1, <3>2
  <2>4. QED
    BY <1>37, <2>2, <2>3 DEF ShowHome
<1>38. ASSUME RecorderFinished PROVE WorkInv'
  BY <1>38, BgIsWorker DEF RecorderFinished, GuiStep, GuiTurn, BgRunning, BgFailed
<1>39. ASSUME ShowSettings PROVE WorkInv'
  BY <1>39, BgIsWorker DEF ShowSettings, GuiStep, GuiTurn, BgRunning, Ask, BgFailed
<1>40. ASSUME PollRefused PROVE WorkInv'
  BY <1>40 DEF PollRefused, GuiStep, GuiTurn, BgFailed, Consume, Left, InLoop
<1>41. ASSUME PollGranted PROVE WorkInv'
  BY <1>41, BgIsWorker DEF PollGranted, GuiStep, GuiTurn, BgRunning, Consume, Left, Ask, Close,
      InLoop
<1>42. ASSUME PollFails PROVE WorkInv'
  BY <1>42 DEF PollFails, GuiStep, GuiTurn, Signal, InLoop
<1>43. ASSUME Quit PROVE WorkInv'
  BY <1>43 DEF Quit, GuiStep, GuiTurn
<1>44. CASE UNCHANGED vars
  BY <1>44
<1>45. QED
  BY <1>1, <1>2, <1>3, <1>4, <1>5, <1>6, <1>7, <1>8, <1>9, <1>10, <1>11, <1>12, <1>13, <1>14,
      <1>15, <1>16, <1>17, <1>18, <1>19, <1>20, <1>21, <1>22, <1>23, <1>24, <1>25, <1>26, <1>27,
      <1>28, <1>29, <1>30, <1>31, <1>32, <1>33, <1>34, <1>35, <1>36, <1>37, <1>38, <1>39, <1>40,
      <1>41, <1>42, <1>43, <1>44 DEF Next, InstallerStep, Guard, WorkerStep, Gui, Handler

(* Every step keeps QuietInv.                                               *)
LEMMA NextQuietInv == IInv /\ [Next]_vars => QuietInv'
<1> SUFFICES ASSUME IInv, [Next]_vars PROVE QuietInv'
  OBVIOUS
<1> USE DEF IInv, Types, DataType, FlagType, WorkInv, QuietInv, NoneRuns, OnlyDropped, Running,
    Told, AppHolds, MutexHeld, Handles, insVars, appVars, winVars, endVars, workVars, vars
<1>1. ASSUME FirstQuery PROVE QuietInv'
  BY <1>1 DEF FirstQuery, InstallerIdle
<1>2. ASSUME OpenEvents PROVE QuietInv'
  BY <1>2 DEF OpenEvents, InstallerIdle
<1>3. ASSUME ResetEvents PROVE QuietInv'
  BY <1>3 DEF ResetEvents, InstallerIdle
<1>4. ASSUME RequestShutdown PROVE QuietInv'
  BY <1>4 DEF RequestShutdown, InstallerIdle, Signal
<1>5. ASSUME PollBlocked PROVE QuietInv'
  BY <1>5 DEF PollBlocked, InstallerIdle, Return
<1>6. ASSUME PollComplete PROVE QuietInv'
  BY <1>6 DEF PollComplete, InstallerIdle
<1>7. ASSUME PollApp PROVE QuietInv'
  BY <1>7 DEF PollApp, InstallerIdle, Return, MayProceed
<1>8. ASSUME GiveUp PROVE QuietInv'
  BY <1>8 DEF GiveUp, InstallerIdle, Return
<1>9. ASSUME Claim PROVE QuietInv'
  BY <1>9 DEF Claim, GuardIdle
<1>10. ASSUME Acquire PROVE QuietInv'
  <2>1. /\ app = "claiming" /\ app' \in {"none", "running"}
        /\ UNCHANGED <<ins, seen, verdict, events, updateDone, gui, obs>>
    BY <1>10 DEF Acquire, GuardIdle, EventsTaken
  <2>2. CASE ins \in Handles
    <3>1. app' = "none" /\ lost' = lost
      BY <1>10, <2>2 DEF Acquire, GuardIdle, EventsTaken
    <3>2. QED
      BY <2>1, <2>2, <3>1
  <2>3. CASE ins \notin Handles
    <3>1. events = {} /\ ~Told
      BY <2>1, <2>3
    <3>2. ~updateDone
      BY <2>1
    <3>3. QED
      BY <2>1, <2>3, <3>1, <3>2
  <2>4. QED
    BY <2>2, <2>3
<1>11. ASSUME LeaveMain PROVE QuietInv'
  BY <1>11 DEF LeaveMain, GuardIdle, Abandoned, Signal
<1>12. ASSUME ProcessEnds PROVE QuietInv'
  BY <1>12 DEF ProcessEnds, GuardIdle, Abandoned
<1>13. ASSUME NEW i \in Workers, CreateSupervisor(i) PROVE QuietInv'
  BY <1>13 DEF CreateSupervisor, WorkerIdle, Alive, Move, Flags
<1>14. ASSUME NEW i \in Workers, CheckRequested(i) PROVE QuietInv'
  BY <1>14 DEF CheckRequested, WorkerIdle, Alive, Move, Flags
<1>15. ASSUME NEW i \in Workers, LaunchObs(i) PROVE QuietInv'
  BY <1>15 DEF LaunchObs, WorkerIdle, Alive, Move, Flags
<1>16. ASSUME NEW i \in Workers, LaunchFails(i) PROVE QuietInv'
  BY <1>16 DEF LaunchFails, WorkerIdle, Alive, Move, Forget
<1>17. ASSUME NEW i \in Workers, BeginRecording(i) PROVE QuietInv'
  BY <1>17 DEF BeginRecording, WorkerIdle, Alive, Move, Flags
<1>18. ASSUME NEW i \in Workers, FinishRecording(i) PROVE QuietInv'
  BY <1>18 DEF FinishRecording, WorkerIdle, Alive, Move, Flags
<1>19. ASSUME NEW i \in Workers, StopWatching(i) PROVE QuietInv'
  BY <1>19 DEF StopWatching, WorkerIdle, Alive, Move, Flags
<1>20. ASSUME NEW i \in Workers, ShutDownObs(i) PROVE QuietInv'
  BY <1>20 DEF ShutDownObs, WorkerIdle, Alive, Move, Forget
<1>21. ASSUME ObsEnds PROVE QuietInv'
  BY <1>21 DEF ObsEnds
<1>22. ASSUME MinimizeToTray PROVE QuietInv'
  BY <1>22 DEF MinimizeToTray, GuiStep, GuiTurn
<1>23. ASSUME BeginClose PROVE QuietInv'
  BY <1>23, BgIsWorker DEF BeginClose, GuiStep, GuiTurn, BgRunning
<1>24. ASSUME StopWork PROVE QuietInv'
  BY <1>24, BgIsWorker DEF StopWork, GuiStep, GuiTurn, BgRunning, MayForce, WaitOver,
      CountsAsStopped
<1>25. ASSUME AbortUnstopped PROVE QuietInv'
  BY <1>25 DEF AbortUnstopped, GuiStep, GuiTurn, Abort, Signal, ObsUnconfirmed, UpdateAttemptsUsed
<1>26. ASSUME RetryClose PROVE QuietInv'
  BY <1>26 DEF RetryClose, GuiStep, GuiTurn, MayForce
<1>27. ASSUME AskForce PROVE QuietInv'
  BY <1>27 DEF AskForce, GuiStep, GuiTurn, MayForce
<1>28. ASSUME AnswerForce PROVE QuietInv'
  BY <1>28, BgIsWorker DEF AnswerForce, GuiStep, GuiTurn, BgRunning
<1>29. ASSUME VerifyObs PROVE QuietInv'
  BY <1>29 DEF VerifyObs, GuiStep, GuiTurn, Abort, Signal, AcceptUpdate
<1>30. ASSUME FlagUpdate PROVE QuietInv'
  BY <1>30, BgIsWorker DEF FlagUpdate, GuiStep, GuiTurn, FlagAndStop
<1>31. ASSUME FlagSettings PROVE QuietInv'
  BY <1>31, BgIsWorker DEF FlagSettings, GuiStep, GuiTurn, FlagAndStop
<1>32. ASSUME WaitSettings PROVE QuietInv'
  BY <1>32 DEF WaitSettings, GuiStep, GuiTurn
<1>33. ASSUME CloseTimer PROVE QuietInv'
  BY <1>33 DEF CloseTimer, GuiStep, GuiTurn, Close, InLoop
<1>34. ASSUME DismissAbort PROVE QuietInv'
  BY <1>34 DEF DismissAbort, GuiStep, GuiTurn
<1>35. ASSUME BeginSetup PROVE QuietInv'
  BY <1>35 DEF BeginSetup, GuiStep, GuiTurn
<1>36. ASSUME EndSetup PROVE QuietInv'
  BY <1>36, EnsureIs DEF EndSetup, GuiStep, GuiTurn
<1>37. ASSUME ShowHome PROVE QuietInv'
  BY <1>37, EnsureIs DEF ShowHome, GuiStep, GuiTurn
<1>38. ASSUME RecorderFinished PROVE QuietInv'
  BY <1>38, BgIsWorker DEF RecorderFinished, GuiStep, GuiTurn, BgRunning, BgFailed
<1>39. ASSUME ShowSettings PROVE QuietInv'
  BY <1>39, BgIsWorker DEF ShowSettings, GuiStep, GuiTurn, BgRunning, Ask, BgFailed
<1>40. ASSUME PollRefused PROVE QuietInv'
  BY <1>40 DEF PollRefused, GuiStep, GuiTurn, BgFailed, Consume, Left, InLoop
<1>41. ASSUME PollGranted PROVE QuietInv'
  BY <1>41, BgIsWorker DEF PollGranted, GuiStep, GuiTurn, BgRunning, Consume, Left, Ask, Close,
      InLoop
<1>42. ASSUME PollFails PROVE QuietInv'
  BY <1>42 DEF PollFails, GuiStep, GuiTurn, Signal, InLoop
<1>43. ASSUME Quit PROVE QuietInv'
  BY <1>43 DEF Quit, GuiStep, GuiTurn
<1>44. CASE UNCHANGED vars
  BY <1>44
<1>45. QED
  BY <1>1, <1>2, <1>3, <1>4, <1>5, <1>6, <1>7, <1>8, <1>9, <1>10, <1>11, <1>12, <1>13, <1>14,
      <1>15, <1>16, <1>17, <1>18, <1>19, <1>20, <1>21, <1>22, <1>23, <1>24, <1>25, <1>26, <1>27,
      <1>28, <1>29, <1>30, <1>31, <1>32, <1>33, <1>34, <1>35, <1>36, <1>37, <1>38, <1>39, <1>40,
      <1>41, <1>42, <1>43, <1>44 DEF Next, InstallerStep, Guard, WorkerStep, Gui, Handler

-----------------------------------------------------------------------------
(* The invariant holds initially.                                           *)
LEMMA InitIInv == Init => IInv
<1> SUFFICES ASSUME Init PROVE IInv
  OBVIOUS
<1>1. Types
  <2>1. DataType
    BY DEF Init, NewWindow, DataType, Handles, Guis
  <2>2. CountType /\ WorkType
    BY InstallsAssumption, MaxWorkersAssumption
    DEF Init, NewWindow, CountType, WorkType, Phases, MaxAttempts
  <2>3. FlagType
    BY DEF Init, NewWindow, FlagType
  <2>4. QED
    BY <2>1, <2>2, <2>3 DEF Types
<1>2. NoneRuns
  BY DEF Init, NewWindow, NoneRuns, Running
<1>3. BgInv /\ CloseInv
  BY DEF Init, NewWindow, BgInv, CloseInv
<1>4. WorkInv
  BY <1>2 DEF WorkInv, NoneRuns, OnlyDropped
<1>5. QuietInv
  BY DEF Init, NewWindow, QuietInv, Told, Handles
<1>6. QED
  BY <1>1, <1>3, <1>4, <1>5 DEF IInv

(* The invariant holds in every reachable state.                            *)
THEOREM Invariance == Spec => []IInv
<1>1. IInv /\ [Next]_vars => IInv'
  BY NextDataType, NextCountType, NextFlagType, NextWorkType, NextBgInv, NextCloseInv,
     NextWorkInv, NextQuietInv DEF IInv, Types
<1>2. QED
  BY <1>1, InitIInv, PTL DEF Spec

(* Every variable has its type.                                             *)
THEOREM TypeCorrect == Spec => []TypeOK
<1>1. IInv => TypeOK
  BY TypesAgree DEF IInv
<1>2. QED
  BY <1>1, Invariance, PTL

(* A window that is closing never waits in its event loop without the timer *)
(* that closes it again.                                                    *)
THEOREM NeverStuckClosing == Spec => []NotStuckClosing
<1>1. IInv => NotStuckClosing
  BY DEF IInv, CloseInv, NotStuckClosing
<1>2. QED
  BY <1>1, Invariance, PTL

(* When the application ends, the only recorder threads that run are those  *)
(* the window had dropped for the signal of another.                        *)
THEOREM OnlyDroppedAreLeft == Spec => []OnlyDroppedOutlive
<1>1. IInv => OnlyDroppedOutlive
  BY DEF IInv, WorkInv, OnlyDropped, OnlyDroppedOutlive
<1>2. QED
  BY <1>1, Invariance, PTL

-----------------------------------------------------------------------------
Quiet == /\ app = "none" /\ \A i \in Workers : ~Running(i)
         /\ lost = {} => obs = "none"
Proceeds == verdict' = "proceed" /\ ins \in Handles

(* The installer proceeds only after the completion of an application that is gone. *)
LEMMA NextQuiet == IInv /\ [Next]_vars => (Proceeds => Quiet)
<1> SUFFICES ASSUME IInv, [Next]_vars PROVE (Proceeds => Quiet)
  OBVIOUS
<1> USE DEF IInv, Types, DataType, WorkInv, QuietInv, NoneRuns, OnlyDropped, Told, MutexHeld,
    Handles, Proceeds, Quiet, insVars, appVars, vars
<1>1. ASSUME FirstQuery PROVE (Proceeds => Quiet)
  BY <1>1 DEF FirstQuery, InstallerIdle
<1>2. ASSUME OpenEvents PROVE (Proceeds => Quiet)
  BY <1>2 DEF OpenEvents, InstallerIdle
<1>3. ASSUME ResetEvents PROVE (Proceeds => Quiet)
  BY <1>3 DEF ResetEvents, InstallerIdle
<1>4. ASSUME RequestShutdown PROVE (Proceeds => Quiet)
  BY <1>4 DEF RequestShutdown, InstallerIdle, Signal
<1>5. ASSUME PollBlocked PROVE (Proceeds => Quiet)
  BY <1>5 DEF PollBlocked, InstallerIdle, Return
<1>6. ASSUME PollComplete PROVE (Proceeds => Quiet)
  BY <1>6 DEF PollComplete, InstallerIdle
<1>7. ASSUME PollApp PROVE (Proceeds => Quiet)
  BY <1>7 DEF PollApp, InstallerIdle, Return, MayProceed
<1>8. ASSUME GiveUp PROVE (Proceeds => Quiet)
  BY <1>8 DEF GiveUp, InstallerIdle, Return
<1>9. ASSUME Claim PROVE (Proceeds => Quiet)
  BY <1>9 DEF Claim, GuardIdle
<1>10. ASSUME Acquire PROVE (Proceeds => Quiet)
  BY <1>10 DEF Acquire, GuardIdle, EventsTaken
<1>11. ASSUME LeaveMain PROVE (Proceeds => Quiet)
  BY <1>11 DEF LeaveMain, GuardIdle, Abandoned, Signal
<1>12. ASSUME ProcessEnds PROVE (Proceeds => Quiet)
  BY <1>12 DEF ProcessEnds, GuardIdle, Abandoned
<1>13. ASSUME NEW i \in Workers, CreateSupervisor(i) PROVE (Proceeds => Quiet)
  BY <1>13 DEF CreateSupervisor, WorkerIdle, Alive, Move, Flags
<1>14. ASSUME NEW i \in Workers, CheckRequested(i) PROVE (Proceeds => Quiet)
  BY <1>14 DEF CheckRequested, WorkerIdle, Alive, Move, Flags
<1>15. ASSUME NEW i \in Workers, LaunchObs(i) PROVE (Proceeds => Quiet)
  BY <1>15 DEF LaunchObs, WorkerIdle, Alive, Move, Flags
<1>16. ASSUME NEW i \in Workers, LaunchFails(i) PROVE (Proceeds => Quiet)
  BY <1>16 DEF LaunchFails, WorkerIdle, Alive, Move, Forget
<1>17. ASSUME NEW i \in Workers, BeginRecording(i) PROVE (Proceeds => Quiet)
  BY <1>17 DEF BeginRecording, WorkerIdle, Alive, Move, Flags
<1>18. ASSUME NEW i \in Workers, FinishRecording(i) PROVE (Proceeds => Quiet)
  BY <1>18 DEF FinishRecording, WorkerIdle, Alive, Move, Flags
<1>19. ASSUME NEW i \in Workers, StopWatching(i) PROVE (Proceeds => Quiet)
  BY <1>19 DEF StopWatching, WorkerIdle, Alive, Move, Flags
<1>20. ASSUME NEW i \in Workers, ShutDownObs(i) PROVE (Proceeds => Quiet)
  BY <1>20 DEF ShutDownObs, WorkerIdle, Alive, Move, Forget
<1>21. ASSUME ObsEnds PROVE (Proceeds => Quiet)
  BY <1>21 DEF ObsEnds
<1>22. ASSUME MinimizeToTray PROVE (Proceeds => Quiet)
  BY <1>22 DEF MinimizeToTray, GuiStep, GuiTurn
<1>23. ASSUME BeginClose PROVE (Proceeds => Quiet)
  BY <1>23, BgIsWorker DEF BeginClose, GuiStep, GuiTurn, BgRunning
<1>24. ASSUME StopWork PROVE (Proceeds => Quiet)
  BY <1>24, BgIsWorker DEF StopWork, GuiStep, GuiTurn, BgRunning, MayForce, WaitOver,
      CountsAsStopped
<1>25. ASSUME AbortUnstopped PROVE (Proceeds => Quiet)
  BY <1>25 DEF AbortUnstopped, GuiStep, GuiTurn, Abort, Signal, ObsUnconfirmed, UpdateAttemptsUsed
<1>26. ASSUME RetryClose PROVE (Proceeds => Quiet)
  BY <1>26 DEF RetryClose, GuiStep, GuiTurn, MayForce
<1>27. ASSUME AskForce PROVE (Proceeds => Quiet)
  BY <1>27 DEF AskForce, GuiStep, GuiTurn, MayForce
<1>28. ASSUME AnswerForce PROVE (Proceeds => Quiet)
  BY <1>28, BgIsWorker DEF AnswerForce, GuiStep, GuiTurn, BgRunning
<1>29. ASSUME VerifyObs PROVE (Proceeds => Quiet)
  BY <1>29 DEF VerifyObs, GuiStep, GuiTurn, Abort, Signal, AcceptUpdate
<1>30. ASSUME FlagUpdate PROVE (Proceeds => Quiet)
  BY <1>30, BgIsWorker DEF FlagUpdate, GuiStep, GuiTurn, FlagAndStop
<1>31. ASSUME FlagSettings PROVE (Proceeds => Quiet)
  BY <1>31, BgIsWorker DEF FlagSettings, GuiStep, GuiTurn, FlagAndStop
<1>32. ASSUME WaitSettings PROVE (Proceeds => Quiet)
  BY <1>32 DEF WaitSettings, GuiStep, GuiTurn
<1>33. ASSUME CloseTimer PROVE (Proceeds => Quiet)
  BY <1>33 DEF CloseTimer, GuiStep, GuiTurn, Close, InLoop
<1>34. ASSUME DismissAbort PROVE (Proceeds => Quiet)
  BY <1>34 DEF DismissAbort, GuiStep, GuiTurn
<1>35. ASSUME BeginSetup PROVE (Proceeds => Quiet)
  BY <1>35 DEF BeginSetup, GuiStep, GuiTurn
<1>36. ASSUME EndSetup PROVE (Proceeds => Quiet)
  BY <1>36, EnsureIs DEF EndSetup, GuiStep, GuiTurn
<1>37. ASSUME ShowHome PROVE (Proceeds => Quiet)
  BY <1>37, EnsureIs DEF ShowHome, GuiStep, GuiTurn
<1>38. ASSUME RecorderFinished PROVE (Proceeds => Quiet)
  BY <1>38, BgIsWorker DEF RecorderFinished, GuiStep, GuiTurn, BgRunning, BgFailed
<1>39. ASSUME ShowSettings PROVE (Proceeds => Quiet)
  BY <1>39, BgIsWorker DEF ShowSettings, GuiStep, GuiTurn, BgRunning, Ask, BgFailed
<1>40. ASSUME PollRefused PROVE (Proceeds => Quiet)
  BY <1>40 DEF PollRefused, GuiStep, GuiTurn, BgFailed, Consume, Left, InLoop
<1>41. ASSUME PollGranted PROVE (Proceeds => Quiet)
  BY <1>41, BgIsWorker DEF PollGranted, GuiStep, GuiTurn, BgRunning, Consume, Left, Ask, Close,
      InLoop
<1>42. ASSUME PollFails PROVE (Proceeds => Quiet)
  BY <1>42 DEF PollFails, GuiStep, GuiTurn, Signal, InLoop
<1>43. ASSUME Quit PROVE (Proceeds => Quiet)
  BY <1>43 DEF Quit, GuiStep, GuiTurn
<1>44. CASE UNCHANGED vars
  BY <1>44
<1>45. QED
  BY <1>1, <1>2, <1>3, <1>4, <1>5, <1>6, <1>7, <1>8, <1>9, <1>10, <1>11, <1>12, <1>13, <1>14,
      <1>15, <1>16, <1>17, <1>18, <1>19, <1>20, <1>21, <1>22, <1>23, <1>24, <1>25, <1>26, <1>27,
      <1>28, <1>29, <1>30, <1>31, <1>32, <1>33, <1>34, <1>35, <1>36, <1>37, <1>38, <1>39, <1>40,
      <1>41, <1>42, <1>43, <1>44 DEF Next, InstallerStep, Guard, WorkerStep, Gui, Handler


(* The installer that asked a running application replaces files only when  *)
(* that process and its recorder threads are gone, and the managed OBS too  *)
(* unless a dropped recorder started it.                                    *)
THEOREM ProceedsWhenQuiet == Spec => ProceedOnlyWhenQuiet
<1>1. IInv /\ [Next]_vars => [Proceeds => Quiet]_vars
  BY NextQuiet
<1>2. QED
  BY <1>1, Invariance, PTL DEF Spec, ProceedOnlyWhenQuiet, Proceeds, Quiet

-----------------------------------------------------------------------------
(* An update attempt is decided.                                            *)

(* An update under way has closed the window or is about to, and nothing    *)
(* of another close is left: neither the question nor an unrequested hide.  *)
AttemptInv ==
    /\ updateReq => quitting /\ gui # "question"
    /\ gui \in {"flagUpdate", "flagNested"} => ~closing
    /\ gui = "question" => closing
    /\ closing /\ updateReq => attempts >= 1
    /\ gui \in {"stopping", "unstopped", "verify"} => closing /\ attempts >= 1

(* An update attempt that has closed the window, and what a step may do to  *)
(* it: decide it, or go on without adding to the handlers that are left.    *)
Attempt == updateReq /\ closing /\ app = "running"
Withdrawn == ~closing' /\ "blocked" \in events'
GoesOn == updateReq' /\ closing' /\ (ShowSettings \/ StepsLeft' <= StepsLeft)

(* The end of an attempt: the window quits, or the update is aborted.       *)
LEMMA VerifyIs ==
    ASSUME VerifyObs
    PROVE  /\ gui = "verify"
           /\ \/ gui' = "quit" /\ UNCHANGED <<events, closing, quitting, updateReq, attempts>>
              \/ /\ gui' = "abortBox" /\ "blocked" \in events' /\ ~closing' /\ ~updateReq'
                 /\ attempts' = FreshAttempts
<1>1. gui = "verify" /\ ((AcceptUpdate /\ UNCHANGED <<events, closing, quitting, updateReq,
    attempts>>) \/ Abort)
  BY Zenon DEF VerifyObs
<1>2. CASE AcceptUpdate /\ UNCHANGED <<events, closing, quitting, updateReq, attempts>>
  BY <1>1, <1>2, Zenon DEF AcceptUpdate
<1>3. CASE Abort
  BY <1>1, <1>3 DEF Abort, Signal
<1>4. QED
  BY <1>1, <1>2, <1>3

(* Every step keeps AttemptInv.                                             *)
LEMMA NextAttemptInv == IInv /\ AttemptInv /\ [Next]_vars => AttemptInv'
<1> SUFFICES ASSUME IInv, AttemptInv, [Next]_vars PROVE AttemptInv'
  OBVIOUS
<1> USE DEF IInv, Types, DataType, CountType, FlagType, CloseInv, AttemptInv, Guis, MaxAttempts,
    FreshAttempts, insVars, appVars, winVars, endVars, workVars, vars
<1>1. ASSUME FirstQuery PROVE AttemptInv'
  BY <1>1 DEF FirstQuery, InstallerIdle
<1>2. ASSUME OpenEvents PROVE AttemptInv'
  BY <1>2 DEF OpenEvents, InstallerIdle
<1>3. ASSUME ResetEvents PROVE AttemptInv'
  BY <1>3 DEF ResetEvents, InstallerIdle
<1>4. ASSUME RequestShutdown PROVE AttemptInv'
  BY <1>4 DEF RequestShutdown, InstallerIdle, Signal
<1>5. ASSUME PollBlocked PROVE AttemptInv'
  BY <1>5 DEF PollBlocked, InstallerIdle, Return
<1>6. ASSUME PollComplete PROVE AttemptInv'
  BY <1>6 DEF PollComplete, InstallerIdle
<1>7. ASSUME PollApp PROVE AttemptInv'
  BY <1>7 DEF PollApp, InstallerIdle, Return, MayProceed
<1>8. ASSUME GiveUp PROVE AttemptInv'
  BY <1>8 DEF GiveUp, InstallerIdle, Return
<1>9. ASSUME Claim PROVE AttemptInv'
  BY <1>9 DEF Claim, GuardIdle
<1>10. ASSUME Acquire PROVE AttemptInv'
  BY <1>10 DEF Acquire, GuardIdle, EventsTaken
<1>11. ASSUME LeaveMain PROVE AttemptInv'
  BY <1>11 DEF LeaveMain, GuardIdle, Abandoned, Signal
<1>12. ASSUME ProcessEnds PROVE AttemptInv'
  BY <1>12 DEF ProcessEnds, GuardIdle, Abandoned
<1>13. ASSUME NEW i \in Workers, CreateSupervisor(i) PROVE AttemptInv'
  BY <1>13 DEF CreateSupervisor, WorkerIdle, Alive, Move, Flags
<1>14. ASSUME NEW i \in Workers, CheckRequested(i) PROVE AttemptInv'
  BY <1>14 DEF CheckRequested, WorkerIdle, Alive, Move, Flags
<1>15. ASSUME NEW i \in Workers, LaunchObs(i) PROVE AttemptInv'
  BY <1>15 DEF LaunchObs, WorkerIdle, Alive, Move, Flags
<1>16. ASSUME NEW i \in Workers, LaunchFails(i) PROVE AttemptInv'
  BY <1>16 DEF LaunchFails, WorkerIdle, Alive, Move, Forget
<1>17. ASSUME NEW i \in Workers, BeginRecording(i) PROVE AttemptInv'
  BY <1>17 DEF BeginRecording, WorkerIdle, Alive, Move, Flags
<1>18. ASSUME NEW i \in Workers, FinishRecording(i) PROVE AttemptInv'
  BY <1>18 DEF FinishRecording, WorkerIdle, Alive, Move, Flags
<1>19. ASSUME NEW i \in Workers, StopWatching(i) PROVE AttemptInv'
  BY <1>19 DEF StopWatching, WorkerIdle, Alive, Move, Flags
<1>20. ASSUME NEW i \in Workers, ShutDownObs(i) PROVE AttemptInv'
  BY <1>20 DEF ShutDownObs, WorkerIdle, Alive, Move, Forget
<1>21. ASSUME ObsEnds PROVE AttemptInv'
  BY <1>21 DEF ObsEnds
<1>22. ASSUME MinimizeToTray PROVE AttemptInv'
  BY <1>22 DEF MinimizeToTray, GuiStep, GuiTurn
<1>23. ASSUME BeginClose PROVE AttemptInv'
  BY <1>23, BgIsWorker DEF BeginClose, GuiStep, GuiTurn, BgRunning
<1>24. ASSUME StopWork PROVE AttemptInv'
  BY <1>24, BgIsWorker DEF StopWork, GuiStep, GuiTurn, BgRunning, MayForce, WaitOver,
      CountsAsStopped
<1>25. ASSUME AbortUnstopped PROVE AttemptInv'
  BY <1>25 DEF AbortUnstopped, GuiStep, GuiTurn, Abort, Signal, ObsUnconfirmed, UpdateAttemptsUsed
<1>26. ASSUME RetryClose PROVE AttemptInv'
  BY <1>26 DEF RetryClose, GuiStep, GuiTurn, MayForce
<1>27. ASSUME AskForce PROVE AttemptInv'
  BY <1>27 DEF AskForce, GuiStep, GuiTurn, MayForce
<1>28. ASSUME AnswerForce PROVE AttemptInv'
  BY <1>28, BgIsWorker DEF AnswerForce, GuiStep, GuiTurn, BgRunning
<1>29. ASSUME VerifyObs PROVE AttemptInv'
  <2>1. CASE gui' = "quit" /\ UNCHANGED <<events, closing, quitting, updateReq, attempts>>
    BY <1>29, <2>1, VerifyIs
  <2>2. CASE gui' = "abortBox" /\ "blocked" \in events' /\ ~closing' /\ ~updateReq' /\ attempts'
      = FreshAttempts
    BY <1>29, <2>2, VerifyIs
  <2>3. QED
    BY <1>29, <2>1, <2>2, VerifyIs
<1>30. ASSUME FlagUpdate PROVE AttemptInv'
  BY <1>30, BgIsWorker DEF FlagUpdate, GuiStep, GuiTurn, FlagAndStop
<1>31. ASSUME FlagSettings PROVE AttemptInv'
  BY <1>31, BgIsWorker DEF FlagSettings, GuiStep, GuiTurn, FlagAndStop
<1>32. ASSUME WaitSettings PROVE AttemptInv'
  BY <1>32 DEF WaitSettings, GuiStep, GuiTurn
<1>33. ASSUME CloseTimer PROVE AttemptInv'
  BY <1>33 DEF CloseTimer, GuiStep, GuiTurn, Close, InLoop
<1>34. ASSUME DismissAbort PROVE AttemptInv'
  BY <1>34 DEF DismissAbort, GuiStep, GuiTurn
<1>35. ASSUME BeginSetup PROVE AttemptInv'
  BY <1>35 DEF BeginSetup, GuiStep, GuiTurn
<1>36. ASSUME EndSetup PROVE AttemptInv'
  BY <1>36, EnsureIs DEF EndSetup, GuiStep, GuiTurn
<1>37. ASSUME ShowHome PROVE AttemptInv'
  BY <1>37, EnsureIs DEF ShowHome, GuiStep, GuiTurn
<1>38. ASSUME RecorderFinished PROVE AttemptInv'
  BY <1>38, BgIsWorker DEF RecorderFinished, GuiStep, GuiTurn, BgRunning, BgFailed
<1>39. ASSUME ShowSettings PROVE AttemptInv'
  BY <1>39, BgIsWorker DEF ShowSettings, GuiStep, GuiTurn, BgRunning, Ask, BgFailed
<1>40. ASSUME PollRefused PROVE AttemptInv'
  BY <1>40 DEF PollRefused, GuiStep, GuiTurn, BgFailed, Consume, Left, InLoop
<1>41. ASSUME PollGranted PROVE AttemptInv'
  BY <1>41, BgIsWorker DEF PollGranted, GuiStep, GuiTurn, BgRunning, Consume, Left, Ask, Close,
      InLoop
<1>42. ASSUME PollFails PROVE AttemptInv'
  BY <1>42 DEF PollFails, GuiStep, GuiTurn, Signal, InLoop
<1>43. ASSUME Quit PROVE AttemptInv'
  BY <1>43 DEF Quit, GuiStep, GuiTurn
<1>44. CASE UNCHANGED vars
  BY <1>44
<1>45. QED
  BY <1>1, <1>2, <1>3, <1>4, <1>5, <1>6, <1>7, <1>8, <1>9, <1>10, <1>11, <1>12, <1>13, <1>14,
      <1>15, <1>16, <1>17, <1>18, <1>19, <1>20, <1>21, <1>22, <1>23, <1>24, <1>25, <1>26, <1>27,
      <1>28, <1>29, <1>30, <1>31, <1>32, <1>33, <1>34, <1>35, <1>36, <1>37, <1>38, <1>39, <1>40,
      <1>41, <1>42, <1>43, <1>44 DEF Next, InstallerStep, Guard, WorkerStep, Gui, Handler

(* No step adds to the handlers left, but the user's opening of the settings. *)
LEMMA NextAttempt == IInv /\ AttemptInv /\ [Next]_vars => (Attempt => Withdrawn \/ GoesOn \/
    LeaveMain)
<1> SUFFICES ASSUME IInv, AttemptInv, [Next]_vars PROVE (Attempt => Withdrawn \/ GoesOn \/
    LeaveMain)
  OBVIOUS
<1> USE DEF IInv, Types, DataType, CountType, FlagType, CloseInv, AttemptInv, Guis, MaxAttempts,
    MaxUpdateAttempts, UpdateAttemptsUsed, Attempt, Withdrawn, GoesOn, StepsLeft, insVars,
    appVars, winVars, endVars, workVars, vars
<1>1. ASSUME FirstQuery PROVE (Attempt => Withdrawn \/ GoesOn \/ LeaveMain)
  BY <1>1 DEF FirstQuery, InstallerIdle
<1>2. ASSUME OpenEvents PROVE (Attempt => Withdrawn \/ GoesOn \/ LeaveMain)
  BY <1>2 DEF OpenEvents, InstallerIdle
<1>3. ASSUME ResetEvents PROVE (Attempt => Withdrawn \/ GoesOn \/ LeaveMain)
  BY <1>3 DEF ResetEvents, InstallerIdle
<1>4. ASSUME RequestShutdown PROVE (Attempt => Withdrawn \/ GoesOn \/ LeaveMain)
  BY <1>4 DEF RequestShutdown, InstallerIdle, Signal
<1>5. ASSUME PollBlocked PROVE (Attempt => Withdrawn \/ GoesOn \/ LeaveMain)
  BY <1>5 DEF PollBlocked, InstallerIdle, Return
<1>6. ASSUME PollComplete PROVE (Attempt => Withdrawn \/ GoesOn \/ LeaveMain)
  BY <1>6 DEF PollComplete, InstallerIdle
<1>7. ASSUME PollApp PROVE (Attempt => Withdrawn \/ GoesOn \/ LeaveMain)
  BY <1>7 DEF PollApp, InstallerIdle, Return, MayProceed
<1>8. ASSUME GiveUp PROVE (Attempt => Withdrawn \/ GoesOn \/ LeaveMain)
  BY <1>8 DEF GiveUp, InstallerIdle, Return
<1>9. ASSUME Claim PROVE (Attempt => Withdrawn \/ GoesOn \/ LeaveMain)
  BY <1>9 DEF Claim, GuardIdle
<1>10. ASSUME Acquire PROVE (Attempt => Withdrawn \/ GoesOn \/ LeaveMain)
  BY <1>10 DEF Acquire, GuardIdle, EventsTaken
<1>11. ASSUME LeaveMain PROVE (Attempt => Withdrawn \/ GoesOn \/ LeaveMain)
  BY <1>11 DEF LeaveMain, GuardIdle, Abandoned, Signal
<1>12. ASSUME ProcessEnds PROVE (Attempt => Withdrawn \/ GoesOn \/ LeaveMain)
  BY <1>12 DEF ProcessEnds, GuardIdle, Abandoned
<1>13. ASSUME NEW i \in Workers, CreateSupervisor(i) PROVE (Attempt => Withdrawn \/ GoesOn \/
    LeaveMain)
  BY <1>13 DEF CreateSupervisor, WorkerIdle, Alive, Move, Flags
<1>14. ASSUME NEW i \in Workers, CheckRequested(i) PROVE (Attempt => Withdrawn \/ GoesOn \/
    LeaveMain)
  BY <1>14 DEF CheckRequested, WorkerIdle, Alive, Move, Flags
<1>15. ASSUME NEW i \in Workers, LaunchObs(i) PROVE (Attempt => Withdrawn \/ GoesOn \/ LeaveMain)
  BY <1>15 DEF LaunchObs, WorkerIdle, Alive, Move, Flags
<1>16. ASSUME NEW i \in Workers, LaunchFails(i) PROVE (Attempt => Withdrawn \/ GoesOn \/
    LeaveMain)
  BY <1>16 DEF LaunchFails, WorkerIdle, Alive, Move, Forget
<1>17. ASSUME NEW i \in Workers, BeginRecording(i) PROVE (Attempt => Withdrawn \/ GoesOn \/
    LeaveMain)
  BY <1>17 DEF BeginRecording, WorkerIdle, Alive, Move, Flags
<1>18. ASSUME NEW i \in Workers, FinishRecording(i) PROVE (Attempt => Withdrawn \/ GoesOn \/
    LeaveMain)
  BY <1>18 DEF FinishRecording, WorkerIdle, Alive, Move, Flags
<1>19. ASSUME NEW i \in Workers, StopWatching(i) PROVE (Attempt => Withdrawn \/ GoesOn \/
    LeaveMain)
  BY <1>19 DEF StopWatching, WorkerIdle, Alive, Move, Flags
<1>20. ASSUME NEW i \in Workers, ShutDownObs(i) PROVE (Attempt => Withdrawn \/ GoesOn \/
    LeaveMain)
  BY <1>20 DEF ShutDownObs, WorkerIdle, Alive, Move, Forget
<1>21. ASSUME ObsEnds PROVE (Attempt => Withdrawn \/ GoesOn \/ LeaveMain)
  BY <1>21 DEF ObsEnds
<1>22. ASSUME MinimizeToTray PROVE (Attempt => Withdrawn \/ GoesOn \/ LeaveMain)
  BY <1>22 DEF MinimizeToTray, GuiStep, GuiTurn
<1>23. ASSUME BeginClose PROVE (Attempt => Withdrawn \/ GoesOn \/ LeaveMain)
  BY <1>23, BgIsWorker DEF BeginClose, GuiStep, GuiTurn, BgRunning
<1>24. ASSUME StopWork PROVE (Attempt => Withdrawn \/ GoesOn \/ LeaveMain)
  BY <1>24, BgIsWorker DEF StopWork, GuiStep, GuiTurn, BgRunning, MayForce, WaitOver,
      CountsAsStopped
<1>25. ASSUME AbortUnstopped PROVE (Attempt => Withdrawn \/ GoesOn \/ LeaveMain)
  BY <1>25 DEF AbortUnstopped, GuiStep, GuiTurn, Abort, Signal, ObsUnconfirmed, UpdateAttemptsUsed
<1>26. ASSUME RetryClose PROVE (Attempt => Withdrawn \/ GoesOn \/ LeaveMain)
  BY <1>26 DEF RetryClose, GuiStep, GuiTurn, MayForce
<1>27. ASSUME AskForce PROVE (Attempt => Withdrawn \/ GoesOn \/ LeaveMain)
  BY <1>27 DEF AskForce, GuiStep, GuiTurn, MayForce
<1>28. ASSUME AnswerForce PROVE (Attempt => Withdrawn \/ GoesOn \/ LeaveMain)
  BY <1>28, BgIsWorker DEF AnswerForce, GuiStep, GuiTurn, BgRunning
<1>29. ASSUME VerifyObs PROVE (Attempt => Withdrawn \/ GoesOn \/ LeaveMain)
  <2>1. CASE gui' = "quit" /\ UNCHANGED <<events, closing, quitting, updateReq, attempts>>
    BY <1>29, <2>1, VerifyIs
  <2>2. CASE gui' = "abortBox" /\ "blocked" \in events' /\ ~closing' /\ ~updateReq' /\ attempts'
      = FreshAttempts
    BY <1>29, <2>2, VerifyIs
  <2>3. QED
    BY <1>29, <2>1, <2>2, VerifyIs
<1>30. ASSUME FlagUpdate PROVE (Attempt => Withdrawn \/ GoesOn \/ LeaveMain)
  BY <1>30, BgIsWorker DEF FlagUpdate, GuiStep, GuiTurn, FlagAndStop
<1>31. ASSUME FlagSettings PROVE (Attempt => Withdrawn \/ GoesOn \/ LeaveMain)
  BY <1>31, BgIsWorker DEF FlagSettings, GuiStep, GuiTurn, FlagAndStop
<1>32. ASSUME WaitSettings PROVE (Attempt => Withdrawn \/ GoesOn \/ LeaveMain)
  BY <1>32 DEF WaitSettings, GuiStep, GuiTurn
<1>33. ASSUME CloseTimer PROVE (Attempt => Withdrawn \/ GoesOn \/ LeaveMain)
  BY <1>33 DEF CloseTimer, GuiStep, GuiTurn, Close, InLoop
<1>34. ASSUME DismissAbort PROVE (Attempt => Withdrawn \/ GoesOn \/ LeaveMain)
  BY <1>34 DEF DismissAbort, GuiStep, GuiTurn
<1>35. ASSUME BeginSetup PROVE (Attempt => Withdrawn \/ GoesOn \/ LeaveMain)
  BY <1>35 DEF BeginSetup, GuiStep, GuiTurn
<1>36. ASSUME EndSetup PROVE (Attempt => Withdrawn \/ GoesOn \/ LeaveMain)
  BY <1>36, EnsureIs DEF EndSetup, GuiStep, GuiTurn
<1>37. ASSUME ShowHome PROVE (Attempt => Withdrawn \/ GoesOn \/ LeaveMain)
  BY <1>37, EnsureIs DEF ShowHome, GuiStep, GuiTurn
<1>38. ASSUME RecorderFinished PROVE (Attempt => Withdrawn \/ GoesOn \/ LeaveMain)
  BY <1>38, BgIsWorker DEF RecorderFinished, GuiStep, GuiTurn, BgRunning, BgFailed
<1>39. ASSUME ShowSettings PROVE (Attempt => Withdrawn \/ GoesOn \/ LeaveMain)
  BY <1>39, BgIsWorker DEF ShowSettings, GuiStep, GuiTurn, BgRunning, Ask, BgFailed
<1>40. ASSUME PollRefused PROVE (Attempt => Withdrawn \/ GoesOn \/ LeaveMain)
  BY <1>40 DEF PollRefused, GuiStep, GuiTurn, BgFailed, Consume, Left, InLoop
<1>41. ASSUME PollGranted PROVE (Attempt => Withdrawn \/ GoesOn \/ LeaveMain)
  BY <1>41, BgIsWorker DEF PollGranted, GuiStep, GuiTurn, BgRunning, Consume, Left, Ask, Close,
      InLoop
<1>42. ASSUME PollFails PROVE (Attempt => Withdrawn \/ GoesOn \/ LeaveMain)
  BY <1>42 DEF PollFails, GuiStep, GuiTurn, Signal, InLoop
<1>43. ASSUME Quit PROVE (Attempt => Withdrawn \/ GoesOn \/ LeaveMain)
  BY <1>43 DEF Quit, GuiStep, GuiTurn
<1>44. CASE UNCHANGED vars
  BY <1>44
<1>45. QED
  BY <1>1, <1>2, <1>3, <1>4, <1>5, <1>6, <1>7, <1>8, <1>9, <1>10, <1>11, <1>12, <1>13, <1>14,
      <1>15, <1>16, <1>17, <1>18, <1>19, <1>20, <1>21, <1>22, <1>23, <1>24, <1>25, <1>26, <1>27,
      <1>28, <1>29, <1>30, <1>31, <1>32, <1>33, <1>34, <1>35, <1>36, <1>37, <1>38, <1>39, <1>40,
      <1>41, <1>42, <1>43, <1>44 DEF Next, InstallerStep, Guard, WorkerStep, Gui, Handler

(* Each handler, and the timer that begins the next attempt, leaves fewer. *)
LEMMA HandlerCounts ==
  ASSUME IInv, AttemptInv, Attempt, Handler \/ CloseTimer
  PROVE  Withdrawn \/ StepsLeft' < StepsLeft
<1> USE DEF IInv, Types, DataType, CountType, FlagType, CloseInv, AttemptInv, Attempt, Guis,
    MaxAttempts, MaxUpdateAttempts, UpdateAttemptsUsed, Withdrawn, StepsLeft, endVars
<1>1. ASSUME MinimizeToTray PROVE Withdrawn \/ StepsLeft' < StepsLeft
  BY <1>1 DEF MinimizeToTray, GuiStep, GuiTurn
<1>2. ASSUME BeginClose PROVE Withdrawn \/ StepsLeft' < StepsLeft
  BY <1>2 DEF BeginClose, GuiStep, GuiTurn, BgRunning
<1>3. ASSUME StopWork PROVE Withdrawn \/ StepsLeft' < StepsLeft
  BY <1>3 DEF StopWork, GuiStep, GuiTurn, BgRunning, MayForce, WaitOver, CountsAsStopped
<1>4. ASSUME AbortUnstopped PROVE Withdrawn \/ StepsLeft' < StepsLeft
  BY <1>4 DEF AbortUnstopped, GuiStep, GuiTurn, Abort, Signal, ObsUnconfirmed
<1>5. ASSUME RetryClose PROVE Withdrawn \/ StepsLeft' < StepsLeft
  BY <1>5 DEF RetryClose, GuiStep, GuiTurn, MayForce
<1>6. ASSUME AskForce PROVE Withdrawn \/ StepsLeft' < StepsLeft
  BY <1>6 DEF AskForce, GuiStep, GuiTurn, MayForce
<1>7. ASSUME AnswerForce PROVE Withdrawn \/ StepsLeft' < StepsLeft
  BY <1>7 DEF AnswerForce, GuiStep, GuiTurn, BgRunning
<1>8. ASSUME VerifyObs PROVE Withdrawn \/ StepsLeft' < StepsLeft
  <2>1. CASE gui' = "quit" /\ UNCHANGED <<events, closing, quitting, updateReq, attempts>>
    BY <1>8, <2>1, VerifyIs
  <2>2. CASE ~closing' /\ "blocked" \in events'
    BY <2>2
  <2>3. QED
    BY <1>8, <2>1, <2>2, VerifyIs
<1>9. ASSUME FlagUpdate PROVE Withdrawn \/ StepsLeft' < StepsLeft
  BY <1>9 DEF FlagUpdate, GuiStep, GuiTurn, FlagAndStop
<1>10. ASSUME FlagSettings PROVE Withdrawn \/ StepsLeft' < StepsLeft
  BY <1>10 DEF FlagSettings, GuiStep, GuiTurn, FlagAndStop
<1>11. ASSUME WaitSettings PROVE Withdrawn \/ StepsLeft' < StepsLeft
  BY <1>11 DEF WaitSettings, GuiStep, GuiTurn
<1>12. ASSUME CloseTimer PROVE Withdrawn \/ StepsLeft' < StepsLeft
  BY <1>12 DEF CloseTimer, GuiStep, GuiTurn, Close, InLoop
<1>13. QED
  BY <1>1, <1>2, <1>3, <1>4, <1>5, <1>6, <1>7, <1>8, <1>9, <1>10, <1>11, <1>12 DEF Handler

(* What the counting relies on holds in every reachable state.              *)
LEMMA AttemptInvariance == Spec => [](IInv /\ AttemptInv)
<1>1. Init => AttemptInv
  BY DEF Init, NewWindow, AttemptInv
<1>2. QED
  BY <1>1, NextAttemptInv, Invariance, PTL DEF Spec

(* An update attempt that has closed the window is decided within as many   *)
(* handlers as StepsLeft says, at most 8 from its first close: the          *)
(* application leaves, or resumes and tells the installer.                  *)
THEOREM UpdateIsCounted == Spec => UpdateCountsDown
<1>1. IInv /\ AttemptInv /\ [Next]_vars =>
        [Attempt =>
           \/ ~closing' /\ "blocked" \in events'
           \/ /\ updateReq' /\ closing'
              /\ Handler \/ CloseTimer => StepsLeft' < StepsLeft
              /\ ShowSettings \/ StepsLeft' <= StepsLeft
           \/ LeaveMain]_vars
  BY NextAttempt, HandlerCounts DEF Withdrawn, GoesOn
<1>2. QED
  BY <1>1, AttemptInvariance, PTL DEF Spec, UpdateCountsDown, Attempt

=============================================================================
