--------------------------- MODULE RecorderProofs ---------------------------
(* Proofs about the two modules of the recorder: RecordingSession for every  *)
(* number of games, with and without faults, and GameDetection for every     *)
(* limit, grace and lag of what it polls.                                    *)
EXTENDS RecordingSession, GameDetection, TLAPS

(* The inductive invariant, in named parts.                                  *)

Looping == {"loop", "clear", "watch"}
LoopVerdicts == {"completed", "failed", "aborted"}

(* The lock: _recording_active is held exactly inside the loop body's try.   *)
LockInv ==
    /\ active <=> (pc \in Inside \/ (pc \in Finalising /\ fin \in LoopVerdicts))
    /\ reserved => ~active
    /\ pc \in Finalising => fin # "none"
    /\ pc \in {"save", "verdict"} => fin # "stopOnly"

(* StopRecord is counted by its flag.                                        *)
StopInv ==
    /\ stops = IF stopTried THEN 1 ELSE 0
    /\ pc = "finStop" => ~stopTried /\ recStarted /\ recPath = 0
    /\ pc \in {"clear", "watch"} \union Inside => ~stopTried /\ recPath = 0
    /\ pc = "finStatus" /\ fin # "stopOnly" => ~stopTried /\ recPath = 0
    /\ recPath # 0 => stopTried /\ ~recStarted
    /\ pc \in {"finStatus", "finStop"} /\ fin # "stopOnly" => attempted
    /\ stopTried /\ ~attempted => pc \in {"terminate", "killing", "done"}

(* Where a recording is known to run and where none may run.                 *)
RunningInv ==
    /\ pc \in {"sync", "recording", "result"} => recStarted
    /\ pc = "started" => recStarted \/ stop
    /\ out \in {"starting", "on"} => take # 0
    /\ pc \in {"setup", "postClear", "deferClear"} \union Looping => ~recStarted

(* A lost stop leaves the belief of a running recording, which nothing but   *)
(* the end of the run follows.                                               *)
LostInv ==
    stopLost => /\ recStarted /\ stopTried
                /\ pc \in {"finStatus", "save", "verdict"} \union Ending
                /\ pc = "finStatus" => fin = "stopOnly"

(* A recording that was stopped with a known file.                           *)
Whole == recPath # 0 /\ stops = 1 /\ ~recStarted /\ ~stopLost

LogInv ==
    /\ log # "none" <=> finalized
    /\ pc \in {"clear", "watch", "finStatus", "finStop", "save"} \union Inside => ~finalized
    /\ log = "completed" => Whole
    /\ pc = "postClear" => log = "completed"
    /\ "completed" \in notes => log = "completed" /\ pc \in {"loop"} \union Ending

(* What session_outcome says while a session is finalised.                   *)
OutcomeInv ==
    /\ pc \in {"finStatus", "finStop"} /\ fin = "completed" /\ outcome = "completed" => recStarted
    /\ pc \in {"save", "verdict"} /\ fin = "completed" /\ outcome = "completed" => Whole
    /\ pc \in {"finStatus", "finStop", "save"} /\ fin \in {"failed", "aborted", "shutdown"} =>
         outcome # "completed"
    /\ pc = "verdict" /\ fin = "completed" /\ outcome = "completed" /\ saved => log = "completed"

(* The failure of a session is told only when the session is over.           *)
VerdictInv ==
    "failed" \in notes =>
        /\ "completed" \notin notes
        /\ pc \in {"loop", "deferClear", "finStatus", "finStop", "save", "verdict"} \union Ending
        /\ pc \in Finalising => fin \in {"shutdown", "stopOnly"}

(* A session that recorded, or may have, is saved or will be reported.       *)
Recorded == recPath # 0 \/ recStarted \/ stopTried

SilentInv ==
    /\ pc \in {"setup", "loop", "postClear", "deferClear"} \union Ending
         /\ Recorded => finalized \/ "failed" \in notes
    /\ pc \in {"finStatus", "finStop"} /\ fin = "stopOnly" /\ Recorded => "failed" \in notes
    /\ pc = "save" /\ Recorded => recPath # 0 \/ recStarted \/ outcome = "failed"
    /\ pc = "verdict" /\ Recorded /\ ~finalized => ~saved \/ outcome = "failed" \/ fin = "failed"

StateInv == /\ LockInv /\ StopInv /\ RunningInv /\ LostInv /\ LogInv /\ OutcomeInv
            /\ VerdictInv /\ SilentInv

IInv == TypeOK /\ StateInv

-----------------------------------------------------------------------------
(* Type correctness: the flags apart from the rest.                          *)
LEMMA InitTypeOK == Init => TypeOK
<1> SUFFICES ASSUME Init PROVE TypeOK
  OBVIOUS
<1> USE MaxGamesAssumption DEF Init, PCs, Reasons, Outcomes
<1>1. FlagType
  BY DEF FlagType
<1>2. DataType
  BY DEF DataType
<1>3. QED
  BY <1>1, <1>2 DEF TypeOK

(* Each action sets the flags named here and leaves the others.              *)
LEMMA NextFlagType == TypeOK /\ [Next]_vars => FlagType'
<1> SUFFICES ASSUME TypeOK, [Next]_vars PROVE FlagType'
  OBVIOUS
<1> USE DEF TypeOK, FlagType, supVars, recVars, cliVars, obsVars, obsvVars, vars, Goto
<1>1. CASE PostStop
  BY <1>1 DEF PostStop
<1>2. CASE DeliverStop
  BY <1>2 DEF DeliverStop
<1>3. CASE ReserveUpdateShutdown
  BY <1>3 DEF ReserveUpdateShutdown
<1>4. CASE OutputStarts
  BY <1>4 DEF OutputStarts
<1>5. CASE OutputFails
  BY <1>5 DEF OutputFails
<1>6. CASE ObsDies
  BY <1>6 DEF ObsDies
<1>7. CASE CaptureChampSelect
  BY <1>7 DEF CaptureChampSelect
<1>8. CASE GameStarts
  <2>1. active' \in BOOLEAN
    BY <1>8 DEF GameStarts, MayBegin
  <2>2. UNCHANGED <<reserved, attempted, mayContinue, saved, posted, stop, recStarted, stopTried,
                   otherData, finalized, requireClear, conn, recovered, stopLost,
                   allowForce, forced>>
    BY <1>8 DEF GameStarts, MayBegin
  <2>3. QED
    BY <2>1, <2>2
<1>9. CASE GameEnds
  BY <1>9 DEF GameEnds
<1>10. CASE SetupOk
  BY <1>10 DEF SetupOk
<1>11. CASE SetupFails
  BY <1>11 DEF SetupFails
<1>12. CASE AudioProfileFails
  BY <1>12 DEF AudioProfileFails
<1>13. CASE BeginSession
  BY <1>13 DEF BeginSession
<1>14. CASE LeaveLoop
  BY <1>14 DEF LeaveLoop, StopSeen
<1>15. CASE WaitRaises
  BY <1>15 DEF WaitRaises
<1>16. CASE PreviousGameClear
  <2>1. requireClear' \in BOOLEAN
    BY <1>16 DEF PreviousGameClear
  <2>2. UNCHANGED <<active, reserved, attempted, mayContinue, saved, posted, stop, recStarted,
                   stopTried, otherData, finalized, conn, recovered, stopLost,
                   allowForce, forced>>
    BY <1>16 DEF PreviousGameClear
  <2>3. QED
    BY <2>1, <2>2
<1>17. CASE Prepare
  <2>1. conn' \in BOOLEAN
    BY <1>17 DEF Prepare, CaptureConnection
  <2>2. recovered' \in BOOLEAN
    BY <1>17 DEF Prepare, CaptureConnection
  <2>3. UNCHANGED <<active, reserved, attempted, mayContinue, saved, posted, stop, recStarted,
                   stopTried, otherData, finalized, requireClear, stopLost,
                   allowForce, forced>>
    BY <1>17 DEF Prepare, CaptureConnection
  <2>4. QED
    BY <2>1, <2>2, <2>3
<1>18. CASE PrepareRaises
  BY <1>18 DEF PrepareRaises
<1>19. CASE SettleStopped
  BY <1>19 DEF SettleStopped
<1>20. CASE StartRecord
  BY <1>20 DEF StartRecord, NewRecording
<1>21. CASE AdoptRunning
  <2>1. recStarted' \in BOOLEAN
    BY <1>21 DEF AdoptRunning, RecordStatus, Reading, RecordingConfirmed
  <2>2. conn' \in BOOLEAN
    BY <1>21 DEF AdoptRunning, RecordStatus, Reading, RecordingConfirmed
  <2>3. recovered' \in BOOLEAN
    BY <1>21 DEF AdoptRunning, RecordStatus, Reading, RecordingConfirmed
  <2>4. UNCHANGED <<active, reserved, attempted, mayContinue, saved, posted, stop, stopTried,
                   otherData, finalized, requireClear, stopLost, allowForce, forced>>
    BY <1>21 DEF AdoptRunning, RecordStatus, Reading, RecordingConfirmed
  <2>5. QED
    BY <2>1, <2>2, <2>3, <2>4
<1>22. CASE PollActive
  <2>1. recStarted' \in BOOLEAN
    BY <1>22 DEF PollActive, RecordStatus, Reading, RecordingConfirmed
  <2>2. conn' \in BOOLEAN
    BY <1>22 DEF PollActive, RecordStatus, Reading, RecordingConfirmed
  <2>3. recovered' \in BOOLEAN
    BY <1>22 DEF PollActive, RecordStatus, Reading, RecordingConfirmed
  <2>4. UNCHANGED <<active, reserved, attempted, mayContinue, saved, posted, stop, stopTried,
                   otherData, finalized, requireClear, stopLost, allowForce, forced>>
    BY <1>22 DEF PollActive, RecordStatus, Reading, RecordingConfirmed
  <2>5. QED
    BY <2>1, <2>2, <2>3, <2>4
<1>23. CASE ActiveTimeout
  BY <1>23 DEF ActiveTimeout
<1>24. CASE RecoverStart
  <2>1. conn' \in BOOLEAN
    BY <1>24 DEF RecoverStart, CaptureConnection
  <2>2. recovered' \in BOOLEAN
    BY <1>24 DEF RecoverStart, CaptureConnection
  <2>3. UNCHANGED <<active, reserved, attempted, mayContinue, saved, posted, stop, recStarted,
                   stopTried, otherData, finalized, requireClear, stopLost,
                   allowForce, forced>>
    BY <1>24 DEF RecoverStart, CaptureConnection
  <2>4. QED
    BY <2>1, <2>2, <2>3
<1>25. CASE ResettleStopped
  BY <1>25 DEF ResettleStopped
<1>26. CASE ToggleRecord
  BY <1>26 DEF ToggleRecord, NewRecording, ToggleOutput
<1>27. CASE StartFails
  <2>1. conn' \in BOOLEAN
    BY <1>27 DEF StartFails, RecordStatus, Reading
  <2>2. recovered' \in BOOLEAN
    BY <1>27 DEF StartFails, RecordStatus, Reading
  <2>3. UNCHANGED <<active, reserved, attempted, mayContinue, saved, posted, stop, recStarted,
                   stopTried, otherData, finalized, requireClear, stopLost,
                   allowForce, forced>>
    BY <1>27 DEF StartFails, RecordStatus, Reading
  <2>4. QED
    BY <2>1, <2>2, <2>3
<1>28. CASE Synchronise
  <2>1. otherData' \in BOOLEAN
    BY <1>28 DEF Synchronise
  <2>2. UNCHANGED <<active, reserved, attempted, mayContinue, saved, posted, stop, recStarted,
                   stopTried, finalized, requireClear, conn, recovered, stopLost,
                   allowForce, forced>>
    BY <1>28 DEF Synchronise
  <2>3. QED
    BY <2>1, <2>2
<1>29. CASE MarkerRaises
  BY <1>29 DEF MarkerRaises
<1>30. CASE NotifyStarted
  <2>1. attempted' \in BOOLEAN
    BY <1>30 DEF NotifyStarted, Finalise
  <2>2. UNCHANGED <<active, reserved, mayContinue, saved, posted, stop, recStarted, stopTried,
                   otherData, finalized, requireClear, conn, recovered, stopLost,
                   allowForce, forced>>
    BY <1>30 DEF NotifyStarted, Finalise
  <2>3. QED
    BY <2>1, <2>2
<1>31. CASE ObserveGame
  <2>1. otherData' \in BOOLEAN
    BY <1>31 DEF ObserveGame, RecordStatus, Reading
  <2>2. conn' \in BOOLEAN
    BY <1>31 DEF ObserveGame, RecordStatus, Reading
  <2>3. recovered' \in BOOLEAN
    BY <1>31 DEF ObserveGame, RecordStatus, Reading
  <2>4. UNCHANGED <<active, reserved, attempted, mayContinue, saved, posted, stop, recStarted,
                   stopTried, finalized, requireClear, stopLost, allowForce, forced>>
    BY <1>31 DEF ObserveGame, RecordStatus, Reading
  <2>5. QED
    BY <2>1, <2>2, <2>3, <2>4
<1>32. CASE ResultAwaited
  BY <1>32 DEF ResultAwaited, Finalise
<1>33. CASE RecordingCancelled
  <2>1. attempted' \in BOOLEAN
    BY <1>33 DEF RecordingCancelled, Finalise, HasSessionData, CancelOutcome
  <2>2. active' \in BOOLEAN
    BY <1>33 DEF RecordingCancelled, Finalise, HasSessionData, CancelOutcome
  <2>3. UNCHANGED <<reserved, mayContinue, saved, posted, stop, recStarted, stopTried, otherData,
                   finalized, requireClear, conn, recovered, stopLost, allowForce,
                   forced>>
    BY <1>33 DEF RecordingCancelled, Finalise, HasSessionData, CancelOutcome
  <2>4. QED
    BY <2>1, <2>2, <2>3
<1>34. CASE RecordingRaises
  BY <1>34 DEF RecordingRaises
<1>35. CASE HandleFailure
  <2>1. mayContinue' \in BOOLEAN
    BY <1>35 DEF HandleFailure, Finalise, HasSessionData
  <2>2. attempted' \in BOOLEAN
    BY <1>35 DEF HandleFailure, Finalise, HasSessionData
  <2>3. saved' \in BOOLEAN
    BY <1>35 DEF HandleFailure, Finalise, HasSessionData
  <2>4. UNCHANGED <<active, reserved, posted, stop, recStarted, stopTried, otherData, finalized,
                   requireClear, conn, recovered, stopLost, allowForce, forced>>
    BY <1>35 DEF HandleFailure, Finalise, HasSessionData
  <2>5. QED
    BY <2>1, <2>2, <2>3, <2>4
<1>36. CASE StopSkipped
  BY <1>36 DEF StopSkipped, StopRefused, AfterStop
<1>37. CASE StopChecksStatus
  <2>1. recStarted' \in BOOLEAN
    BY <1>37 DEF StopChecksStatus, RecordStatus, Reading, StopRefused, AfterStop
  <2>2. conn' \in BOOLEAN
    BY <1>37 DEF StopChecksStatus, RecordStatus, Reading, StopRefused, AfterStop
  <2>3. recovered' \in BOOLEAN
    BY <1>37 DEF StopChecksStatus, RecordStatus, Reading, StopRefused, AfterStop
  <2>4. UNCHANGED <<active, reserved, attempted, mayContinue, saved, posted, stop, stopTried,
                   otherData, finalized, requireClear, stopLost, allowForce, forced>>
    BY <1>37 DEF StopChecksStatus, RecordStatus, Reading, StopRefused, AfterStop
  <2>5. QED
    BY <2>1, <2>2, <2>3, <2>4
<1>38. CASE StopRecord
  <2>1. stopTried' \in BOOLEAN
    BY <1>38 DEF StopRecord, AfterStop, DropRecoveryContext
  <2>2. conn' \in BOOLEAN
    BY <1>38 DEF StopRecord, AfterStop, DropRecoveryContext
  <2>3. recovered' \in BOOLEAN
    BY <1>38 DEF StopRecord, AfterStop, DropRecoveryContext
  <2>4. recStarted' \in BOOLEAN
    BY <1>38 DEF StopRecord, AfterStop, DropRecoveryContext
  <2>5. stopLost' \in BOOLEAN
    BY <1>38 DEF StopRecord, AfterStop, DropRecoveryContext
  <2>6. UNCHANGED <<active, reserved, attempted, mayContinue, saved, posted, stop, otherData,
                   finalized, requireClear, allowForce, forced>>
    BY <1>38 DEF StopRecord, AfterStop, DropRecoveryContext
  <2>7. QED
    BY <2>1, <2>2, <2>3, <2>4, <2>5, <2>6
<1>39. CASE SaveSession
  <2>1. finalized' \in BOOLEAN
    BY <1>39 DEF SaveSession, HasSessionData
  <2>2. saved' \in BOOLEAN
    BY <1>39 DEF SaveSession, HasSessionData
  <2>3. UNCHANGED <<active, reserved, attempted, mayContinue, posted, stop, recStarted,
                   stopTried, otherData, requireClear, conn, recovered, stopLost,
                   allowForce, forced>>
    BY <1>39 DEF SaveSession, HasSessionData
  <2>4. QED
    BY <2>1, <2>2, <2>3
<1>40. CASE CompletedVerdict
  <2>1. active' \in BOOLEAN
    BY <1>40 DEF CompletedVerdict, SessionComplete
  <2>2. UNCHANGED <<reserved, attempted, mayContinue, saved, posted, stop, recStarted, stopTried,
                   otherData, finalized, requireClear, conn, recovered, stopLost,
                   allowForce, forced>>
    BY <1>40 DEF CompletedVerdict, SessionComplete
  <2>3. QED
    BY <2>1, <2>2
<1>41. CASE FailedVerdict
  <2>1. active' \in BOOLEAN
    BY <1>41 DEF FailedVerdict, ContinueAfterFailure, AfterFailure
  <2>2. mayContinue' \in BOOLEAN
    BY <1>41 DEF FailedVerdict, ContinueAfterFailure, AfterFailure
  <2>3. requireClear' \in BOOLEAN
    BY <1>41 DEF FailedVerdict, ContinueAfterFailure, AfterFailure
  <2>4. UNCHANGED <<reserved, attempted, saved, posted, stop, recStarted, stopTried, otherData,
                   finalized, conn, recovered, stopLost, allowForce, forced>>
    BY <1>41 DEF FailedVerdict, ContinueAfterFailure, AfterFailure
  <2>5. QED
    BY <2>1, <2>2, <2>3, <2>4
<1>42. CASE AbortedVerdict
  <2>1. active' \in BOOLEAN
    BY <1>42 DEF AbortedVerdict, AbortClean
  <2>2. UNCHANGED <<reserved, attempted, mayContinue, saved, posted, stop, recStarted, stopTried,
                   otherData, finalized, requireClear, conn, recovered, stopLost,
                   allowForce, forced>>
    BY <1>42 DEF AbortedVerdict, AbortClean
  <2>3. QED
    BY <2>1, <2>2
<1>43. CASE NotifyCompleted
  <2>1. requireClear' \in BOOLEAN
    BY <1>43 DEF NotifyCompleted
  <2>2. UNCHANGED <<active, reserved, attempted, mayContinue, saved, posted, stop, recStarted,
                   stopTried, otherData, finalized, conn, recovered, stopLost,
                   allowForce, forced>>
    BY <1>43 DEF NotifyCompleted
  <2>3. QED
    BY <2>1, <2>2
<1>44. CASE FailedGameClear
  <2>1. requireClear' \in BOOLEAN
    BY <1>44 DEF FailedGameClear
  <2>2. UNCHANGED <<active, reserved, attempted, mayContinue, saved, posted, stop, recStarted,
                   stopTried, otherData, finalized, conn, recovered, stopLost,
                   allowForce, forced>>
    BY <1>44 DEF FailedGameClear
  <2>3. QED
    BY <2>1, <2>2
<1>45. CASE Shutdown
  <2>1. stop' \in BOOLEAN
    BY <1>45 DEF Shutdown, Finalise, HasSessionData
  <2>2. attempted' \in BOOLEAN
    BY <1>45 DEF Shutdown, Finalise, HasSessionData
  <2>3. UNCHANGED <<active, reserved, mayContinue, saved, posted, recStarted, stopTried,
                   otherData, finalized, requireClear, conn, recovered, stopLost,
                   allowForce, forced>>
    BY <1>45 DEF Shutdown, Finalise, HasSessionData
  <2>4. QED
    BY <2>1, <2>2, <2>3
<1>46. CASE CloseRuntime
  BY <1>46 DEF CloseRuntime
<1>47. CASE TerminateObs
  BY <1>47 DEF TerminateObs
<1>48. CASE Finished
  BY <1>48 DEF Finished
<1>49. CASE UNCHANGED vars
  BY <1>49
<1>50. QED
  BY <1>1, <1>2, <1>3, <1>4, <1>5, <1>6, <1>7, <1>8, <1>9, <1>10, <1>11, <1>12, <1>13, <1>14,
     <1>15, <1>16, <1>17, <1>18, <1>19, <1>20, <1>21, <1>22, <1>23, <1>24, <1>25, <1>26, <1>27,
     <1>28, <1>29, <1>30, <1>31, <1>32, <1>33, <1>34, <1>35, <1>36, <1>37, <1>38, <1>39, <1>40,
     <1>41, <1>42, <1>43, <1>44, <1>45, <1>46, <1>47, <1>48, <1>49
     DEF Next, Gui, Obs, Game, Program, Raise, Start, Finalisation

LEMMA NextDataType == TypeOK /\ [Next]_vars => DataType'
<1> SUFFICES ASSUME TypeOK, [Next]_vars PROVE DataType'
  OBVIOUS
<1> USE MaxGamesAssumption, FaultsAssumption
    DEF TypeOK, FlagType, DataType,
           PCs, Inside, Finalising, Reasons, Outcomes,
           supVars, recVars, cliVars, obsVars, obsvVars, vars, Goto
<1>1. CASE PostStop
  BY <1>1 DEF PostStop
<1>2. CASE DeliverStop
  BY <1>2 DEF DeliverStop
<1>3. CASE ReserveUpdateShutdown
  BY <1>3 DEF ReserveUpdateShutdown
<1>4. CASE OutputStarts
  BY <1>4 DEF OutputStarts
<1>5. CASE OutputFails
  BY <1>5 DEF OutputFails
<1>6. CASE ObsDies
  BY <1>6 DEF ObsDies
<1>7. CASE CaptureChampSelect
  BY <1>7 DEF CaptureChampSelect
<1>8. CASE GameStarts
  BY <1>8 DEF GameStarts, MayBegin
<1>9. CASE GameEnds
  BY <1>9 DEF GameEnds
<1>10. CASE SetupOk
  BY <1>10 DEF SetupOk
<1>11. CASE SetupFails
  BY <1>11 DEF SetupFails
<1>12. CASE AudioProfileFails
  BY <1>12 DEF AudioProfileFails
<1>13. CASE BeginSession
  BY <1>13 DEF BeginSession
<1>14. CASE LeaveLoop
  BY <1>14 DEF LeaveLoop, StopSeen
<1>15. CASE WaitRaises
  BY <1>15 DEF WaitRaises
<1>16. CASE PreviousGameClear
  BY <1>16 DEF PreviousGameClear
<1>17. CASE Prepare
  BY <1>17 DEF Prepare, CaptureConnection
<1>18. CASE PrepareRaises
  BY <1>18 DEF PrepareRaises
<1>19. CASE SettleStopped
  BY <1>19 DEF SettleStopped
<1>20. CASE StartRecord
  BY <1>20 DEF StartRecord, NewRecording
<1>21. CASE AdoptRunning
  BY <1>21 DEF AdoptRunning, RecordStatus, Reading, RecordingConfirmed
<1>22. CASE PollActive
  BY <1>22 DEF PollActive, RecordStatus, Reading, RecordingConfirmed
<1>23. CASE ActiveTimeout
  BY <1>23 DEF ActiveTimeout
<1>24. CASE RecoverStart
  <2>1. client' = client
    BY <1>24 DEF RecoverStart, CaptureConnection
  <2>2. pc' \in PCs
    BY <1>24 DEF RecoverStart
  <2>3. UNCHANGED <<fin, recPath, outcome, out, take, games, session, log, notes, stops>>
    BY <1>24 DEF RecoverStart
  <2>4. QED
    BY <2>1, <2>2, <2>3
<1>25. CASE ResettleStopped
  BY <1>25 DEF ResettleStopped
<1>26. CASE ToggleRecord
  BY <1>26 DEF ToggleRecord, NewRecording, ToggleOutput
<1>27. CASE StartFails
  BY <1>27 DEF StartFails, RecordStatus, Reading
<1>28. CASE Synchronise
  BY <1>28 DEF Synchronise
<1>29. CASE MarkerRaises
  BY <1>29 DEF MarkerRaises
<1>30. CASE NotifyStarted
  BY <1>30 DEF NotifyStarted, Finalise
<1>31. CASE ObserveGame
  BY <1>31 DEF ObserveGame, RecordStatus, Reading
<1>32. CASE ResultAwaited
  BY <1>32 DEF ResultAwaited, Finalise
<1>33. CASE RecordingCancelled
  BY <1>33 DEF RecordingCancelled, Finalise, HasSessionData, CancelOutcome
<1>34. CASE RecordingRaises
  BY <1>34 DEF RecordingRaises
<1>35. CASE HandleFailure
  BY <1>35 DEF HandleFailure, Finalise, HasSessionData
<1>36. CASE StopSkipped
  BY <1>36 DEF StopSkipped, StopRefused, AfterStop
<1>37. CASE StopChecksStatus
  BY <1>37 DEF StopChecksStatus, RecordStatus, Reading, StopRefused, AfterStop
<1>38. CASE StopRecord
  BY <1>38 DEF StopRecord, AfterStop, DropRecoveryContext
<1>39. CASE SaveSession
  BY <1>39 DEF SaveSession, HasSessionData
<1>40. CASE CompletedVerdict
  BY <1>40 DEF CompletedVerdict, SessionComplete
<1>41. CASE FailedVerdict
  BY <1>41 DEF FailedVerdict, ContinueAfterFailure, AfterFailure
<1>42. CASE AbortedVerdict
  BY <1>42 DEF AbortedVerdict, AbortClean
<1>43. CASE NotifyCompleted
  BY <1>43 DEF NotifyCompleted
<1>44. CASE FailedGameClear
  BY <1>44 DEF FailedGameClear
<1>45. CASE Shutdown
  BY <1>45 DEF Shutdown, Finalise, HasSessionData
<1>46. CASE CloseRuntime
  BY <1>46 DEF CloseRuntime
<1>47. CASE TerminateObs
  BY <1>47 DEF TerminateObs
<1>48. CASE Finished
  BY <1>48 DEF Finished
<1>49. CASE UNCHANGED vars
  BY <1>49
<1>50. QED
  BY <1>1, <1>2, <1>3, <1>4, <1>5, <1>6, <1>7, <1>8, <1>9, <1>10, <1>11, <1>12, <1>13, <1>14,
     <1>15, <1>16, <1>17, <1>18, <1>19, <1>20, <1>21, <1>22, <1>23, <1>24, <1>25, <1>26, <1>27,
     <1>28, <1>29, <1>30, <1>31, <1>32, <1>33, <1>34, <1>35, <1>36, <1>37, <1>38, <1>39, <1>40,
     <1>41, <1>42, <1>43, <1>44, <1>45, <1>46, <1>47, <1>48, <1>49
     DEF Next, Gui, Obs, Game, Program, Raise, Start, Finalisation

-----------------------------------------------------------------------------
(* The inductive invariant.                                                  *)
LEMMA InitIInv == Init => IInv
<1> SUFFICES ASSUME Init PROVE IInv
  OBVIOUS
<1> USE DEF Init, Inside, Finalising, Looping, LoopVerdicts, Ending, Whole, Recorded
<1>1. TypeOK
  BY InitTypeOK
<1>2. LockInv /\ StopInv /\ RunningInv /\ LostInv
  BY DEF LockInv, StopInv, RunningInv, LostInv
<1>3. LogInv /\ OutcomeInv /\ VerdictInv /\ SilentInv
  BY DEF LogInv, OutcomeInv, VerdictInv, SilentInv
<1>4. QED
  BY <1>1, <1>2, <1>3 DEF IInv, StateInv

LEMMA NextTypeOK == TypeOK /\ [Next]_vars => TypeOK'
  BY NextFlagType, NextDataType DEF TypeOK

(* One step per action; three of them need the step taken apart.             *)
LEMMA NextStateInv == IInv /\ [Next]_vars => StateInv'
<1> SUFFICES ASSUME IInv, [Next]_vars PROVE StateInv'
  OBVIOUS
<1> USE MaxGamesAssumption, FaultsAssumption
    DEF IInv, StateInv, TypeOK, FlagType, DataType, LockInv, StopInv, RunningInv, LostInv,
           LogInv, OutcomeInv, VerdictInv, SilentInv, PCs, Inside, Finalising, Reasons,
           Outcomes, LoopVerdicts, Looping, Ending, Whole, Recorded, supVars, recVars, cliVars,
           obsVars, obsvVars, vars, Goto
<1>1. CASE PostStop
  BY <1>1 DEF PostStop
<1>2. CASE DeliverStop
  BY <1>2 DEF DeliverStop
<1>3. CASE ReserveUpdateShutdown
  BY <1>3 DEF ReserveUpdateShutdown
<1>4. CASE OutputStarts
  BY <1>4 DEF OutputStarts
<1>5. CASE OutputFails
  BY <1>5 DEF OutputFails
<1>6. CASE ObsDies
  BY <1>6 DEF ObsDies
<1>7. CASE CaptureChampSelect
  BY <1>7 DEF CaptureChampSelect
<1>8. CASE GameStarts
  BY <1>8 DEF GameStarts, MayBegin
<1>9. CASE GameEnds
  BY <1>9 DEF GameEnds
<1>10. CASE SetupOk
  BY <1>10 DEF SetupOk
<1>11. CASE SetupFails
  BY <1>11 DEF SetupFails
<1>12. CASE AudioProfileFails
  BY <1>12 DEF AudioProfileFails
<1>13. CASE BeginSession
  BY <1>13 DEF BeginSession
<1>14. CASE LeaveLoop
  BY <1>14 DEF LeaveLoop, StopSeen
<1>15. CASE WaitRaises
  BY <1>15 DEF WaitRaises
<1>16. CASE PreviousGameClear
  BY <1>16 DEF PreviousGameClear
<1>17. CASE Prepare
  BY <1>17 DEF Prepare, CaptureConnection
<1>18. CASE PrepareRaises
  BY <1>18 DEF PrepareRaises
<1>19. CASE SettleStopped
  BY <1>19 DEF SettleStopped
<1>20. CASE StartRecord
  BY <1>20 DEF StartRecord, NewRecording
<1>21. CASE AdoptRunning
  BY <1>21 DEF AdoptRunning, RecordStatus, Reading, RecordingConfirmed
<1>22. CASE PollActive
  BY <1>22 DEF PollActive, RecordStatus, Reading, RecordingConfirmed
<1>23. CASE ActiveTimeout
  BY <1>23 DEF ActiveTimeout
<1>24. CASE RecoverStart
  BY <1>24 DEF RecoverStart, CaptureConnection
<1>25. CASE ResettleStopped
  BY <1>25 DEF ResettleStopped
<1>26. CASE ToggleRecord
  BY <1>26 DEF ToggleRecord, NewRecording, ToggleOutput
<1>27. CASE StartFails
  BY <1>27 DEF StartFails, RecordStatus, Reading
<1>28. CASE Synchronise
  BY <1>28 DEF Synchronise
<1>29. CASE MarkerRaises
  BY <1>29 DEF MarkerRaises
<1>30. CASE NotifyStarted
  <2>1. RunningInv'
    BY <1>30 DEF NotifyStarted, Finalise
  <2>2. LockInv' /\ StopInv' /\ LostInv'
    BY <1>30 DEF NotifyStarted, Finalise
  <2>3. LogInv' /\ OutcomeInv' /\ VerdictInv' /\ SilentInv'
    BY <1>30 DEF NotifyStarted, Finalise
  <2>4. QED
    BY <2>1, <2>2, <2>3
<1>31. CASE ObserveGame
  BY <1>31 DEF ObserveGame, RecordStatus, Reading
<1>32. CASE ResultAwaited
  BY <1>32 DEF ResultAwaited, Finalise
<1>33. CASE RecordingCancelled
  BY <1>33 DEF RecordingCancelled, Finalise, HasSessionData, CancelOutcome
<1>34. CASE RecordingRaises
  BY <1>34 DEF RecordingRaises
<1>35. CASE HandleFailure
  BY <1>35 DEF HandleFailure, Finalise, HasSessionData
<1>36. CASE StopSkipped
  BY <1>36 DEF StopSkipped, StopRefused, AfterStop
<1>37. CASE StopChecksStatus
  BY <1>37 DEF StopChecksStatus, RecordStatus, Reading, StopRefused, AfterStop
<1>38. CASE StopRecord
  <2>1. /\ pc = "finStop" /\ pc' = AfterStop /\ UNCHANGED <<fin, attempted>>
        /\ stopTried' /\ stops' = 1 /\ ~stopLost
    BY <1>38 DEF StopRecord
  <2>2. recPath' # 0 => ~recStarted'
    BY <1>38 DEF StopRecord
  <2>3. \/ outcome' = "failed"
        \/ outcome' = outcome /\ recPath' = take /\ ~recStarted' /\ ~stopLost'
           /\ take # 0
    BY <1>38 DEF StopRecord
  <2>4. LockInv' /\ RunningInv'
    BY <1>38, <2>1 DEF StopRecord, AfterStop
  <2>5. StopInv'
    BY <1>38, <2>1, <2>2 DEF AfterStop, StopRecord
  <2>6. LogInv' /\ VerdictInv'
    BY <1>38 DEF StopRecord, AfterStop
  <2>7. OutcomeInv'
    BY <2>1, <2>3 DEF AfterStop
  <2>8. LostInv'
    BY <1>38 DEF StopRecord, AfterStop, DropRecoveryContext
  <2>9. SilentInv'
    BY <1>38 DEF StopRecord, AfterStop, DropRecoveryContext
  <2>10. QED
    BY <2>4, <2>5, <2>6, <2>7, <2>8, <2>9
<1>39. CASE SaveSession
  BY <1>39 DEF SaveSession, HasSessionData
<1>40. CASE CompletedVerdict
  BY <1>40 DEF CompletedVerdict, SessionComplete
<1>41. CASE FailedVerdict
  BY <1>41 DEF FailedVerdict, ContinueAfterFailure, AfterFailure
<1>42. CASE AbortedVerdict
  BY <1>42 DEF AbortedVerdict, AbortClean
<1>43. CASE NotifyCompleted
  BY <1>43 DEF NotifyCompleted
<1>44. CASE FailedGameClear
  BY <1>44 DEF FailedGameClear
<1>45. CASE Shutdown
  <2>1. \/ pc' = "terminate"
        \/ pc' = "finStatus" /\ fin' = "stopOnly"
        \/ pc' = "finStatus" /\ ~attempted /\ attempted'
    BY <1>45 DEF Shutdown, Finalise
  <2>2. StopInv' /\ LostInv'
    BY <1>45, <2>1 DEF Shutdown, Finalise, HasSessionData
  <2>3. LockInv' /\ RunningInv'
    BY <1>45 DEF Shutdown, Finalise, HasSessionData
  <2>4. LogInv' /\ OutcomeInv' /\ VerdictInv' /\ SilentInv'
    BY <1>45 DEF Shutdown, Finalise, HasSessionData
  <2>5. QED
    BY <2>2, <2>3, <2>4
<1>46. CASE CloseRuntime
  BY <1>46 DEF CloseRuntime
<1>47. CASE TerminateObs
  BY <1>47 DEF TerminateObs
<1>48. CASE Finished
  BY <1>48 DEF Finished
<1>49. CASE UNCHANGED vars
  BY <1>49
<1>50. QED
  BY <1>1, <1>2, <1>3, <1>4, <1>5, <1>6, <1>7, <1>8, <1>9, <1>10, <1>11, <1>12, <1>13, <1>14,
     <1>15, <1>16, <1>17, <1>18, <1>19, <1>20, <1>21, <1>22, <1>23, <1>24, <1>25, <1>26, <1>27,
     <1>28, <1>29, <1>30, <1>31, <1>32, <1>33, <1>34, <1>35, <1>36, <1>37, <1>38, <1>39, <1>40,
     <1>41, <1>42, <1>43, <1>44, <1>45, <1>46, <1>47, <1>48, <1>49
     DEF Next, Gui, Obs, Game, Program, Raise, Start, Finalisation

LEMMA NextIInv == IInv /\ [Next]_vars => IInv'
<1> SUFFICES ASSUME IInv, [Next]_vars PROVE IInv'
  OBVIOUS
<1>1. TypeOK'
  BY NextTypeOK DEF IInv
<1>2. QED
  BY <1>1, NextStateInv DEF IInv

(* The invariant holds in every reachable state of run().                    *)
THEOREM Invariance == Spec => []IInv
<1>1. Init => IInv
  BY InitIInv
<1>2. IInv /\ [Next]_vars => IInv'
  BY NextIInv
<1>3. QED
  BY <1>1, <1>2, PTL DEF Spec

-----------------------------------------------------------------------------
(* What follows from it.                                                     *)

(* Every variable of the supervisor, recorder, client and OBS keeps its type *)
(* whatever fails and however many games are played.                         *)
THEOREM TypeCorrect == Spec => []TypeOK
<1>1. IInv => TypeOK
  BY DEF IInv
<1>2. QED
  BY <1>1, Invariance, PTL

(* The update reservation and a recording exclude each other from            *)
(* _begin_recording to _finish_recording.                                    *)
THEOREM ReservationExcluded == Spec => []ReservationExcludesRecording
<1>1. IInv => ReservationExcludesRecording
  <2> SUFFICES ASSUME IInv, reserved
               PROVE  pc \notin Inside /\ (pc \in Finalising => fin \in {"shutdown", "stopOnly"})
    BY DEF ReservationExcludesRecording
  <2>1. fin \in Reasons
    BY DEF IInv, TypeOK, DataType
  <2>2. QED
    BY <2>1 DEF IInv, StateInv, LockInv, Reasons, LoopVerdicts
<1>2. QED
  BY <1>1, Invariance, PTL

(* No session sends StopRecord twice.                                        *)
THEOREM StopOnce == Spec => []StopSentOnce
<1>1. IInv => StopSentOnce
  BY DEF IInv, StateInv, StopInv, StopSentOnce
<1>2. QED
  BY <1>1, Invariance, PTL

(* A session reported complete has its log, its video and nothing left over. *)
THEOREM CompletedWhole == Spec => []CompletedIsWhole
<1>1. IInv => CompletedIsWhole
  BY DEF IInv, StateInv, LogInv, Whole, CompletedIsWhole
<1>2. QED
  BY <1>1, Invariance, PTL

(* Never both a completed and a failed notification for one session.         *)
THEOREM VerdictUnique == Spec => []OneVerdict
<1>1. IInv => OneVerdict
  BY DEF IInv, StateInv, VerdictInv, OneVerdict
<1>2. QED
  BY <1>1, Invariance, PTL

(* No recording ends without a saved log or a failure notification.          *)
THEOREM NothingLostSilently == Spec => []NoSilentLoss
<1>1. IInv => NoSilentLoss
  BY DEF IInv, StateInv, SilentInv, Recorded, Ending, NoSilentLoss
<1>2. QED
  BY <1>1, Invariance, PTL

-----------------------------------------------------------------------------
(* Only the head of the loop begins a session, and no recording is believed  *)
(* to run there.                                                             *)
LEMMA NextSessionInv == IInv /\ [Next]_vars => (session' # session => ~stopLost /\ ~recStarted)
<1> SUFFICES ASSUME IInv, [Next]_vars PROVE (session' # session => ~stopLost /\ ~recStarted)
  OBVIOUS
<1> USE DEF IInv, StateInv, RunningInv, LostInv, Looping,
           supVars, recVars, cliVars, obsVars, obsvVars, vars, Goto
<1>1. CASE PostStop
  BY <1>1 DEF PostStop
<1>2. CASE DeliverStop
  BY <1>2 DEF DeliverStop
<1>3. CASE ReserveUpdateShutdown
  BY <1>3 DEF ReserveUpdateShutdown
<1>4. CASE OutputStarts
  BY <1>4 DEF OutputStarts
<1>5. CASE OutputFails
  BY <1>5 DEF OutputFails
<1>6. CASE ObsDies
  BY <1>6 DEF ObsDies
<1>7. CASE CaptureChampSelect
  BY <1>7 DEF CaptureChampSelect
<1>8. CASE GameStarts
  BY <1>8 DEF GameStarts, MayBegin
<1>9. CASE GameEnds
  BY <1>9 DEF GameEnds
<1>10. CASE SetupOk
  BY <1>10 DEF SetupOk
<1>11. CASE SetupFails
  BY <1>11 DEF SetupFails
<1>12. CASE AudioProfileFails
  BY <1>12 DEF AudioProfileFails
<1>13. CASE BeginSession
  BY <1>13 DEF BeginSession
<1>14. CASE LeaveLoop
  BY <1>14 DEF LeaveLoop, StopSeen
<1>15. CASE WaitRaises
  BY <1>15 DEF WaitRaises
<1>16. CASE PreviousGameClear
  BY <1>16 DEF PreviousGameClear
<1>17. CASE Prepare
  BY <1>17 DEF Prepare, CaptureConnection
<1>18. CASE PrepareRaises
  BY <1>18 DEF PrepareRaises
<1>19. CASE SettleStopped
  BY <1>19 DEF SettleStopped
<1>20. CASE StartRecord
  BY <1>20 DEF StartRecord, NewRecording
<1>21. CASE AdoptRunning
  BY <1>21 DEF AdoptRunning, RecordStatus, Reading, RecordingConfirmed
<1>22. CASE PollActive
  BY <1>22 DEF PollActive, RecordStatus, Reading, RecordingConfirmed
<1>23. CASE ActiveTimeout
  BY <1>23 DEF ActiveTimeout
<1>24. CASE RecoverStart
  BY <1>24 DEF RecoverStart, CaptureConnection
<1>25. CASE ResettleStopped
  BY <1>25 DEF ResettleStopped
<1>26. CASE ToggleRecord
  BY <1>26 DEF ToggleRecord, NewRecording, ToggleOutput
<1>27. CASE StartFails
  BY <1>27 DEF StartFails, RecordStatus, Reading
<1>28. CASE Synchronise
  BY <1>28 DEF Synchronise
<1>29. CASE MarkerRaises
  BY <1>29 DEF MarkerRaises
<1>30. CASE NotifyStarted
  BY <1>30 DEF NotifyStarted, Finalise
<1>31. CASE ObserveGame
  BY <1>31 DEF ObserveGame, RecordStatus, Reading
<1>32. CASE ResultAwaited
  BY <1>32 DEF ResultAwaited, Finalise
<1>33. CASE RecordingCancelled
  BY <1>33 DEF RecordingCancelled, Finalise, HasSessionData, CancelOutcome
<1>34. CASE RecordingRaises
  BY <1>34 DEF RecordingRaises
<1>35. CASE HandleFailure
  BY <1>35 DEF HandleFailure, Finalise, HasSessionData
<1>36. CASE StopSkipped
  BY <1>36 DEF StopSkipped, StopRefused, AfterStop
<1>37. CASE StopChecksStatus
  BY <1>37 DEF StopChecksStatus, RecordStatus, Reading, StopRefused, AfterStop
<1>38. CASE StopRecord
  BY <1>38 DEF StopRecord, AfterStop, DropRecoveryContext
<1>39. CASE SaveSession
  BY <1>39 DEF SaveSession, HasSessionData
<1>40. CASE CompletedVerdict
  BY <1>40 DEF CompletedVerdict, SessionComplete
<1>41. CASE FailedVerdict
  BY <1>41 DEF FailedVerdict, ContinueAfterFailure, AfterFailure
<1>42. CASE AbortedVerdict
  BY <1>42 DEF AbortedVerdict, AbortClean
<1>43. CASE NotifyCompleted
  BY <1>43 DEF NotifyCompleted
<1>44. CASE FailedGameClear
  BY <1>44 DEF FailedGameClear
<1>45. CASE Shutdown
  BY <1>45 DEF Shutdown, Finalise, HasSessionData
<1>46. CASE CloseRuntime
  BY <1>46 DEF CloseRuntime
<1>47. CASE TerminateObs
  BY <1>47 DEF TerminateObs
<1>48. CASE Finished
  BY <1>48 DEF Finished
<1>49. CASE UNCHANGED vars
  BY <1>49
<1>50. QED
  BY <1>1, <1>2, <1>3, <1>4, <1>5, <1>6, <1>7, <1>8, <1>9, <1>10, <1>11, <1>12, <1>13, <1>14,
     <1>15, <1>16, <1>17, <1>18, <1>19, <1>20, <1>21, <1>22, <1>23, <1>24, <1>25, <1>26, <1>27,
     <1>28, <1>29, <1>30, <1>31, <1>32, <1>33, <1>34, <1>35, <1>36, <1>37, <1>38, <1>39, <1>40,
     <1>41, <1>42, <1>43, <1>44, <1>45, <1>46, <1>47, <1>48, <1>49
     DEF Next, Gui, Obs, Game, Program, Raise, Start, Finalisation

(* After a StopRecord of unknown effect no other session begins.             *)
THEOREM UnknownStopIsFinal == Spec => UnknownStopEndsMonitoring
<1>1. IInv /\ [Next]_vars => [session' # session => ~stopLost /\ ~recStarted]_vars
  BY NextSessionInv
<1>2. QED
  BY <1>1, Invariance, PTL DEF Spec, UnknownStopEndsMonitoring

(* What a step after the stop does.                                          *)
CountsDown ==
  stop => /\ stop'
          /\ \/ StepsLeft' < StepsLeft
             \/ UNCHANGED <<pc, stop, supVars, recVars, cliVars, obsvVars>>

(* Every step after the stop leaves fewer steps of the program.              *)
LEMMA NextStopInv == IInv /\ [Next]_vars => CountsDown
<1> SUFFICES ASSUME IInv, [Next]_vars PROVE CountsDown
  OBVIOUS
<1> USE DEF IInv, TypeOK, FlagType, DataType, PCs, Inside, Finalising, Reasons, CountsDown,
           StepsLeft, supVars, recVars, cliVars, obsVars, obsvVars, vars, Goto
<1>1. CASE PostStop
  BY <1>1 DEF PostStop
<1>2. CASE DeliverStop
  BY <1>2 DEF DeliverStop
<1>3. CASE ReserveUpdateShutdown
  BY <1>3 DEF ReserveUpdateShutdown
<1>4. CASE OutputStarts
  BY <1>4 DEF OutputStarts
<1>5. CASE OutputFails
  BY <1>5 DEF OutputFails
<1>6. CASE ObsDies
  BY <1>6 DEF ObsDies
<1>7. CASE CaptureChampSelect
  BY <1>7 DEF CaptureChampSelect
<1>8. CASE GameStarts
  BY <1>8 DEF GameStarts, MayBegin
<1>9. CASE GameEnds
  BY <1>9 DEF GameEnds
<1>10. CASE SetupOk
  BY <1>10 DEF SetupOk
<1>11. CASE SetupFails
  BY <1>11 DEF SetupFails
<1>12. CASE AudioProfileFails
  BY <1>12 DEF AudioProfileFails
<1>13. CASE BeginSession
  BY <1>13 DEF BeginSession
<1>14. CASE LeaveLoop
  BY <1>14 DEF LeaveLoop, StopSeen
<1>15. CASE WaitRaises
  BY <1>15 DEF WaitRaises
<1>16. CASE PreviousGameClear
  BY <1>16 DEF PreviousGameClear
<1>17. CASE Prepare
  BY <1>17 DEF Prepare, CaptureConnection
<1>18. CASE PrepareRaises
  BY <1>18 DEF PrepareRaises
<1>19. CASE SettleStopped
  BY <1>19 DEF SettleStopped
<1>20. CASE StartRecord
  BY <1>20 DEF StartRecord, NewRecording
<1>21. CASE AdoptRunning
  BY <1>21 DEF AdoptRunning, RecordStatus, Reading, RecordingConfirmed
<1>22. CASE PollActive
  BY <1>22 DEF PollActive, RecordStatus, Reading, RecordingConfirmed
<1>23. CASE ActiveTimeout
  BY <1>23 DEF ActiveTimeout
<1>24. CASE RecoverStart
  BY <1>24 DEF RecoverStart, CaptureConnection
<1>25. CASE ResettleStopped
  BY <1>25 DEF ResettleStopped
<1>26. CASE ToggleRecord
  BY <1>26 DEF ToggleRecord, NewRecording, ToggleOutput
<1>27. CASE StartFails
  BY <1>27 DEF StartFails, RecordStatus, Reading
<1>28. CASE Synchronise
  BY <1>28 DEF Synchronise
<1>29. CASE MarkerRaises
  BY <1>29 DEF MarkerRaises
<1>30. CASE NotifyStarted
  BY <1>30 DEF NotifyStarted, Finalise
<1>31. CASE ObserveGame
  BY <1>31 DEF ObserveGame, RecordStatus, Reading
<1>32. CASE ResultAwaited
  BY <1>32 DEF ResultAwaited, Finalise
<1>33. CASE RecordingCancelled
  BY <1>33 DEF RecordingCancelled, Finalise, HasSessionData, CancelOutcome
<1>34. CASE RecordingRaises
  BY <1>34 DEF RecordingRaises
<1>35. CASE HandleFailure
  BY <1>35 DEF HandleFailure, Finalise, HasSessionData
<1>36. CASE StopSkipped
  BY <1>36 DEF StopSkipped, StopRefused, AfterStop
<1>37. CASE StopChecksStatus
  BY <1>37 DEF StopChecksStatus, RecordStatus, Reading, StopRefused, AfterStop
<1>38. CASE StopRecord
  BY <1>38 DEF StopRecord, AfterStop, DropRecoveryContext
<1>39. CASE SaveSession
  BY <1>39 DEF SaveSession, HasSessionData
<1>40. CASE CompletedVerdict
  BY <1>40 DEF CompletedVerdict, SessionComplete
<1>41. CASE FailedVerdict
  BY <1>41 DEF FailedVerdict, ContinueAfterFailure, AfterFailure
<1>42. CASE AbortedVerdict
  BY <1>42 DEF AbortedVerdict, AbortClean
<1>43. CASE NotifyCompleted
  BY <1>43 DEF NotifyCompleted
<1>44. CASE FailedGameClear
  BY <1>44 DEF FailedGameClear
<1>45. CASE Shutdown
  BY <1>45 DEF Shutdown, Finalise, HasSessionData
<1>46. CASE CloseRuntime
  BY <1>46 DEF CloseRuntime
<1>47. CASE TerminateObs
  BY <1>47 DEF TerminateObs
<1>48. CASE Finished
  BY <1>48 DEF Finished
<1>49. CASE UNCHANGED vars
  BY <1>49
<1>50. QED
  BY <1>1, <1>2, <1>3, <1>4, <1>5, <1>6, <1>7, <1>8, <1>9, <1>10, <1>11, <1>12, <1>13, <1>14,
     <1>15, <1>16, <1>17, <1>18, <1>19, <1>20, <1>21, <1>22, <1>23, <1>24, <1>25, <1>26, <1>27,
     <1>28, <1>29, <1>30, <1>31, <1>32, <1>33, <1>34, <1>35, <1>36, <1>37, <1>38, <1>39, <1>40,
     <1>41, <1>42, <1>43, <1>44, <1>45, <1>46, <1>47, <1>48, <1>49
     DEF Next, Gui, Obs, Game, Program, Raise, Start, Finalisation

(* Once the stop is set at most seventeen steps of the program are left, for *)
(* any number of games and whatever OBS, the game, the GUI and failures do.  *)
THEOREM StopIsCounted == Spec => StopCountsDown
<1>1. IInv /\ [Next]_vars => [CountsDown]_vars
  BY NextStopInv
<1>2. QED
  BY <1>1, Invariance, PTL DEF Spec, StopCountsDown, CountsDown

-----------------------------------------------------------------------------
(* The refinement: every step of the supervisor is a step of its contract or *)
(* leaves phase, reservation, loss and verdict alone.                        *)
LEMMA InitRefines == Init => Contract!Init
  BY DEF Init, Contract!Init, PhaseOf, VerdictOf, Ending, Finalising

LEMMA NextRefines == IInv /\ IInv' /\ [Next]_vars => [Contract!Next]_Contract!contractVars
<1> SUFFICES ASSUME IInv, IInv', [Next]_vars PROVE [Contract!Next]_Contract!contractVars
  OBVIOUS
<1> USE DEF Contract!contractVars, Contract!Next, PhaseOf, VerdictOf,
           IInv, StateInv, TypeOK, FlagType, DataType, LockInv, StopInv, RunningInv, LostInv,
           LogInv, OutcomeInv, VerdictInv, SilentInv, PCs, Inside, Finalising, Reasons,
           Outcomes, LoopVerdicts, Looping, Ending, Whole, Recorded, supVars, recVars, cliVars,
           obsVars, obsvVars, vars, Goto
<1>1. CASE PostStop
  BY <1>1 DEF PostStop
<1>2. CASE DeliverStop
  BY <1>2 DEF DeliverStop
<1>3. CASE ReserveUpdateShutdown
  BY <1>3 DEF ReserveUpdateShutdown, Contract!Reserve
<1>4. CASE OutputStarts
  BY <1>4 DEF OutputStarts
<1>5. CASE OutputFails
  BY <1>5 DEF OutputFails
<1>6. CASE ObsDies
  BY <1>6 DEF ObsDies
<1>7. CASE CaptureChampSelect
  BY <1>7 DEF CaptureChampSelect
<1>8. CASE GameStarts
  BY <1>8 DEF GameStarts, MayBegin, Contract!Begin, Contract!End
<1>9. CASE GameEnds
  BY <1>9 DEF GameEnds
<1>10. CASE SetupOk
  BY <1>10 DEF SetupOk
<1>11. CASE SetupFails
  BY <1>11 DEF SetupFails, Contract!End
<1>12. CASE AudioProfileFails
  BY <1>12 DEF AudioProfileFails, Contract!End
<1>13. CASE BeginSession
  BY <1>13 DEF BeginSession, Contract!NextGame
<1>14. CASE LeaveLoop
  BY <1>14 DEF LeaveLoop, StopSeen, Contract!End
<1>15. CASE WaitRaises
  BY <1>15 DEF WaitRaises, Contract!End
<1>16. CASE PreviousGameClear
  BY <1>16 DEF PreviousGameClear
<1>17. CASE Prepare
  BY <1>17 DEF Prepare, CaptureConnection
<1>18. CASE PrepareRaises
  BY <1>18 DEF PrepareRaises
<1>19. CASE SettleStopped
  BY <1>19 DEF SettleStopped
<1>20. CASE StartRecord
  BY <1>20 DEF StartRecord, NewRecording
<1>21. CASE AdoptRunning
  BY <1>21 DEF AdoptRunning, RecordStatus, Reading, RecordingConfirmed
<1>22. CASE PollActive
  BY <1>22 DEF PollActive, RecordStatus, Reading, RecordingConfirmed
<1>23. CASE ActiveTimeout
  BY <1>23 DEF ActiveTimeout
<1>24. CASE RecoverStart
  BY <1>24 DEF RecoverStart, CaptureConnection
<1>25. CASE ResettleStopped
  BY <1>25 DEF ResettleStopped
<1>26. CASE ToggleRecord
  BY <1>26 DEF ToggleRecord, NewRecording, ToggleOutput
<1>27. CASE StartFails
  BY <1>27 DEF StartFails, RecordStatus, Reading
<1>28. CASE Synchronise
  BY <1>28 DEF Synchronise
<1>29. CASE MarkerRaises
  BY <1>29 DEF MarkerRaises
<1>30. CASE NotifyStarted
  BY <1>30 DEF NotifyStarted, Finalise
<1>31. CASE ObserveGame
  BY <1>31 DEF ObserveGame, RecordStatus, Reading
<1>32. CASE ResultAwaited
  BY <1>32 DEF ResultAwaited, Finalise
<1>33. CASE RecordingCancelled
  BY <1>33 DEF RecordingCancelled, Finalise, HasSessionData, CancelOutcome, Contract!Over
<1>34. CASE RecordingRaises
  BY <1>34 DEF RecordingRaises
<1>35. CASE HandleFailure
  BY <1>35 DEF HandleFailure, Finalise, HasSessionData
<1>36. CASE StopSkipped
  BY <1>36 DEF StopSkipped, StopRefused, AfterStop
<1>37. CASE StopChecksStatus
  BY <1>37 DEF StopChecksStatus, RecordStatus, Reading, StopRefused, AfterStop
<1>38. CASE StopRecord
  BY <1>38 DEF StopRecord, AfterStop, DropRecoveryContext, Contract!LoseTrack
<1>39. CASE SaveSession
  BY <1>39 DEF SaveSession, HasSessionData
<1>40. CASE CompletedVerdict
  BY <1>40 DEF CompletedVerdict, SessionComplete, Contract!Over
<1>41. CASE FailedVerdict
  BY <1>41 DEF FailedVerdict, ContinueAfterFailure, AfterFailure, Contract!Over
<1>42. CASE AbortedVerdict
  BY <1>42 DEF AbortedVerdict, AbortClean, Contract!Over, Contract!Announce
<1>43. CASE NotifyCompleted
  BY <1>43 DEF NotifyCompleted, Contract!Announce
<1>44. CASE FailedGameClear
  BY <1>44 DEF FailedGameClear, Contract!End
<1>45. CASE Shutdown
  BY <1>45 DEF Shutdown, Finalise, HasSessionData
<1>46. CASE CloseRuntime
  BY <1>46 DEF CloseRuntime
<1>47. CASE TerminateObs
  BY <1>47 DEF TerminateObs
<1>48. CASE Finished
  BY <1>48 DEF Finished
<1>49. CASE UNCHANGED vars
  BY <1>49
<1>50. QED
  BY <1>1, <1>2, <1>3, <1>4, <1>5, <1>6, <1>7, <1>8, <1>9, <1>10, <1>11, <1>12, <1>13, <1>14,
     <1>15, <1>16, <1>17, <1>18, <1>19, <1>20, <1>21, <1>22, <1>23, <1>24, <1>25, <1>26, <1>27,
     <1>28, <1>29, <1>30, <1>31, <1>32, <1>33, <1>34, <1>35, <1>36, <1>37, <1>38, <1>39, <1>40,
     <1>41, <1>42, <1>43, <1>44, <1>45, <1>46, <1>47, <1>48, <1>49
     DEF Next, Gui, Obs, Game, Program, Raise, Start, Finalisation

(* The supervisor keeps its contract.                                        *)
THEOREM SupervisorImplementsContract == Spec => ImplementsContract
<1>1. Init => Contract!Init
  BY InitRefines
<1>2. IInv /\ IInv' /\ [Next]_vars => [Contract!Next]_Contract!contractVars
  BY NextRefines
<1>3. QED
  BY <1>1, <1>2, Invariance, PTL DEF Spec, ImplementsContract, Contract!Spec

-----------------------------------------------------------------------------
(* GameDetection.                                                            *)

Silent == stage \in {"closed", "lobby"}

(* While the program of a match runs, or none has yet been closed, a loop    *)
(* counts no polls since the game closed.                                    *)
CountInv ==
  /\ got => at = "flow" /\ since = 0
  /\ at \in {"events", "grace", "recheck", "recheckSession", "starting"} => since = 0
  /\ at = "grace" => left > 0 /\ ~IsTft(meta)

(* What is recorded is the match that runs, until the next one loads.        *)
MatchInv ==
  /\ rec \in 0 .. match
  /\ at \in Recording \cup {"starting"} /\ stage # "lobby" => rec = match

(* The polls of the processes that have told of the closed game.             *)
Observed == IF at \in {"flow", "process"} /\ since > 0 THEN since - 1 ELSE since

SeenGap == Most(Limit, ContextGrace + 1)

(* With the process list: every turn since the game closed was counted.      *)
ProcessInv ==
  sight /\ Silent /\ at \in Recording =>
    /\ det.proc.n >= Least(Observed, Limit)
    /\ Observed > 0 => det.proc.n > 0 /\ det.proc.age >= Least(since - 1, ContextGrace)
    /\ since <= SeenGap
    /\ at = "record" => since < SeenGap

(* The longest time in which not-in-game answers alone end no recording.     *)
Bound == Most((Limit - 1) * FailEnd, MissingGrace + FailEnd - 1)

(* Without it: q is when the Live Client last said that no game runs; the    *)
(* failures since then are fewer than end a recording, and every FailEnd     *)
(* polls hold one such answer.                                               *)
Gap(q) ==
  /\ since - q < FailEnd /\ q <= Bound
  /\ det.temp.n >= Least(since - q, Limit)
  /\ since > q => det.temp.n > 0 /\ det.temp.age >= Least(since - q - 1, TempGrace)
  /\ q > 0 => det.missing.n > 0 /\ det.missing.age >= Least(since - FailEnd, MissingGrace)
  /\ q <= det.missing.n * FailEnd \/ det.missing.n = Limit

PollInv == ~sight /\ Silent /\ at \in Recording => \E q \in 0 .. since : Gap(q)

(* Metadata that say TFT on the word of a source which the Live Client does  *)
(* not contradict.                                                           *)
TftMeta(m) == IsTft(m) /\ (m.tsrc = "lcu" \/ (m.tsrc = "live" /\ class.live = "tft"))

(* A match known to be TFT is watched, and its metadata say TFT on the word  *)
(* of a source that nothing can contradict before the next match.            *)
KnownInv ==
  known =>
    /\ at \in Watching /\ stage # "lobby" /\ TftMeta(meta)
    /\ at \in {"recheck", "recheckSession"} => ~held

IdInv == at \in {"starting"} \cup Recording /\ ~blind /\ rec = match => meta.id \in {0, match}

(* What keeps a match whose end was recorded from being recorded again:      *)
(* first the game must be clear, then the LCU forgets it within the grace.   *)
DoneInv ==
  done /\ ~blind =>
    /\ at \in {"post", "clear"} \cup Watching
    /\ stage \in {"over", "closed"}
    /\ stage = "over" => at \in {"post", "clear"} /\ clearFirst /\ (lastId = match \/ ~liveIds)
    /\ stage = "over" /\ at = "clear" => left <= quiet
    /\ at = "grace" => lag <= left /\ ~held
    /\ at \in {"recheck", "recheckSession"} => lag = 0 /\ ~held
    /\ at = "recheckSession" => meta.phase = "ended"

WatchInv ==
  /\ WatchTypeOK /\ CountInv /\ MatchInv /\ ProcessInv /\ PollInv
  /\ KnownInv /\ IdInv

---------------------------------------------------------------------------
(* A product with FailEnd grows with its other factor.                       *)
LEMMA ProductGrows ==
  ASSUME NEW a \in Nat, NEW b \in Nat, NEW f \in Nat, a <= b
  PROVE  a * f \in Nat /\ a * f <= b * f /\ (a + 1) * f = a * f + f
<1>1. a * f \in Nat /\ (a + 1) * f = a * f + f
    OBVIOUS
<1>2. PICK c \in Nat : b = a + c
  <2> b - a \in Nat /\ b = a + (b - a)
      OBVIOUS
  <2> QED
      OBVIOUS
<1>3. c * f \in Nat /\ (a + c) * f = a * f + c * f
    OBVIOUS
<1> QED
    BY <1>1, <1>2, <1>3

LEMMA TurnsAdd ==
  ASSUME NEW n \in Nat, NEW f \in Nat, NEW q \in Nat, NEW s \in Nat,
         q <= n * f, s <= q + f
  PROVE  s <= (n + 1) * f
<1>1. n * f \in Nat /\ (n + 1) * f = n * f + f
    OBVIOUS
<1> QED
    BY <1>1

LEMMA NoGap ==
  ASSUME NEW p \in Nat
  PROVE  p - p = 0 /\ ~(p > p)
    OBVIOUS

(* The grace of failures is at least one poll, and no bound is negative.     *)
LEMMA BoundsAre ==
  /\ FailEnd \in Nat \ {0} /\ Bound \in Nat
  /\ MinGap \in Nat \ {0}
  /\ SeenGap \in Nat /\ SeenGap > 0 /\ SeenGap >= Limit /\ SeenGap >= ContextGrace + 1
  /\ SeenGap \in {Limit, ContextGrace + 1}
  /\ FailEnd >= Limit /\ FailEnd >= TempGrace + 1 /\ FailEnd \in {Limit, TempGrace + 1}
  /\ Bound >= (Limit - 1) * FailEnd /\ Bound >= MissingGrace + FailEnd - 1
  /\ sight => MinGap = SeenGap
  /\ ~sight => MinGap = FailEnd + Bound
<1>1. FailEnd \in Nat \ {0}
    BY LimitsAssumption DEF FailEnd, Most
<1>. /\ FailEnd >= Limit /\ FailEnd >= TempGrace + 1 /\ FailEnd \in {Limit, TempGrace + 1}
    BY LimitsAssumption DEF FailEnd, Most
<1>2. (Limit - 1) * FailEnd \in Nat
  <2> Limit - 1 \in Nat
      BY LimitsAssumption
  <2> QED
      BY <1>1, ProductGrows
<1>3. Bound \in Nat
    BY <1>1, <1>2, LimitsAssumption DEF Bound, Most
<1>4. Bound >= (Limit - 1) * FailEnd /\ Bound >= MissingGrace + FailEnd - 1
    BY <1>1, <1>2, LimitsAssumption DEF Bound, Most
<1>5. /\ SeenGap \in Nat /\ SeenGap > 0 /\ SeenGap >= Limit /\ SeenGap >= ContextGrace + 1
      /\ SeenGap \in {Limit, ContextGrace + 1}
    BY LimitsAssumption DEF SeenGap, Most
<1>6. (sight => MinGap = SeenGap) /\ (~sight => MinGap = FailEnd + Bound)
    BY DEF MinGap, Bound, SeenGap
<1> QED
    BY <1>1, <1>3, <1>4, <1>5, <1>6

(* Only a running game answers; the closed one is missing, if it answers.    *)
LEMMA LiveAnswersAre ==
  ASSUME NEW r \in LiveAnswers
  PROVE  /\ r \in {"game", "missing", "fail"}
         /\ r = "game" => stage \notin {"lobby", "loading", "closed"}
         /\ r = "missing" => stage \in {"loading", "closed"}
         /\ r = "fail" => stage \in {"lobby", "loading", "closed"} \/ quiet < MaxGlitch
    BY DEF LiveAnswers

LEMMA LiveDataIs ==
  ASSUME WatchTypeOK
  PROVE  /\ LiveData \in Metas /\ LiveData.id = IF liveIds THEN match ELSE 0
         /\ LiveData.class = class.live /\ class.live \in Classes /\ class.lcu \in Classes
         /\ LiveData.src = "live" /\ LiveData.tsrc = "none" /\ LiveData.phase = "none"
<1>1. class.live \in Classes /\ class.lcu \in Classes
    BY ModesAssumption DEF WatchTypeOK
<1> QED
    BY <1>1, LimitsAssumption DEF WatchTypeOK, LiveData, Metas, Sources

LEMMA NoMetaIs ==
  /\ NoMeta \in Metas
  /\ \A f \in {"none", "lobby", "start", "ended"} :
       [NoMeta EXCEPT !.phase = f] \in Metas
    BY LimitsAssumption DEF NoMeta, Metas, Classes, Sources

LEMMA PhasesAre ==
  ASSUME WatchTypeOK, NEW f \in Phases \cup WrongPhases
  PROVE  /\ f \in {"unknown", "lobby", "start", "ended"}
         /\ stage = "closed" /\ ~(lag > 0) => f \in {"unknown", "ended"}
         /\ (IF f \in Phases THEN odd ELSE odd - 1) \in 0 .. MaxOdd
    BY LimitsAssumption DEF Phases, TruePhases, WrongPhases, WatchTypeOK

LEMMA SessionsAre ==
  ASSUME WatchTypeOK, NEW a \in Sessions
  PROVE  /\ a \in Metas /\ a.id \in {0, match} /\ a.tsrc = "none"
         /\ a.class # "none" \/ a.phase # "none" => a.id = match /\ a.src = "lcu"
         /\ a.id = 0 => a = NoMeta
         /\ stage = "lobby" => a = NoMeta
         /\ a.phase = "lobby" => stage = "lobby"
         /\ stage = "closed" /\ ~(lag > 0) => a.phase \in {"none", "ended"}
<1>1. CASE a = NoMeta
    BY <1>1, NoMetaIs DEF NoMeta
<1>2. CASE a # NoMeta
  <2>1. /\ stage # "lobby"
        /\ a \in [id : {match}, class : {class.lcu, "none"}, phase : TruePhases,
                  src : {"lcu"}, tsrc : {"none"}]
      BY <1>2 DEF Sessions
  <2>2. TruePhases \subseteq {"start", "ended"}
      BY <2>1 DEF TruePhases, WatchTypeOK
  <2>3. stage = "closed" /\ ~(lag > 0) => TruePhases = {"ended"}
      BY DEF TruePhases
  <2>4. a \in Metas
    <3>1. match \in 0 .. MaxMatches /\ {class.lcu, "none"} \subseteq Classes
        BY LiveDataIs, LimitsAssumption DEF WatchTypeOK, Classes
    <3> QED
        BY <2>1, <2>2, <3>1 DEF Metas, Sources
  <2> QED
      BY <2>1, <2>2, <2>3, <2>4, LimitsAssumption DEF WatchTypeOK
<1> QED
    BY <1>1, <1>2

(* What an answer leaves of the metadata.                                    *)
LEMMA KeptIs ==
  ASSUME NEW m \in Metas, NEW a \in Metas
  PROVE  /\ Kept(m, a) \in Metas /\ Kept(m, a).phase = m.phase
         /\ ~NewMatch(m, a) /\ ~OutsideGame(m, a) => Kept(m, a) = m
         /\ Kept(m, a).id \in {0, m.id}
    BY LimitsAssumption DEF Kept, Metas, NoMeta, Classes, Sources

LEMMA UpdatedIs ==
  ASSUME NEW m \in Metas, NEW a \in Metas
  PROVE  /\ Updated(m, a) \in Metas
         /\ Updated(m, a).id = IF a.id = 0 THEN Kept(m, a).id ELSE a.id
         /\ Updated(m, a).phase = IF a.phase = "none" THEN m.phase ELSE a.phase
         /\ IsTft(a) => Updated(m, a).tsrc = a.src
         /\ ~IsTft(a) => Updated(m, a).tsrc = Kept(m, a).tsrc
         /\ IsTft(Updated(m, a)) <=> IsTft(a) \/ IsTft(Kept(m, a))
    BY KeptIs DEF Updated, Metas, IsTft

LEMMA UpdatedLiveIs ==
  ASSUME NEW m \in Metas, NEW a \in Metas
  PROVE  /\ UpdatedLive(m, a) \in Metas
         /\ UpdatedLive(m, a).id = IF Kept(m, a).id = 0 THEN a.id ELSE Kept(m, a).id
         /\ UpdatedLive(m, a).phase = m.phase
         /\ IsTft(a) => UpdatedLive(m, a).tsrc = a.src
         /\ ~IsTft(a) => UpdatedLive(m, a).tsrc = Kept(m, a).tsrc
         /\ IsTft(UpdatedLive(m, a)) <=> IsTft(a) \/ IsTft(Kept(m, a))
    BY KeptIs DEF UpdatedLive, Metas, IsTft

LEMMA WithLiveIs ==
  ASSUME WatchTypeOK, NEW m \in Metas, NEW r
  PROVE  /\ WithLive(m, r) \in Metas /\ WithLive(m, r).phase = m.phase
         /\ r # "game" => WithLive(m, r) = m
    BY UpdatedLiveIs, LiveDataIs DEF WithLive

(* A phase leaves the match and its mode alone, unless it is the lobby's.    *)
LEMMA WithPhaseIs ==
  ASSUME NEW m \in Metas, NEW f \in {"unknown", "lobby", "start", "ended"}
  PROVE  /\ WithPhase(m, f) \in Metas
         /\ f # "unknown" => WithPhase(m, f).phase = f
         /\ f # "lobby" => WithPhase(m, f) = [m EXCEPT !.phase = IF f = "unknown" THEN @ ELSE f]
<1>1. CASE f = "unknown"
    BY <1>1 DEF WithPhase, Metas
<1>2. CASE f # "unknown"
  <2> DEFINE a == [NoMeta EXCEPT !.phase = f]
  <2>1. /\ a \in Metas /\ a.id = 0 /\ a.class = "none" /\ a.phase = f
        /\ a.src = "none" /\ a.tsrc = "none"
      BY <1>2, NoMetaIs DEF NoMeta
  <2>2. WithPhase(m, f) = Updated(m, a)
      BY <1>2 DEF WithPhase
  <2>3. Updated(m, a) \in Metas /\ Updated(m, a).phase = f
      BY <1>2, <2>1, UpdatedIs
  <2>4. CASE f # "lobby"
    <3>1. ~NewMatch(m, a) /\ ~OutsideGame(m, a)
        BY <2>1, <2>4 DEF NewMatch, OutsideGame
    <3>2. Kept(m, a) = m
        BY <2>1, <3>1, KeptIs
    <3>3. Updated(m, a) = [m EXCEPT !.phase = f]
        BY <1>2, <2>1, <3>2 DEF Updated, Metas, IsTft
    <3> QED
        BY <1>2, <2>2, <2>3, <3>3
  <2> QED
      BY <1>2, <2>2, <2>3, <2>4
<1> QED
    BY <1>1, <1>2

---------------------------------------------------------------------------
(* The clocks of the detector stay within their graces.                      *)
LEMMA AgedIs ==
  ASSUME NEW grace \in Nat, NEW t \in Timer(grace)
  PROVE  /\ Aged(t, grace) \in Timer(grace) /\ Aged(t, grace).n = t.n
         /\ t.n = 0 => Aged(t, grace).age = t.age
         /\ t.n > 0 => Aged(t, grace).age = Least(t.age + 1, grace)
    BY LimitsAssumption DEF Aged, Timer, Least

LEMMA CountedIs ==
  ASSUME NEW grace \in Nat, NEW t \in Timer(grace)
  PROVE  /\ Counted(t) \in Timer(grace) /\ Counted(t).n = Least(t.n + 1, Limit)
         /\ Counted(t).age = t.age
         /\ Off \in Timer(grace)
    BY LimitsAssumption DEF Counted, Timer, Least, Off

LEMMA GracesAre == MissingGrace \in Nat /\ TempGrace \in Nat /\ ContextGrace \in Nat
    BY LimitsAssumption

LEMMA IdleIs ==
  /\ Idle \in Timers /\ Idle.proc.n = 0 /\ Idle.temp.n = 0 /\ Idle.missing.n = 0
  /\ Idle.proc.age = 0 /\ Idle.temp.age = 0 /\ Idle.missing.age = 0
    BY GracesAre, LimitsAssumption DEF Idle, Timers, Timer, Off

LEMMA AllAgedIs ==
  ASSUME NEW d \in Timers
  PROVE  /\ AllAged(d) \in Timers
         /\ AllAged(d).missing = Aged(d.missing, MissingGrace)
         /\ AllAged(d).temp = Aged(d.temp, TempGrace)
         /\ AllAged(d).proc = Aged(d.proc, ContextGrace)
    BY AgedIs, GracesAre DEF AllAged, Timers

LEMMA ObservePollIs ==
  ASSUME NEW d \in Timers, NEW r \in {"game", "missing", "fail"}
  PROVE  /\ ObservePoll(d, r) \in Timers
         /\ ObservePoll(d, r).proc = d.proc
         /\ r = "fail" => /\ ObservePoll(d, r).missing = d.missing
                          /\ ObservePoll(d, r).temp = Counted(d.temp)
         /\ r = "missing" => /\ ObservePoll(d, r).missing = Counted(d.missing)
                             /\ ObservePoll(d, r).temp = Off
    BY CountedIs, GracesAre DEF ObservePoll, Timers

LEMMA ObserveContextIs ==
  ASSUME NEW d \in Timers, NEW f
  PROVE  /\ ObserveFlow(d, f) \in Timers /\ ObserveProcess(d, f) \in Timers
         /\ ObserveFlow(d, f).missing = d.missing /\ ObserveFlow(d, f).temp = d.temp
         /\ ObserveFlow(d, f).proc = d.proc
         /\ ObserveProcess(d, f).missing = d.missing /\ ObserveProcess(d, f).temp = d.temp
         /\ f = "no" => ObserveProcess(d, f).proc = Counted(d.proc)
         /\ f = "unknown" => ObserveProcess(d, f).proc = d.proc
    BY CountedIs, GracesAre DEF ObserveFlow, ObserveProcess, Timers

(* The id of the completed game is that of a match.                          *)
LEMMA EndedIdIs ==
  ASSUME WatchTypeOK, meta' \in Metas, NEW event \in BOOLEAN, Complete(event)
  PROVE  /\ lastId' \in 0 .. MaxMatches /\ at' = "post" /\ det' = Idle /\ got' = FALSE
         /\ clearFirst' = event
         /\ event => \/ meta'.id # 0 /\ lastId' = meta'.id
                     \/ meta'.id = 0 /\ LiveData.id # 0 /\ lastId' = LiveData.id
                     \/ meta'.id = 0 /\ LiveData.id = 0
    BY LiveDataIs DEF Complete, Metas, WatchTypeOK

(* The events of the game complete the metadata.                             *)
LEMMA EventsMeta ==
  ASSUME WatchTypeOK, RecordEvents
  PROVE  /\ meta' \in Metas
         /\ meta'.id = IF meta.id = 0 THEN LiveData.id ELSE meta.id
    BY LiveDataIs DEF RecordEvents, Metas, Sources, WatchTypeOK

(* What a poll of the Live Client does to the world.                         *)
LEMMA AnsweredIs ==
  ASSUME WatchTypeOK, NEW r \in LiveAnswers, Answered(r)
  PROVE  /\ quiet' \in 0 .. MaxGlitch /\ lag' \in 0 .. MaxLag /\ since' \in Nat
         /\ match' = match /\ stage' = stage /\ class' = class /\ odd' = odd
         /\ sight' = sight /\ liveIds' = liveIds
         /\ at \notin {"record", "clear"} \/ stage \notin {"closed", "lobby"} => since' = 0
         /\ stage \in {"closed", "lobby"} /\ at = "record" => since' = Least(since + 1, MinGap)
    BY LiveAnswersAre, BoundsAre, LimitsAssumption DEF Answered, WatchTypeOK, Least

LEMMA ToldIs ==
  ASSUME NEW a, Told(a)
  PROVE  known' \in BOOLEAN /\ (known' <=> IsTft(a) \/ (known /\ ~AnotherId(a)))
    BY DEF Told

LEMMA BeginIs ==
  ASSUME Begin
  PROVE  /\ at' = "starting" /\ rec' = match /\ blind' \in BOOLEAN
         /\ blind' <=> blind \/ meta'.id \notin {0, match}
    BY DEF Begin

(* What the re-check of the session after the grace concludes.               *)
LEMMA RecheckSessionIs ==
  ASSUME WatchTypeOK, NEW a \in Sessions
  PROVE  LET m == WithLive(Updated(meta, a), IF held THEN "game" ELSE "fail") IN
         /\ m \in Metas /\ m.phase = Updated(meta, a).phase
         /\ ~held => m = Updated(meta, a)
         /\ held => m = UpdatedLive(Updated(meta, a), LiveData)
<1>1. a \in Metas /\ meta \in Metas
    BY SessionsAre DEF WatchTypeOK
<1>2. Updated(meta, a) \in Metas
    BY <1>1, UpdatedIs
<1> QED
    BY <1>2, WithLiveIs DEF WithLive

(* A recording of a closed game ends before the next one loads.              *)
LEMMA EndsInTime ==
  ASSUME WatchInv, Silent, at = "record"
  PROVE  since < MinGap
<1>1. CASE sight
    BY <1>1, BoundsAre DEF WatchInv, ProcessInv, Recording
<1>2. CASE ~sight
  <2>1. PICK q \in 0 .. since : since - q < FailEnd /\ q <= Bound
      BY <1>2 DEF WatchInv, PollInv, Gap, Recording
  <2> QED
      BY <1>2, <2>1, BoundsAre DEF WatchInv, WatchTypeOK
<1> QED
    BY <1>1, <1>2 DEF WatchInv, WatchTypeOK

(* No answer of the Live Client for a closed game is that of a game.         *)
LEMMA DeafPoll ==
  ASSUME WatchInv, Silent, RecordPoll
  PROVE  \E r \in {"missing", "fail"} :
           /\ since' = since + 1
           /\ stage' = stage /\ sight' = sight
           /\ LET d == ObservePoll(AllAged(det), r) IN
              \/ PollEnds(d, r) /\ at' = "post"
              \/ ~PollEnds(d, r) /\ at' = "flow" /\ det' = d
<1>1. PICK r \in LiveAnswers :
        LET d == ObservePoll(AllAged(det), r) IN
        /\ Answered(r)
        /\ IF PollEnds(d, r) THEN Complete(FALSE)
           ELSE Continue("flow", d) /\ got' = (r = "game")
    BY DEF RecordPoll
<1>2. r \in {"missing", "fail"}
    BY LiveAnswersAre DEF Silent
<1>3. at = "record" /\ since < MinGap /\ since \in Nat /\ MinGap \in Nat
    BY EndsInTime, BoundsAre DEF RecordPoll, WatchInv, WatchTypeOK
<1>4. since' = Least(since + 1, MinGap) /\ stage' = stage /\ sight' = sight
    BY <1>1, <1>3, AnsweredIs DEF Silent, WatchInv
<1>5. since' = since + 1
    BY <1>3, <1>4 DEF Least
<1> QED
    BY <1>1, <1>2, <1>4, <1>5 DEF Complete, Continue

(* Metadata that say TFT are kept by any answer about the same match.        *)
LEMMA TftStays ==
  ASSUME NEW m \in Metas, NEW a \in Metas, TftMeta(m), a.phase # "lobby",
         a.id # 0 /\ m.id # 0 => a.id = m.id,
         a.id = 0 => a.src = "none" \/ (a.src = "live" /\ a.class = class.live)
  PROVE  Kept(m, a) = m
    BY DEF TftMeta, IsTft, Kept, NewMatch, OutsideGame

LEMMA TftBySession ==
  ASSUME WatchTypeOK, KnownInv, NEW a \in Sessions, IsTft(a) \/ (known /\ ~AnotherId(a))
  PROVE  TftMeta(Updated(meta, a)) /\ stage # "lobby"
         /\ (IsTft(a) => Updated(meta, a).id = match)
<1>1. meta \in Metas /\ a \in Metas /\ NoMeta.class = "none" /\ NoMeta.src = "none" /\ match # 0
    BY SessionsAre, LimitsAssumption DEF WatchTypeOK, NoMeta
<1>2. CASE IsTft(a)
  <2>1. a.id = match /\ a.src = "lcu" /\ stage # "lobby"
      BY <1>1, <1>2, SessionsAre DEF IsTft
  <2> QED
      BY <1>1, <1>2, <2>1, UpdatedIs DEF TftMeta
<1>3. CASE ~IsTft(a) /\ known /\ ~AnotherId(a)
  <2>1. TftMeta(meta) /\ stage # "lobby"
      BY <1>3 DEF KnownInv
  <2>2. Kept(meta, a) = meta
      BY <1>1, <1>3, <2>1, TftStays, SessionsAre DEF AnotherId
  <2>3. IsTft(Kept(meta, a))
      BY <2>1, <2>2 DEF TftMeta
  <2>4. Updated(meta, a).tsrc = meta.tsrc
    <3>1. a.class # "tft"
        BY <1>3 DEF IsTft
    <3> QED
        BY <2>2, <3>1 DEF Updated, IsTft
  <2>5. IsTft(Updated(meta, a))
      BY <1>1, <2>3, UpdatedIs
  <2> QED
      BY <1>3, <2>1, <2>4, <2>5 DEF TftMeta
<1> QED
    BY <1>2, <1>3

LEMMA TftByLive ==
  ASSUME WatchTypeOK, NEW m \in Metas,
         \/ IsTft(LiveData)
         \/ TftMeta(m) /\ (m.id # 0 /\ LiveData.id # 0 => m.id = LiveData.id)
  PROVE  TftMeta(UpdatedLive(m, LiveData))
<1>1. CASE IsTft(LiveData)
    BY <1>1, LiveDataIs, UpdatedLiveIs DEF TftMeta, IsTft
<1>2. CASE ~IsTft(LiveData) /\ TftMeta(m) /\ (m.id # 0 /\ LiveData.id # 0 => m.id = LiveData.id)
  <2>1. Kept(m, LiveData) = m
      BY <1>2, LiveDataIs, TftStays
  <2>2. IsTft(Kept(m, LiveData))
      BY <1>2, <2>1 DEF TftMeta
  <2>3. UpdatedLive(m, LiveData).tsrc = m.tsrc
    <3>1. LiveData.class # "tft"
        BY <1>2 DEF IsTft
    <3> QED
        BY <2>1, <3>1 DEF UpdatedLive, IsTft
  <2>4. IsTft(UpdatedLive(m, LiveData))
      BY <2>2, LiveDataIs, UpdatedLiveIs
  <2> QED
      BY <1>2, <2>3, <2>4 DEF TftMeta
<1> QED
    BY <1>1, <1>2

(* While the match is the same, the answer of a phase changes the phase only. *)
LEMMA TftByPhase ==
  ASSUME WatchTypeOK, KnownInv, known, NEW f \in Phases \cup WrongPhases, f # "lobby"
  PROVE  TftMeta(WithPhase(meta, f))
<1>1. meta \in Metas /\ TftMeta(meta) /\ f \in {"unknown", "lobby", "start", "ended"}
    BY PhasesAre DEF WatchTypeOK, KnownInv
<1> QED
    BY <1>1, WithPhaseIs DEF TftMeta, IsTft, Metas

(* What a poll of the Live Client tells of TFT.                              *)
LEMMA TftByPoll ==
  ASSUME WatchTypeOK, KnownInv, NEW r \in LiveAnswers,
         IF r = "game" THEN Told(LiveData) ELSE known' = known
  PROVE  /\ known' \in BOOLEAN
         /\ known' => TftMeta(WithLive(meta, r)) /\ stage # "lobby"
<1>1. CASE r = "game"
  <2>1. /\ known' \in BOOLEAN
        /\ known' => IsTft(LiveData) \/ (known /\ ~AnotherId(LiveData))
      BY <1>1, ToldIs
  <2>2. known' => TftMeta(UpdatedLive(meta, LiveData))
      BY <2>1, TftByLive DEF KnownInv, AnotherId, WatchTypeOK
  <2> QED
      BY <1>1, <2>1, <2>2, LiveAnswersAre DEF WithLive
<1>2. CASE r # "game"
    BY <1>2 DEF WithLive, KnownInv, WatchTypeOK
<1> QED
    BY <1>1, <1>2

(* Every step keeps WatchTypeOK.                                             *)
LEMMA NextWatchTypeOK == WatchInv /\ [WatchNext]_watchVars => WatchTypeOK'
<1> SUFFICES ASSUME WatchInv, [WatchNext]_watchVars PROVE WatchTypeOK'
    OBVIOUS
<1> USE LimitsAssumption DEF WatchTypeOK, CountInv, Least, Most, world, recorder, history,
    watchVars, WatchInv, Watching, Recording
<1>1. ASSUME Loads PROVE WatchTypeOK'
    BY <1>1 DEF Loads
<1>2. ASSUME Runs PROVE WatchTypeOK'
    BY <1>2 DEF Runs
<1>3. ASSUME Ends PROVE WatchTypeOK'
    BY <1>3 DEF Ends
<1>4. ASSUME Closes PROVE WatchTypeOK'
    BY <1>4 DEF Closes
<1>5. ASSUME Leaves PROVE WatchTypeOK'
  <2>1. match' \in 1 .. MaxMatches /\ stage' \in {"lobby", "loading", "running", "over",
      "closed"} /\ class' \in Modes
      BY <1>5 DEF Leaves
  <2>2. lag' \in 0 .. MaxLag /\ quiet' \in 0 .. MaxGlitch /\ odd' \in 0 .. MaxOdd /\ since' \in
      Nat
      BY <1>5 DEF Leaves
  <2>3. sight' \in BOOLEAN /\ liveIds' \in BOOLEAN /\ held' \in BOOLEAN /\ clearFirst' \in BOOLEAN
      BY <1>5 DEF Leaves
  <2>4. at' \in {"clear", "starting", "post"} \cup Watching \cup Recording
      BY <1>5 DEF Leaves
  <2>5. meta' \in Metas
      BY <1>5 DEF Leaves
  <2>6. left' \in 0 .. Most(Limit, Attempts)
      BY <1>5 DEF Leaves
  <2>7. lastId' \in 0 .. MaxMatches /\ rec' \in 0 .. MaxMatches /\ failed' \subseteq 0 ..
      MaxMatches
      BY <1>5 DEF Leaves
  <2>8. det' \in Timers
      BY <1>5 DEF Leaves
  <2>9. failures' \in 0 .. MaxFailures
      BY <1>5 DEF Leaves
  <2>10. got' \in BOOLEAN /\ known' \in BOOLEAN /\ done' \in BOOLEAN /\ blind' \in BOOLEAN
      BY <1>5 DEF Leaves
  <2> QED
      BY <2>1, <2>2, <2>3, <2>4, <2>5, <2>6, <2>7, <2>8, <2>9, <2>10
<1>6. ASSUME ClearNotNeeded PROVE WatchTypeOK'
    BY <1>6 DEF ClearNotNeeded
<1>7. ASSUME ClearPoll PROVE WatchTypeOK'
    BY <1>7, LiveAnswersAre, AnsweredIs DEF ClearPoll
<1>8. ASSUME Phase PROVE WatchTypeOK'
    BY <1>8, PhasesAre, WithPhaseIs DEF Phase, PollPhase
<1>9. ASSUME Session PROVE WatchTypeOK'
  <2>1. match' \in 1 .. MaxMatches /\ stage' \in {"lobby", "loading", "running", "over",
      "closed"} /\ class' \in Modes
      BY <1>9, SessionsAre, UpdatedIs, ToldIs DEF Session
  <2>2. lag' \in 0 .. MaxLag /\ quiet' \in 0 .. MaxGlitch /\ odd' \in 0 .. MaxOdd /\ since' \in
      Nat
      BY <1>9, SessionsAre, UpdatedIs, ToldIs DEF Session
  <2>3. sight' \in BOOLEAN /\ liveIds' \in BOOLEAN /\ held' \in BOOLEAN /\ clearFirst' \in BOOLEAN
      BY <1>9, SessionsAre, UpdatedIs, ToldIs DEF Session
  <2>4. at' \in {"clear", "starting", "post"} \cup Watching \cup Recording
      BY <1>9, SessionsAre, UpdatedIs, ToldIs DEF Session
  <2>5. meta' \in Metas
      BY <1>9, SessionsAre, UpdatedIs, ToldIs DEF Session
  <2>6. left' \in 0 .. Most(Limit, Attempts)
      BY <1>9, SessionsAre, UpdatedIs, ToldIs DEF Session
  <2>7. lastId' \in 0 .. MaxMatches /\ rec' \in 0 .. MaxMatches /\ failed' \subseteq 0 ..
      MaxMatches
      BY <1>9, SessionsAre, UpdatedIs, ToldIs DEF Session
  <2>8. det' \in Timers
      BY <1>9, SessionsAre, UpdatedIs, ToldIs DEF Session
  <2>9. failures' \in 0 .. MaxFailures
      BY <1>9, SessionsAre, UpdatedIs, ToldIs DEF Session
  <2>10. got' \in BOOLEAN /\ known' \in BOOLEAN /\ done' \in BOOLEAN /\ blind' \in BOOLEAN
      BY <1>9, SessionsAre, UpdatedIs, ToldIs DEF Session
  <2> QED
      BY <2>1, <2>2, <2>3, <2>4, <2>5, <2>6, <2>7, <2>8, <2>9, <2>10
<1>10. ASSUME Live PROVE WatchTypeOK'
  <2>1. match' \in 1 .. MaxMatches /\ stage' \in {"lobby", "loading", "running", "over",
      "closed"} /\ class' \in Modes
      BY <1>10, LiveAnswersAre, AnsweredIs, WithLiveIs, ToldIs, BeginIs DEF Live, NoStart
  <2>2. lag' \in 0 .. MaxLag /\ quiet' \in 0 .. MaxGlitch /\ odd' \in 0 .. MaxOdd /\ since' \in
      Nat
      BY <1>10, LiveAnswersAre, AnsweredIs, WithLiveIs, ToldIs, BeginIs DEF Live, NoStart
  <2>3. sight' \in BOOLEAN /\ liveIds' \in BOOLEAN /\ held' \in BOOLEAN /\ clearFirst' \in BOOLEAN
      BY <1>10, LiveAnswersAre, AnsweredIs, WithLiveIs, ToldIs, BeginIs DEF Live, NoStart
  <2>4. at' \in {"clear", "starting", "post"} \cup Watching \cup Recording
      BY <1>10, LiveAnswersAre, AnsweredIs, WithLiveIs, ToldIs, BeginIs DEF Live, NoStart
  <2>5. meta' \in Metas
      BY <1>10, LiveAnswersAre, AnsweredIs, WithLiveIs, ToldIs, BeginIs DEF Live, NoStart
  <2>6. left' \in 0 .. Most(Limit, Attempts)
      BY <1>10, LiveAnswersAre, AnsweredIs, WithLiveIs, ToldIs, BeginIs DEF Live, NoStart
  <2>7. lastId' \in 0 .. MaxMatches /\ rec' \in 0 .. MaxMatches /\ failed' \subseteq 0 ..
      MaxMatches
      BY <1>10, LiveAnswersAre, AnsweredIs, WithLiveIs, ToldIs, BeginIs DEF Live, NoStart
  <2>8. det' \in Timers
      BY <1>10, LiveAnswersAre, AnsweredIs, WithLiveIs, ToldIs, BeginIs DEF Live, NoStart
  <2>9. failures' \in 0 .. MaxFailures
      BY <1>10, LiveAnswersAre, AnsweredIs, WithLiveIs, ToldIs, BeginIs DEF Live, NoStart
  <2>10. got' \in BOOLEAN /\ known' \in BOOLEAN /\ done' \in BOOLEAN /\ blind' \in BOOLEAN
      BY <1>10, LiveAnswersAre, AnsweredIs, WithLiveIs, ToldIs, BeginIs DEF Live, NoStart
  <2> QED
      BY <2>1, <2>2, <2>3, <2>4, <2>5, <2>6, <2>7, <2>8, <2>9, <2>10
<1>11. ASSUME Grace PROVE WatchTypeOK'
  <2>1. match' \in 1 .. MaxMatches /\ stage' \in {"lobby", "loading", "running", "over",
      "closed"} /\ class' \in Modes
      BY <1>11, LiveAnswersAre, AnsweredIs, WithLiveIs, ToldIs DEF Grace
  <2>2. lag' \in 0 .. MaxLag /\ quiet' \in 0 .. MaxGlitch /\ odd' \in 0 .. MaxOdd /\ since' \in
      Nat
      BY <1>11, LiveAnswersAre, AnsweredIs, WithLiveIs, ToldIs DEF Grace
  <2>3. sight' \in BOOLEAN /\ liveIds' \in BOOLEAN /\ held' \in BOOLEAN /\ clearFirst' \in BOOLEAN
      BY <1>11, LiveAnswersAre, AnsweredIs, WithLiveIs, ToldIs DEF Grace
  <2>4. at' \in {"clear", "starting", "post"} \cup Watching \cup Recording
      BY <1>11, LiveAnswersAre, AnsweredIs, WithLiveIs, ToldIs DEF Grace
  <2>5. meta' \in Metas
      BY <1>11, LiveAnswersAre, AnsweredIs, WithLiveIs, ToldIs DEF Grace
  <2>6. left' \in 0 .. Most(Limit, Attempts)
      BY <1>11, LiveAnswersAre, AnsweredIs, WithLiveIs, ToldIs DEF Grace
  <2>7. lastId' \in 0 .. MaxMatches /\ rec' \in 0 .. MaxMatches /\ failed' \subseteq 0 ..
      MaxMatches
      BY <1>11, LiveAnswersAre, AnsweredIs, WithLiveIs, ToldIs DEF Grace
  <2>8. det' \in Timers
      BY <1>11, LiveAnswersAre, AnsweredIs, WithLiveIs, ToldIs DEF Grace
  <2>9. failures' \in 0 .. MaxFailures
      BY <1>11, LiveAnswersAre, AnsweredIs, WithLiveIs, ToldIs DEF Grace
  <2>10. got' \in BOOLEAN /\ known' \in BOOLEAN /\ done' \in BOOLEAN /\ blind' \in BOOLEAN
      BY <1>11, LiveAnswersAre, AnsweredIs, WithLiveIs, ToldIs DEF Grace
  <2> QED
      BY <2>1, <2>2, <2>3, <2>4, <2>5, <2>6, <2>7, <2>8, <2>9, <2>10
<1>12. ASSUME Recheck PROVE WatchTypeOK'
    BY <1>12, PhasesAre, WithPhaseIs DEF Recheck, PollPhase
<1>13. ASSUME RecheckSession PROVE WatchTypeOK'
  <2> PICK a \in Sessions :
         LET m == WithLive(Updated(meta, a), IF held THEN "game" ELSE "fail") IN
         /\ meta' = m
         /\ Told(a)
         /\ IF ~IsTft(m) /\ (held \/ m.phase = "start") THEN Begin ELSE NoStart("phase")
      BY <1>13 DEF RecheckSession
  <2>1. match' \in 1 .. MaxMatches /\ stage' \in {"lobby", "loading", "running", "over",
      "closed"} /\ class' \in Modes
      BY <1>13, ToldIs, BeginIs, RecheckSessionIs DEF RecheckSession, NoStart
  <2>2. lag' \in 0 .. MaxLag /\ quiet' \in 0 .. MaxGlitch /\ odd' \in 0 .. MaxOdd /\ since' \in
      Nat
      BY <1>13, ToldIs, BeginIs, RecheckSessionIs DEF RecheckSession, NoStart
  <2>3. sight' \in BOOLEAN /\ liveIds' \in BOOLEAN /\ held' \in BOOLEAN /\ clearFirst' \in BOOLEAN
      BY <1>13, ToldIs, BeginIs, RecheckSessionIs DEF RecheckSession, NoStart
  <2>4. at' \in {"clear", "starting", "post"} \cup Watching \cup Recording
      BY <1>13, ToldIs, BeginIs, RecheckSessionIs DEF RecheckSession, NoStart
  <2>5. meta' \in Metas
      BY <1>13, ToldIs, BeginIs, RecheckSessionIs DEF RecheckSession, NoStart
  <2>6. left' \in 0 .. Most(Limit, Attempts)
      BY <1>13, ToldIs, BeginIs, RecheckSessionIs DEF RecheckSession, NoStart
  <2>7. lastId' \in 0 .. MaxMatches /\ rec' \in 0 .. MaxMatches /\ failed' \subseteq 0 ..
      MaxMatches
      BY <1>13, ToldIs, BeginIs, RecheckSessionIs DEF RecheckSession, NoStart
  <2>8. det' \in Timers
      BY <1>13, ToldIs, BeginIs, RecheckSessionIs DEF RecheckSession, NoStart
  <2>9. failures' \in 0 .. MaxFailures
      BY <1>13, ToldIs, BeginIs, RecheckSessionIs DEF RecheckSession, NoStart
  <2>10. got' \in BOOLEAN /\ known' \in BOOLEAN /\ done' \in BOOLEAN /\ blind' \in BOOLEAN
      BY <1>13, ToldIs, BeginIs DEF RecheckSession, NoStart
  <2> QED
      BY <2>1, <2>2, <2>3, <2>4, <2>5, <2>6, <2>7, <2>8, <2>9, <2>10
<1>14. ASSUME StartRecording PROVE WatchTypeOK'
    BY <1>14, IdleIs DEF StartRecording
<1>15. ASSUME RecordPoll PROVE WatchTypeOK'
  <2>1. match' \in 1 .. MaxMatches /\ stage' \in {"lobby", "loading", "running", "over",
      "closed"} /\ class' \in Modes
      BY <1>15, LiveAnswersAre, AnsweredIs, AllAgedIs, ObservePollIs, EndedIdIs, IdleIs DEF
          RecordPoll, Continue
  <2>2. lag' \in 0 .. MaxLag /\ quiet' \in 0 .. MaxGlitch /\ odd' \in 0 .. MaxOdd /\ since' \in
      Nat
      BY <1>15, LiveAnswersAre, AnsweredIs, AllAgedIs, ObservePollIs, EndedIdIs, IdleIs DEF
          RecordPoll, Continue
  <2>3. sight' \in BOOLEAN /\ liveIds' \in BOOLEAN /\ held' \in BOOLEAN /\ clearFirst' \in BOOLEAN
      BY <1>15, LiveAnswersAre, AnsweredIs, AllAgedIs, ObservePollIs, EndedIdIs, IdleIs DEF
          RecordPoll, Continue
  <2>4. at' \in {"clear", "starting", "post"} \cup Watching \cup Recording
      BY <1>15, LiveAnswersAre, AnsweredIs, AllAgedIs, ObservePollIs, EndedIdIs, IdleIs DEF
          RecordPoll, Continue
  <2>5. meta' \in Metas
      BY <1>15, LiveAnswersAre, AnsweredIs, AllAgedIs, ObservePollIs, EndedIdIs, IdleIs DEF
          RecordPoll, Continue
  <2>6. left' \in 0 .. Most(Limit, Attempts)
      BY <1>15, LiveAnswersAre, AnsweredIs, AllAgedIs, ObservePollIs, EndedIdIs, IdleIs DEF
          RecordPoll, Continue
  <2>7. lastId' \in 0 .. MaxMatches /\ rec' \in 0 .. MaxMatches /\ failed' \subseteq 0 ..
      MaxMatches
      BY <1>15, LiveAnswersAre, AnsweredIs, AllAgedIs, ObservePollIs, EndedIdIs, IdleIs DEF
          RecordPoll, Continue
  <2>8. det' \in Timers
    <3> PICK r \in LiveAnswers :
           IF PollEnds(ObservePoll(AllAged(det), r), r) THEN Complete(FALSE)
           ELSE Continue("flow", ObservePoll(AllAged(det), r))
        BY <1>15 DEF RecordPoll
    <3>1. ObservePoll(AllAged(det), r) \in Timers
        BY LiveAnswersAre, AllAgedIs, ObservePollIs
    <3> QED
        BY <3>1, <1>15, IdleIs DEF RecordPoll, Complete, Continue
  <2>9. failures' \in 0 .. MaxFailures
      BY <1>15, LiveAnswersAre, AnsweredIs, AllAgedIs, ObservePollIs, EndedIdIs, IdleIs DEF
          RecordPoll, Continue
  <2>10. got' \in BOOLEAN /\ known' \in BOOLEAN /\ done' \in BOOLEAN /\ blind' \in BOOLEAN
      BY <1>15, LiveAnswersAre, AnsweredIs, AllAgedIs, ObservePollIs, EndedIdIs, IdleIs DEF
          RecordPoll, Continue
  <2> QED
      BY <2>1, <2>2, <2>3, <2>4, <2>5, <2>6, <2>7, <2>8, <2>9, <2>10
<1>16. ASSUME RecordFlow PROVE WatchTypeOK'
  <2>1. match' \in 1 .. MaxMatches /\ stage' \in {"lobby", "loading", "running", "over",
      "closed"} /\ class' \in Modes
      BY <1>16, ObserveContextIs, EndedIdIs, IdleIs DEF RecordFlow, Continue
  <2>2. lag' \in 0 .. MaxLag /\ quiet' \in 0 .. MaxGlitch /\ odd' \in 0 .. MaxOdd /\ since' \in
      Nat
      BY <1>16, PhasesAre DEF RecordFlow
  <2>3. sight' \in BOOLEAN /\ liveIds' \in BOOLEAN /\ held' \in BOOLEAN /\ clearFirst' \in BOOLEAN
      BY <1>16, ObserveContextIs, EndedIdIs, IdleIs DEF RecordFlow, Continue
  <2>4. at' \in {"clear", "starting", "post"} \cup Watching \cup Recording
      BY <1>16, ObserveContextIs, EndedIdIs, IdleIs DEF RecordFlow, Continue
  <2>5. meta' \in Metas
      BY <1>16, ObserveContextIs, EndedIdIs, IdleIs DEF RecordFlow, Continue
  <2>6. left' \in 0 .. Most(Limit, Attempts)
      BY <1>16, ObserveContextIs, EndedIdIs, IdleIs DEF RecordFlow, Continue
  <2>7. lastId' \in 0 .. MaxMatches /\ rec' \in 0 .. MaxMatches /\ failed' \subseteq 0 ..
      MaxMatches
      BY <1>16, ObserveContextIs, EndedIdIs, IdleIs DEF RecordFlow, Continue
  <2>8. det' \in Timers
      BY <1>16, ObserveContextIs, EndedIdIs, IdleIs DEF RecordFlow, Continue
  <2>9. failures' \in 0 .. MaxFailures
      BY <1>16, ObserveContextIs, EndedIdIs, IdleIs DEF RecordFlow, Continue
  <2>10. got' \in BOOLEAN /\ known' \in BOOLEAN /\ done' \in BOOLEAN /\ blind' \in BOOLEAN
      BY <1>16, ObserveContextIs, EndedIdIs, IdleIs DEF RecordFlow, Continue
  <2> QED
      BY <2>1, <2>2, <2>3, <2>4, <2>5, <2>6, <2>7, <2>8, <2>9, <2>10
<1>17. ASSUME RecordProcess PROVE WatchTypeOK'
  <2>1. match' \in 1 .. MaxMatches /\ stage' \in {"lobby", "loading", "running", "over",
      "closed"} /\ class' \in Modes
      BY <1>17, ObserveContextIs, EndedIdIs, IdleIs DEF RecordProcess, Continue
  <2>2. lag' \in 0 .. MaxLag /\ quiet' \in 0 .. MaxGlitch /\ odd' \in 0 .. MaxOdd /\ since' \in
      Nat
      BY <1>17, ObserveContextIs, EndedIdIs, IdleIs DEF RecordProcess, Continue
  <2>3. sight' \in BOOLEAN /\ liveIds' \in BOOLEAN /\ held' \in BOOLEAN /\ clearFirst' \in BOOLEAN
      BY <1>17, ObserveContextIs, EndedIdIs, IdleIs DEF RecordProcess, Continue
  <2>4. at' \in {"clear", "starting", "post"} \cup Watching \cup Recording
      BY <1>17, ObserveContextIs, EndedIdIs, IdleIs DEF RecordProcess, Continue
  <2>5. meta' \in Metas
      BY <1>17, ObserveContextIs, EndedIdIs, IdleIs DEF RecordProcess, Continue
  <2>6. left' \in 0 .. Most(Limit, Attempts)
      BY <1>17, ObserveContextIs, EndedIdIs, IdleIs DEF RecordProcess, Continue
  <2>7. lastId' \in 0 .. MaxMatches /\ rec' \in 0 .. MaxMatches /\ failed' \subseteq 0 ..
      MaxMatches
      BY <1>17, ObserveContextIs, EndedIdIs, IdleIs DEF RecordProcess, Continue
  <2>8. det' \in Timers
      BY <1>17, ObserveContextIs, IdleIs DEF RecordProcess, Continue, Complete
  <2>9. failures' \in 0 .. MaxFailures
      BY <1>17, ObserveContextIs, EndedIdIs, IdleIs DEF RecordProcess, Continue
  <2>10. got' \in BOOLEAN /\ known' \in BOOLEAN /\ done' \in BOOLEAN /\ blind' \in BOOLEAN
      BY <1>17, ObserveContextIs, EndedIdIs, IdleIs DEF RecordProcess, Continue
  <2> QED
      BY <2>1, <2>2, <2>3, <2>4, <2>5, <2>6, <2>7, <2>8, <2>9, <2>10
<1>18. ASSUME RecordEvents PROVE WatchTypeOK'
    BY <1>18, EndedIdIs, EventsMeta, IdleIs DEF RecordEvents, Continue
<1>19. ASSUME NextSession PROVE WatchTypeOK'
  <2>1. match' \in 1 .. MaxMatches /\ stage' \in {"lobby", "loading", "running", "over",
      "closed"} /\ class' \in Modes
      BY <1>19, NoMetaIs DEF NextSession
  <2>2. lag' \in 0 .. MaxLag /\ quiet' \in 0 .. MaxGlitch /\ odd' \in 0 .. MaxOdd /\ since' \in
      Nat
      BY <1>19, NoMetaIs DEF NextSession
  <2>3. sight' \in BOOLEAN /\ liveIds' \in BOOLEAN /\ held' \in BOOLEAN /\ clearFirst' \in BOOLEAN
      BY <1>19, NoMetaIs DEF NextSession
  <2>4. at' \in {"clear", "starting", "post"} \cup Watching \cup Recording
      BY <1>19, NoMetaIs DEF NextSession
  <2>5. meta' \in Metas
      BY <1>19, NoMetaIs DEF NextSession
  <2>6. left' \in 0 .. Most(Limit, Attempts)
      BY <1>19, NoMetaIs DEF NextSession
  <2>7. lastId' \in 0 .. MaxMatches /\ rec' \in 0 .. MaxMatches /\ failed' \subseteq 0 ..
      MaxMatches
      BY <1>19, NoMetaIs DEF NextSession
  <2>8. det' \in Timers
      BY <1>19, NoMetaIs DEF NextSession
  <2>9. failures' \in 0 .. MaxFailures
      BY <1>19, NoMetaIs DEF NextSession
  <2>10. got' \in BOOLEAN /\ known' \in BOOLEAN /\ done' \in BOOLEAN /\ blind' \in BOOLEAN
      BY <1>19, NoMetaIs DEF NextSession
  <2> QED
      BY <2>1, <2>2, <2>3, <2>4, <2>5, <2>6, <2>7, <2>8, <2>9, <2>10
<1>20. ASSUME Fails PROVE WatchTypeOK'
  <2>1. match' \in 1 .. MaxMatches /\ stage' \in {"lobby", "loading", "running", "over",
      "closed"} /\ class' \in Modes
      BY <1>20, IdleIs, NoMetaIs DEF Fails
  <2>2. lag' \in 0 .. MaxLag /\ quiet' \in 0 .. MaxGlitch /\ odd' \in 0 .. MaxOdd /\ since' \in
      Nat
      BY <1>20, IdleIs, NoMetaIs DEF Fails
  <2>3. sight' \in BOOLEAN /\ liveIds' \in BOOLEAN /\ held' \in BOOLEAN /\ clearFirst' \in BOOLEAN
      BY <1>20, IdleIs, NoMetaIs DEF Fails
  <2>4. at' \in {"clear", "starting", "post"} \cup Watching \cup Recording
      BY <1>20, IdleIs, NoMetaIs DEF Fails
  <2>5. meta' \in Metas
      BY <1>20, IdleIs, NoMetaIs DEF Fails
  <2>6. left' \in 0 .. Most(Limit, Attempts)
      BY <1>20, IdleIs, NoMetaIs DEF Fails
  <2>7. lastId' \in 0 .. MaxMatches /\ rec' \in 0 .. MaxMatches /\ failed' \subseteq 0 ..
      MaxMatches
      BY <1>20 DEF Fails, Metas
  <2>8. det' \in Timers
      BY <1>20, IdleIs, NoMetaIs DEF Fails
  <2>9. failures' \in 0 .. MaxFailures
      BY <1>20, IdleIs, NoMetaIs DEF Fails
  <2>10. got' \in BOOLEAN /\ known' \in BOOLEAN /\ done' \in BOOLEAN /\ blind' \in BOOLEAN
      BY <1>20, IdleIs, NoMetaIs DEF Fails
  <2> QED
      BY <2>1, <2>2, <2>3, <2>4, <2>5, <2>6, <2>7, <2>8, <2>9, <2>10
<1>21. CASE UNCHANGED watchVars
    BY <1>21
<1>22. QED
    BY <1>1, <1>2, <1>3, <1>4, <1>5, <1>6, <1>7, <1>8, <1>9, <1>10, <1>11, <1>12, <1>13,
        <1>14, <1>15, <1>16, <1>17, <1>18, <1>19, <1>20, <1>21 DEF WatchNext, World, Recorder

(* Every step keeps CountInv.                                                *)
LEMMA NextCountInv == WatchInv /\ [WatchNext]_watchVars => CountInv'
<1> SUFFICES ASSUME WatchInv, [WatchNext]_watchVars PROVE CountInv'
    OBVIOUS
<1> USE LimitsAssumption DEF WatchTypeOK, CountInv, world, recorder, history, watchVars, WatchInv,
    Watching, Recording
<1>1. ASSUME Loads PROVE CountInv'
    BY <1>1 DEF Loads
<1>2. ASSUME Runs PROVE CountInv'
    BY <1>2 DEF Runs
<1>3. ASSUME Ends PROVE CountInv'
    BY <1>3 DEF Ends
<1>4. ASSUME Closes PROVE CountInv'
    BY <1>4 DEF Closes
<1>5. ASSUME Leaves PROVE CountInv'
    BY <1>5 DEF Leaves
<1>6. ASSUME ClearNotNeeded PROVE CountInv'
    BY <1>6 DEF ClearNotNeeded
<1>7. ASSUME ClearPoll PROVE CountInv'
    BY <1>7, LiveAnswersAre, AnsweredIs DEF ClearPoll
<1>8. ASSUME Phase PROVE CountInv'
    BY <1>8, PhasesAre, WithPhaseIs DEF Phase, PollPhase
<1>9. ASSUME Session PROVE CountInv'
    BY <1>9, SessionsAre, UpdatedIs DEF Session
<1>10. ASSUME Live PROVE CountInv'
    BY <1>10, LiveAnswersAre, AnsweredIs, WithLiveIs DEF Live, Begin, NoStart
<1>11. ASSUME Grace PROVE CountInv'
    BY <1>11, LiveAnswersAre, AnsweredIs, WithLiveIs DEF Grace
<1>12. ASSUME Recheck PROVE CountInv'
    BY <1>12, PhasesAre, WithPhaseIs DEF Recheck, PollPhase
<1>13. ASSUME RecheckSession PROVE CountInv'
    BY <1>13, WithLiveIs, SessionsAre, UpdatedIs DEF RecheckSession, Begin, NoStart
<1>14. ASSUME StartRecording PROVE CountInv'
    BY <1>14, IdleIs DEF StartRecording
<1>15. ASSUME RecordPoll PROVE CountInv'
    BY <1>15, LiveAnswersAre, AnsweredIs, AllAgedIs, ObservePollIs, EndedIdIs, IdleIs DEF
        RecordPoll, Continue
<1>16. ASSUME RecordFlow PROVE CountInv'
    BY <1>16, ObserveContextIs, EndedIdIs, IdleIs DEF RecordFlow, Continue
<1>17. ASSUME RecordProcess PROVE CountInv'
    BY <1>17, ObserveContextIs, EndedIdIs, IdleIs DEF RecordProcess, Continue
<1>18. ASSUME RecordEvents PROVE CountInv'
    BY <1>18, EndedIdIs, EventsMeta, IdleIs DEF RecordEvents, Continue
<1>19. ASSUME NextSession PROVE CountInv'
    BY <1>19, NoMetaIs DEF NextSession
<1>20. ASSUME Fails PROVE CountInv'
    BY <1>20, IdleIs, NoMetaIs DEF Fails
<1>21. CASE UNCHANGED watchVars
    BY <1>21
<1>22. QED
    BY <1>1, <1>2, <1>3, <1>4, <1>5, <1>6, <1>7, <1>8, <1>9, <1>10, <1>11, <1>12, <1>13,
        <1>14, <1>15, <1>16, <1>17, <1>18, <1>19, <1>20, <1>21 DEF WatchNext, World, Recorder

(* Every step keeps MatchInv.                                                *)
LEMMA NextMatchInv == WatchInv /\ [WatchNext]_watchVars => MatchInv'
<1> SUFFICES ASSUME WatchInv, [WatchNext]_watchVars PROVE MatchInv'
    OBVIOUS
<1> USE LimitsAssumption DEF WatchTypeOK, MatchInv, world, recorder, history, watchVars, WatchInv,
    Watching, Recording
<1>1. ASSUME Loads PROVE MatchInv'
    BY <1>1, EndsInTime DEF Loads, Silent
<1>2. ASSUME Runs PROVE MatchInv'
    BY <1>2 DEF Runs
<1>3. ASSUME Ends PROVE MatchInv'
    BY <1>3 DEF Ends
<1>4. ASSUME Closes PROVE MatchInv'
    BY <1>4 DEF Closes
<1>5. ASSUME Leaves PROVE MatchInv'
    BY <1>5 DEF Leaves
<1>6. ASSUME ClearNotNeeded PROVE MatchInv'
    BY <1>6 DEF ClearNotNeeded
<1>7. ASSUME ClearPoll PROVE MatchInv'
    BY <1>7, LiveAnswersAre, AnsweredIs DEF ClearPoll
<1>8. ASSUME Phase PROVE MatchInv'
    BY <1>8, PhasesAre, WithPhaseIs DEF Phase, PollPhase
<1>9. ASSUME Session PROVE MatchInv'
    BY <1>9, SessionsAre, UpdatedIs DEF Session
<1>10. ASSUME Live PROVE MatchInv'
    BY <1>10, LiveAnswersAre, AnsweredIs, WithLiveIs DEF Live, Begin, NoStart
<1>11. ASSUME Grace PROVE MatchInv'
    BY <1>11, LiveAnswersAre, AnsweredIs, WithLiveIs DEF Grace
<1>12. ASSUME Recheck PROVE MatchInv'
    BY <1>12, PhasesAre, WithPhaseIs DEF Recheck, PollPhase
<1>13. ASSUME RecheckSession PROVE MatchInv'
  <2> PICK a \in Sessions :
         LET m == WithLive(Updated(meta, a), IF held THEN "game" ELSE "fail") IN
         IF ~IsTft(m) /\ (held \/ m.phase = "start") THEN Begin ELSE NoStart("phase")
      BY <1>13 DEF RecheckSession
  <2> QED
      BY <1>13, BeginIs DEF RecheckSession, NoStart
<1>14. ASSUME StartRecording PROVE MatchInv'
    BY <1>14, IdleIs DEF StartRecording
<1>15. ASSUME RecordPoll PROVE MatchInv'
    BY <1>15, LiveAnswersAre, AnsweredIs, AllAgedIs, ObservePollIs, EndedIdIs, IdleIs DEF
        RecordPoll, Continue
<1>16. ASSUME RecordFlow PROVE MatchInv'
    BY <1>16, ObserveContextIs, EndedIdIs, IdleIs DEF RecordFlow, Continue
<1>17. ASSUME RecordProcess PROVE MatchInv'
    BY <1>17, ObserveContextIs, EndedIdIs, IdleIs DEF RecordProcess, Continue
<1>18. ASSUME RecordEvents PROVE MatchInv'
    BY <1>18, EndedIdIs, EventsMeta, IdleIs DEF RecordEvents, Continue
<1>19. ASSUME NextSession PROVE MatchInv'
    BY <1>19, NoMetaIs DEF NextSession
<1>20. ASSUME Fails PROVE MatchInv'
    BY <1>20, IdleIs, NoMetaIs DEF Fails
<1>21. CASE UNCHANGED watchVars
    BY <1>21
<1>22. QED
    BY <1>1, <1>2, <1>3, <1>4, <1>5, <1>6, <1>7, <1>8, <1>9, <1>10, <1>11, <1>12, <1>13,
        <1>14, <1>15, <1>16, <1>17, <1>18, <1>19, <1>20, <1>21 DEF WatchNext, World, Recorder

(* Every step keeps ProcessInv.                                              *)
LEMMA NextProcessInv == WatchInv /\ [WatchNext]_watchVars => ProcessInv'
<1> SUFFICES ASSUME WatchInv, [WatchNext]_watchVars PROVE ProcessInv'
    OBVIOUS
<1> USE LimitsAssumption DEF WatchTypeOK, CountInv, ProcessInv, Silent, Observed, Least, world,
    recorder, history, watchVars, WatchInv, Watching, Recording
<1>1. ASSUME Loads PROVE ProcessInv'
    BY <1>1 DEF Loads
<1>2. ASSUME Runs PROVE ProcessInv'
    BY <1>2 DEF Runs
<1>3. ASSUME Ends PROVE ProcessInv'
    BY <1>3 DEF Ends
<1>4. ASSUME Closes PROVE ProcessInv'
    BY <1>4, BoundsAre DEF Closes, Timers, Timer
<1>5. ASSUME Leaves PROVE ProcessInv'
  <2>1. at' = at /\ det' = det /\ since' = since /\ sight' = sight /\ stage \in {"closed",
      "lobby"}
      BY <1>5 DEF Leaves
  <2> QED
      BY <2>1
<1>6. ASSUME ClearNotNeeded PROVE ProcessInv'
    BY <1>6 DEF ClearNotNeeded
<1>7. ASSUME ClearPoll PROVE ProcessInv'
    BY <1>7, LiveAnswersAre, AnsweredIs DEF ClearPoll
<1>8. ASSUME Phase PROVE ProcessInv'
    BY <1>8, PhasesAre, WithPhaseIs DEF Phase, PollPhase
<1>9. ASSUME Session PROVE ProcessInv'
    BY <1>9, SessionsAre, UpdatedIs DEF Session
<1>10. ASSUME Live PROVE ProcessInv'
    BY <1>10, LiveAnswersAre, AnsweredIs, WithLiveIs DEF Live, Begin, NoStart
<1>11. ASSUME Grace PROVE ProcessInv'
    BY <1>11, LiveAnswersAre, AnsweredIs, WithLiveIs DEF Grace
<1>12. ASSUME Recheck PROVE ProcessInv'
    BY <1>12, PhasesAre, WithPhaseIs DEF Recheck, PollPhase
<1>13. ASSUME RecheckSession PROVE ProcessInv'
    BY <1>13, WithLiveIs, SessionsAre, UpdatedIs DEF RecheckSession, Begin, NoStart
<1>14. ASSUME StartRecording PROVE ProcessInv'
    BY <1>14, BoundsAre, IdleIs DEF StartRecording
<1>15. ASSUME RecordPoll PROVE ProcessInv'
  <2> SUFFICES ASSUME sight', Silent', at' \in Recording PROVE ProcessInv'
      BY DEF ProcessInv, Silent
  <2>1. Silent /\ at = "record" /\ at' = "flow"
      BY <1>15, AnsweredIs DEF RecordPoll, Silent, Complete, Continue
  <2>2. PICK r \in {"missing", "fail"} :
           /\ since' = since + 1
           /\ sight' = sight
           /\ det' = ObservePoll(AllAged(det), r)
      BY <1>15, <2>1, DeafPoll
  <2>3. det'.proc = Aged(det.proc, ContextGrace)
      BY <2>2, AllAgedIs, ObservePollIs
  <2>4. /\ det'.proc.n = det.proc.n
        /\ det.proc.n > 0 => det'.proc.age = Least(det.proc.age + 1, ContextGrace)
        /\ det.proc \in Timer(ContextGrace)
      BY <2>3, AgedIs DEF Timers
  <2>5. since < SeenGap /\ det.proc.n >= Least(since, Limit)
        /\ (since > 0 => det.proc.n > 0 /\ det.proc.age >= Least(since - 1, ContextGrace))
      BY <2>1, <2>2
  <2> QED
      BY <2>1, <2>2, <2>4, <2>5, BoundsAre DEF Timer
<1>16. ASSUME RecordFlow PROVE ProcessInv'
  <2>1. PICK f :
           /\ IF FlowEnds(ObserveFlow(det, f), f) THEN Complete(FALSE)
              ELSE Continue(IF got THEN "events" ELSE "process", ObserveFlow(det, f))
      BY <1>16 DEF RecordFlow
  <2>2. at' # "post" => det'.proc = det.proc
      BY <2>1, ObserveContextIs DEF Complete, Continue
  <2> QED
      BY <1>16, <2>2 DEF RecordFlow, Complete, Continue
<1>17. ASSUME RecordProcess PROVE ProcessInv'
  <2> SUFFICES ASSUME sight', Silent', at' \in Recording PROVE ProcessInv'
      BY DEF ProcessInv, Silent
  <2>1. Silent /\ sight /\ at = "process" /\ since' = since
      BY <1>17 DEF RecordProcess, Silent
  <2>2. ProcessAnswers = {"no"}
      BY <2>1 DEF ProcessAnswers
  <2>3. at' = "record" /\ det' = ObserveProcess(det, "no") /\ ~ProcessEnds(det', "no")
      BY <1>17, <2>1, <2>2 DEF RecordProcess, Complete, Continue
  <2>4. det'.proc = Counted(det.proc) /\ det.proc \in Timer(ContextGrace)
      BY <2>3, ObserveContextIs DEF Timers
  <2>5. /\ det'.proc.n = Least(det.proc.n + 1, Limit) /\ det'.proc.age = det.proc.age
        /\ det.proc.n \in 0 .. Limit /\ det.proc.age \in 0 .. ContextGrace
      BY <2>4, CountedIs DEF Timer
  <2>6. ~(det'.proc.n = Limit /\ det'.proc.age = ContextGrace)
      BY <2>3 DEF ProcessEnds, Expired
  <2>7. /\ det.proc.n >= Least(Observed, Limit) /\ since <= SeenGap
        /\ Observed > 0 => det.proc.age >= Least(since - 1, ContextGrace)
        /\ Observed = IF since > 0 THEN since - 1 ELSE since
      BY <2>1
  <2>8. det'.proc.n >= Least(since, Limit) /\ (since > 0 => det'.proc.n > 0)
      BY <2>5, <2>7
  <2>9. since > 0 => det'.proc.age >= Least(since - 1, ContextGrace)
      BY <2>5, <2>7
  <2>10. since < SeenGap
      BY <2>5, <2>6, <2>7, <2>8, <2>9, BoundsAre
  <2> QED
      BY <2>1, <2>3, <2>7, <2>8, <2>9, <2>10
<1>18. ASSUME RecordEvents PROVE ProcessInv'
    BY <1>18, BoundsAre DEF RecordEvents, Complete, Continue
<1>19. ASSUME NextSession PROVE ProcessInv'
    BY <1>19, NoMetaIs DEF NextSession
<1>20. ASSUME Fails PROVE ProcessInv'
    BY <1>20, IdleIs, NoMetaIs DEF Fails
<1>21. CASE UNCHANGED watchVars
    BY <1>21
<1>22. QED
    BY <1>1, <1>2, <1>3, <1>4, <1>5, <1>6, <1>7, <1>8, <1>9, <1>10, <1>11, <1>12, <1>13,
        <1>14, <1>15, <1>16, <1>17, <1>18, <1>19, <1>20, <1>21 DEF WatchNext, World, Recorder

(* Every step keeps PollInv.                                                 *)
LEMMA NextPollInv == WatchInv /\ [WatchNext]_watchVars => PollInv'
<1> SUFFICES ASSUME WatchInv, [WatchNext]_watchVars PROVE PollInv'
    OBVIOUS
<1> USE LimitsAssumption DEF WatchTypeOK, CountInv, PollInv, Gap, Silent, Least, world, recorder,
    history, watchVars, WatchInv, Watching, Recording
<1>1. ASSUME Loads PROVE PollInv'
    BY <1>1 DEF Loads
<1>2. ASSUME Runs PROVE PollInv'
    BY <1>2 DEF Runs
<1>3. ASSUME Ends PROVE PollInv'
    BY <1>3 DEF Ends
<1>4. ASSUME Closes PROVE PollInv'
  <2>1. since' = 0 /\ det' = det /\ 0 * FailEnd = 0 /\ det.missing.n \in Nat
        /\ det.temp.n \in Nat /\ FailEnd > 0 /\ Bound >= 0
      BY <1>4, BoundsAre DEF Closes, Timers, Timer
  <2>2. 0 <= det.missing.n * FailEnd
      BY <2>1, BoundsAre, ProductGrows
  <2>3. Gap(0)'
      BY <2>1, <2>2
  <2> QED
      BY <2>1, <2>3
<1>5. ASSUME Leaves PROVE PollInv'
    BY <1>5 DEF Leaves
<1>6. ASSUME ClearNotNeeded PROVE PollInv'
    BY <1>6 DEF ClearNotNeeded
<1>7. ASSUME ClearPoll PROVE PollInv'
    BY <1>7, LiveAnswersAre, AnsweredIs DEF ClearPoll
<1>8. ASSUME Phase PROVE PollInv'
    BY <1>8, PhasesAre, WithPhaseIs DEF Phase, PollPhase
<1>9. ASSUME Session PROVE PollInv'
    BY <1>9, SessionsAre, UpdatedIs DEF Session
<1>10. ASSUME Live PROVE PollInv'
    BY <1>10, LiveAnswersAre, AnsweredIs, WithLiveIs DEF Live, Begin, NoStart
<1>11. ASSUME Grace PROVE PollInv'
    BY <1>11, LiveAnswersAre, AnsweredIs, WithLiveIs DEF Grace
<1>12. ASSUME Recheck PROVE PollInv'
    BY <1>12, PhasesAre, WithPhaseIs DEF Recheck, PollPhase
<1>13. ASSUME RecheckSession PROVE PollInv'
    BY <1>13, WithLiveIs, SessionsAre, UpdatedIs DEF RecheckSession, Begin, NoStart
<1>14. ASSUME StartRecording PROVE PollInv'
  <2>1. since' = 0 /\ det' = Idle
      BY <1>14 DEF StartRecording
  <2>2. 0 * FailEnd = 0 /\ FailEnd > 0 /\ Bound >= 0
      BY BoundsAre
  <2>3. Gap(0)'
      BY <2>1, <2>2, IdleIs
  <2> QED
      BY <2>1, <2>3
<1>15. ASSUME RecordPoll PROVE PollInv'
  <2> SUFFICES ASSUME ~sight', Silent', at' \in Recording PROVE PollInv'
      BY DEF PollInv, Silent
  <2>1. Silent /\ at = "record" /\ at' = "flow" /\ ~sight
      BY <1>15, AnsweredIs DEF RecordPoll, Silent, Complete, Continue
  <2>2. PICK r \in {"missing", "fail"} :
           /\ since' = since + 1
           /\ det' = ObservePoll(AllAged(det), r) /\ ~PollEnds(det', r)
      BY <1>15, <2>1, DeafPoll
  <2>3. PICK q \in 0 .. since : Gap(q)
      BY <2>1
  <2>4. /\ det.missing \in Timer(MissingGrace) /\ det.temp \in Timer(TempGrace)
        /\ AllAged(det).missing = Aged(det.missing, MissingGrace)
        /\ AllAged(det).temp = Aged(det.temp, TempGrace)
        /\ AllAged(det) \in Timers
      BY AllAgedIs DEF Timers
  <2>5. /\ AllAged(det).missing \in Timer(MissingGrace) /\ AllAged(det).missing.n = det.missing.n
        /\ det.missing.n > 0 => AllAged(det).missing.age = Least(det.missing.age + 1,
            MissingGrace)
      BY <2>4, AgedIs
  <2>6. /\ AllAged(det).temp \in Timer(TempGrace) /\ AllAged(det).temp.n = det.temp.n
        /\ det.temp.n > 0 => AllAged(det).temp.age = Least(det.temp.age + 1, TempGrace)
      BY <2>4, AgedIs
  <2>7. CASE r = "fail"
    <3>1. /\ det'.missing = AllAged(det).missing /\ det'.temp = Counted(AllAged(det).temp)
          /\ ~(det'.temp.n = Limit /\ det'.temp.age = TempGrace)
        BY <2>2, <2>4, <2>7, ObservePollIs DEF PollEnds, Expired
    <3>2. /\ det'.temp.n = Least(det.temp.n + 1, Limit) /\ det'.temp.age = AllAged(det).temp.age
          /\ det'.temp.n \in 0 .. Limit /\ det'.temp.age \in 0 .. TempGrace
          /\ det.temp.n \in 0 .. Limit /\ det.temp.age \in 0 .. TempGrace
          /\ det.missing.n \in 0 .. Limit /\ det.missing.age \in 0 .. MissingGrace
        BY <2>4, <2>6, <3>1, CountedIs DEF Timer
    <3>3. det'.temp.n >= Least(since' - q, Limit) /\ det'.temp.n > 0
        BY <2>2, <2>3, <3>2
    <3>4. det'.temp.age >= Least(since' - q - 1, TempGrace)
        BY <2>2, <2>3, <2>6, <3>2
    <3>5. since' - q < FailEnd
        BY <2>2, <3>1, <3>2, <3>3, <3>4, BoundsAre
    <3>6. q > 0 => /\ det'.missing.n > 0
                   /\ det'.missing.age >= Least(since' - FailEnd, MissingGrace)
        BY <2>2, <2>3, <2>5, <3>1, <3>2, BoundsAre
    <3>7. q <= det'.missing.n * FailEnd \/ det'.missing.n = Limit
        BY <2>3, <2>5, <3>1
    <3> QED
        BY <2>2, <2>3, <3>3, <3>4, <3>5, <3>6, <3>7 DEF Gap
  <2>8. CASE r = "missing"
    <3>1. /\ det'.missing = Counted(AllAged(det).missing) /\ det'.temp = Off
          /\ ~(det'.missing.n = Limit /\ det'.missing.age = MissingGrace)
        BY <2>2, <2>4, <2>8, ObservePollIs DEF PollEnds, Expired
    <3>2. /\ det'.missing.n = Least(det.missing.n + 1, Limit)
          /\ det'.missing.age = AllAged(det).missing.age
          /\ det'.missing.n \in 0 .. Limit /\ det'.missing.age \in 0 .. MissingGrace
          /\ det.missing.n \in 0 .. Limit /\ det.missing.age \in 0 .. MissingGrace
        BY <2>4, <2>5, <3>1, CountedIs DEF Timer
    <3>3. det'.temp.n = 0 /\ det'.missing.n > 0
        BY <3>1, <3>2 DEF Off
    <3>4. det'.missing.age >= Least(since' - FailEnd, MissingGrace)
        BY <2>2, <2>3, <2>5, <3>2, BoundsAre
    <3>5. since' <= det'.missing.n * FailEnd \/ det'.missing.n = Limit
      <4>1. CASE det.missing.n < Limit
        <5>1. q <= det.missing.n * FailEnd /\ since' <= q + FailEnd
            BY <2>2, <2>3, <4>1, BoundsAre
        <5>2. det'.missing.n = det.missing.n + 1 /\ det.missing.n \in Nat
            BY <3>2, <4>1
        <5>3. q \in Nat /\ FailEnd \in Nat /\ since' \in Nat
            BY <2>2, BoundsAre
        <5>4. since' <= (det.missing.n + 1) * FailEnd
            BY <5>1, <5>2, <5>3, TurnsAdd
        <5> QED
            BY <5>2, <5>4
      <4>2. CASE det.missing.n = Limit
          BY <3>2, <4>2
      <4> QED
          BY <3>2, <4>1, <4>2
    <3>6. since' <= Bound
      <4>1. CASE det'.missing.n < Limit
        <5>1. det'.missing.n <= Limit - 1 /\ det'.missing.n \in Nat /\ Limit - 1 \in Nat
            BY <3>2, <4>1
        <5>2. det'.missing.n * FailEnd <= (Limit - 1) * FailEnd
              /\ det'.missing.n * FailEnd \in Nat /\ (Limit - 1) * FailEnd \in Nat
            BY <5>1, BoundsAre, ProductGrows
        <5>3. since' <= det'.missing.n * FailEnd /\ since' \in Nat
            BY <2>2, <3>5, <4>1
        <5> HIDE DEF Gap
        <5>4. Bound \in Nat /\ Bound >= (Limit - 1) * FailEnd /\ FailEnd \in Nat
            BY BoundsAre
        <5> QED
            BY <5>1, <5>2, <5>3, <5>4
      <4>2. CASE det'.missing.n = Limit
          BY <2>2, <3>1, <3>2, <3>4, <4>2, BoundsAre
      <4> QED
          BY <3>2, <4>1, <4>2
    <3>7. PICK p \in Nat : p = since' /\ p \in 0 .. since'
        BY <2>2
    <3>8. Gap(p)'
      <4>. FailEnd \in Nat \ {0}
          BY BoundsAre
      <4>1. /\ since' - p = 0 /\ ~(since' > p)
            /\ 0 < FailEnd
            /\ p <= Bound
        <5>1. since' - p = 0 /\ ~(since' > p)
            BY <3>7, NoGap, Zenon
        <5>2. p <= Bound
            BY <3>6, <3>7, Zenon
        <5> QED
            BY <5>1, <5>2
      <4>2. det'.temp.n >= Least(since' - p, Limit)
          BY <3>3, <4>1
      <4>3. p <= det'.missing.n * FailEnd \/ det'.missing.n = Limit
          BY <3>5, <3>7
      <4> QED
          BY <3>3, <3>4, <4>1, <4>2, <4>3
    <3> QED
        BY <3>7, <3>8
  <2> QED
      BY <2>7, <2>8
<1>16. ASSUME RecordFlow PROVE PollInv'
  <2> SUFFICES ASSUME ~sight', Silent', at' \in Recording PROVE PollInv'
      BY DEF PollInv, Silent
  <2>1. /\ since' = since /\ ~sight /\ Silent /\ at \in Recording
        /\ det'.missing = det.missing /\ det'.temp = det.temp
      BY <1>16, ObserveContextIs DEF RecordFlow, Continue, Complete
  <2>2. PICK q \in 0 .. since : Gap(q)
      BY <2>1
  <2>3. Gap(q)'
      BY <2>1, <2>2
  <2> QED
      BY <2>1, <2>3
<1>17. ASSUME RecordProcess PROVE PollInv'
  <2> SUFFICES ASSUME ~sight', Silent', at' \in Recording PROVE PollInv'
      BY DEF PollInv, Silent
  <2>1. /\ since' = since /\ ~sight /\ Silent /\ at \in Recording
        /\ det'.missing = det.missing /\ det'.temp = det.temp
      BY <1>17, ObserveContextIs DEF RecordProcess, Continue, Complete
  <2>2. PICK q \in 0 .. since : Gap(q)
      BY <2>1
  <2>3. Gap(q)'
      BY <2>1, <2>2
  <2> QED
      BY <2>1, <2>3
<1>18. ASSUME RecordEvents PROVE PollInv'
    BY <1>18, EndedIdIs, EventsMeta, IdleIs DEF RecordEvents, Continue
<1>19. ASSUME NextSession PROVE PollInv'
    BY <1>19, NoMetaIs DEF NextSession
<1>20. ASSUME Fails PROVE PollInv'
    BY <1>20, IdleIs, NoMetaIs DEF Fails
<1>21. CASE UNCHANGED watchVars
    BY <1>21
<1>22. QED
    BY <1>1, <1>2, <1>3, <1>4, <1>5, <1>6, <1>7, <1>8, <1>9, <1>10, <1>11, <1>12, <1>13,
        <1>14, <1>15, <1>16, <1>17, <1>18, <1>19, <1>20, <1>21 DEF WatchNext, World, Recorder

(* Every step keeps KnownInv.                                                *)
LEMMA NextKnownInv == WatchInv /\ [WatchNext]_watchVars => KnownInv'
<1> SUFFICES ASSUME WatchInv, [WatchNext]_watchVars PROVE KnownInv'
    OBVIOUS
<1> USE DEF WatchTypeOK, CountInv, KnownInv, world, recorder, history, watchVars, WatchInv,
    Watching, Recording
<1>1. ASSUME Loads PROVE KnownInv'
    BY <1>1 DEF Loads
<1>2. ASSUME Runs PROVE KnownInv'
    BY <1>2 DEF Runs, TftMeta, IsTft
<1>3. ASSUME Ends PROVE KnownInv'
    BY <1>3 DEF Ends, TftMeta, IsTft
<1>4. ASSUME Closes PROVE KnownInv'
    BY <1>4 DEF Closes, TftMeta, IsTft
<1>5. ASSUME Leaves PROVE KnownInv'
    BY <1>5 DEF Leaves
<1>6. ASSUME ClearNotNeeded PROVE KnownInv'
    BY <1>6 DEF ClearNotNeeded
<1>7. ASSUME ClearPoll PROVE KnownInv'
    BY <1>7, LiveAnswersAre, AnsweredIs DEF ClearPoll
<1>8. ASSUME Phase PROVE KnownInv'
  <2>1. PICK f \in Phases \cup WrongPhases :
           meta' = WithPhase(meta, f) /\ known' = (known /\ f # "lobby")
      BY <1>8 DEF Phase, PollPhase
  <2> QED
      BY <1>8, <2>1, TftByPhase DEF Phase, PollPhase, KnownInv, TftMeta
<1>9. ASSUME Session PROVE KnownInv'
  <2>1. PICK a \in Sessions : meta' = Updated(meta, a) /\ Told(a)
      BY <1>9 DEF Session
  <2>2. known' => TftMeta(meta') /\ stage # "lobby"
      BY <2>1, ToldIs, TftBySession
  <2> QED
      BY <1>9, <2>2 DEF Session, TftMeta
<1>10. ASSUME Live PROVE KnownInv'
  <2>1. PICK r \in LiveAnswers :
           LET m == WithLive(meta, r) IN
           /\ Answered(r) /\ meta' = m
           /\ IF r = "game" THEN Told(LiveData) ELSE known' = known
           /\ IF IsTft(m) THEN NoStart("phase") /\ left' = left
              ELSE IF r = "game" THEN Begin /\ left' = left
              ELSE IF m.phase # "start" THEN NoStart("phase") /\ left' = left
              ELSE NoStart(IF Attempts = 1 THEN "recheck" ELSE "grace") /\ left' = Attempts - 1
      BY <1>10 DEF Live
  <2>2. known' => TftMeta(meta') /\ stage # "lobby"
      BY <2>1, TftByPoll
  <2>3. known' => IsTft(meta') /\ at' = "phase"
      BY <2>1, <2>2 DEF TftMeta, NoStart
  <2> QED
      BY <1>10, <2>1, <2>2, <2>3, AnsweredIs DEF Live, TftMeta
<1>11. ASSUME Grace PROVE KnownInv'
  <2>1. PICK r \in LiveAnswers :
           LET m == WithLive(meta, r) IN
           /\ Answered(r) /\ meta' = m
           /\ IF r = "game" THEN Told(LiveData) ELSE known' = known
           /\ held' = (r = "game" /\ ~IsTft(m))
           /\ at' \in {"recheck", "grace"}
      BY <1>11 DEF Grace
  <2>2. known' => TftMeta(meta') /\ stage # "lobby"
      BY <2>1, TftByPoll
  <2>3. known' => ~held'
      BY <2>1, <2>2 DEF TftMeta
  <2> QED
      BY <1>11, <2>1, <2>2, <2>3, AnsweredIs DEF Grace, TftMeta
<1>12. ASSUME Recheck PROVE KnownInv'
  <2>1. PICK f \in Phases \cup WrongPhases :
           meta' = WithPhase(meta, f) /\ known' = (known /\ f # "lobby")
      BY <1>12 DEF Recheck, PollPhase
  <2> QED
      BY <1>12, <2>1, TftByPhase DEF Recheck, PollPhase, KnownInv, TftMeta
<1>13. ASSUME RecheckSession PROVE KnownInv'
  <2> PICK a \in Sessions :
         LET m == WithLive(Updated(meta, a), IF held THEN "game" ELSE "fail") IN
         /\ meta' = m
         /\ Told(a)
         /\ IF ~IsTft(m) /\ (held \/ m.phase = "start") THEN Begin ELSE NoStart("phase")
      BY <1>13 DEF RecheckSession
  <2>1. SUFFICES ASSUME known'
                 PROVE  TftMeta(meta') /\ stage # "lobby"
    <3>1. known' => TftMeta(meta') /\ stage # "lobby"
        BY <2>1
    <3>2. known' => at' = "phase"
        BY <3>1 DEF TftMeta, NoStart
    <3> QED
        BY <1>13, <3>1, <3>2 DEF RecheckSession, TftMeta
  <2>2. IsTft(a) \/ (known /\ ~AnotherId(a))
      BY <2>1, ToldIs
  <2>3. TftMeta(Updated(meta, a)) /\ stage # "lobby" /\ (IsTft(a) => Updated(meta, a).id = match)
      BY <2>2, TftBySession
  <2>4. CASE ~held
      BY <2>3, <2>4, RecheckSessionIs
  <2>5. CASE held
    <3>1. meta' = UpdatedLive(Updated(meta, a), LiveData) /\ IsTft(a)
        BY <1>13, <2>2, <2>5, RecheckSessionIs DEF RecheckSession
    <3>2. Updated(meta, a) \in Metas
        BY SessionsAre, UpdatedIs
    <3> QED
        BY <2>3, <3>1, <3>2, TftByLive, LiveDataIs
  <2> QED
      BY <2>4, <2>5
<1>14. ASSUME StartRecording PROVE KnownInv'
    BY <1>14, IdleIs DEF StartRecording
<1>15. ASSUME RecordPoll PROVE KnownInv'
    BY <1>15, LiveAnswersAre, AnsweredIs, AllAgedIs, ObservePollIs, EndedIdIs, IdleIs DEF
        RecordPoll, Continue
<1>16. ASSUME RecordFlow PROVE KnownInv'
    BY <1>16, ObserveContextIs, EndedIdIs, IdleIs DEF RecordFlow, Continue
<1>17. ASSUME RecordProcess PROVE KnownInv'
    BY <1>17, ObserveContextIs, EndedIdIs, IdleIs DEF RecordProcess, Continue
<1>18. ASSUME RecordEvents PROVE KnownInv'
    BY <1>18, EndedIdIs, EventsMeta, IdleIs DEF RecordEvents, Continue
<1>19. ASSUME NextSession PROVE KnownInv'
    BY <1>19, NoMetaIs DEF NextSession
<1>20. ASSUME Fails PROVE KnownInv'
    BY <1>20, IdleIs, NoMetaIs DEF Fails
<1>21. CASE UNCHANGED watchVars
    BY <1>21 DEF TftMeta, IsTft
<1>22. QED
    BY <1>1, <1>2, <1>3, <1>4, <1>5, <1>6, <1>7, <1>8, <1>9, <1>10, <1>11, <1>12, <1>13,
        <1>14, <1>15, <1>16, <1>17, <1>18, <1>19, <1>20, <1>21 DEF WatchNext, World, Recorder

(* Every step keeps IdInv.                                                   *)
LEMMA NextIdInv == WatchInv /\ [WatchNext]_watchVars => IdInv'
<1> SUFFICES ASSUME WatchInv, [WatchNext]_watchVars PROVE IdInv'
    OBVIOUS
<1> USE LiveDataIs DEF WatchTypeOK, MatchInv, IdInv, world, recorder, history, watchVars,
    WatchInv, Watching, Recording
<1>1. ASSUME Loads PROVE IdInv'
    BY <1>1 DEF Loads
<1>2. ASSUME Runs PROVE IdInv'
    BY <1>2 DEF Runs
<1>3. ASSUME Ends PROVE IdInv'
    BY <1>3 DEF Ends
<1>4. ASSUME Closes PROVE IdInv'
    BY <1>4 DEF Closes
<1>5. ASSUME Leaves PROVE IdInv'
    BY <1>5 DEF Leaves
<1>6. ASSUME ClearNotNeeded PROVE IdInv'
    BY <1>6 DEF ClearNotNeeded
<1>7. ASSUME ClearPoll PROVE IdInv'
    BY <1>7, LiveAnswersAre, AnsweredIs DEF ClearPoll
<1>8. ASSUME Phase PROVE IdInv'
    BY <1>8, PhasesAre, WithPhaseIs DEF Phase, PollPhase
<1>9. ASSUME Session PROVE IdInv'
    BY <1>9, SessionsAre, UpdatedIs DEF Session
<1>10. ASSUME Live PROVE IdInv'
    BY <1>10, LiveAnswersAre, AnsweredIs, WithLiveIs DEF Live, Begin, NoStart
<1>11. ASSUME Grace PROVE IdInv'
    BY <1>11, LiveAnswersAre, AnsweredIs, WithLiveIs DEF Grace
<1>12. ASSUME Recheck PROVE IdInv'
    BY <1>12, PhasesAre, WithPhaseIs DEF Recheck, PollPhase
<1>13. ASSUME RecheckSession PROVE IdInv'
    BY <1>13, WithLiveIs, SessionsAre, UpdatedIs DEF RecheckSession, Begin, NoStart
<1>14. ASSUME StartRecording PROVE IdInv'
    BY <1>14, IdleIs DEF StartRecording
<1>15. ASSUME RecordPoll PROVE IdInv'
    BY <1>15, LiveAnswersAre, AnsweredIs, AllAgedIs, ObservePollIs, EndedIdIs, IdleIs DEF
        RecordPoll, Continue
<1>16. ASSUME RecordFlow PROVE IdInv'
    BY <1>16, ObserveContextIs, EndedIdIs, IdleIs DEF RecordFlow, Continue
<1>17. ASSUME RecordProcess PROVE IdInv'
    BY <1>17, ObserveContextIs, EndedIdIs, IdleIs DEF RecordProcess, Continue
<1>18. ASSUME RecordEvents PROVE IdInv'
    BY <1>18, EndedIdIs, EventsMeta, IdleIs DEF RecordEvents, Continue
<1>19. ASSUME NextSession PROVE IdInv'
    BY <1>19, NoMetaIs DEF NextSession
<1>20. ASSUME Fails PROVE IdInv'
    BY <1>20, IdleIs, NoMetaIs DEF Fails
<1>21. CASE UNCHANGED watchVars
    BY <1>21
<1>22. QED
    BY <1>1, <1>2, <1>3, <1>4, <1>5, <1>6, <1>7, <1>8, <1>9, <1>10, <1>11, <1>12, <1>13,
        <1>14, <1>15, <1>16, <1>17, <1>18, <1>19, <1>20, <1>21 DEF WatchNext, World, Recorder

(* Every step keeps DoneInv.                                                 *)
LEMMA NextDoneInv == WatchInv /\ DoneInv /\ MaxGlitch < Limit /\ [WatchNext]_watchVars => DoneInv'
<1> SUFFICES ASSUME WatchInv /\ DoneInv /\ MaxGlitch < Limit, [WatchNext]_watchVars PROVE DoneInv'
    OBVIOUS
<1> USE LimitsAssumption DEF WatchTypeOK, CountInv, MatchInv, IdInv, DoneInv, world, recorder,
    history, watchVars, WatchInv, Watching, Recording
<1>1. ASSUME Loads PROVE DoneInv'
    BY <1>1 DEF Loads
<1>2. ASSUME Runs PROVE DoneInv'
    BY <1>2 DEF Runs
<1>3. ASSUME Ends PROVE DoneInv'
    BY <1>3 DEF Ends
<1>4. ASSUME Closes PROVE DoneInv'
    BY <1>4 DEF Closes
<1>5. ASSUME Leaves PROVE DoneInv'
    BY <1>5 DEF Leaves
<1>6. ASSUME ClearNotNeeded PROVE DoneInv'
    BY <1>6 DEF ClearNotNeeded
<1>7. ASSUME ClearPoll PROVE DoneInv'
  <2> SUFFICES ASSUME done', ~blind' PROVE DoneInv'
      BY DEF DoneInv
  <2>1. PICK r \in LiveAnswers :
           LET fails == IF r = "fail" THEN left + 1 ELSE 0
               clear == \/ r = "missing"
                        \/ fails >= Limit
                        \/ r = "game" /\ LiveData.id # 0 /\ lastId # 0 /\ LiveData.id # lastId
           IN /\ Answered(r)
              /\ clearFirst' <=> ~clear
              /\ left' = IF clear THEN 0 ELSE fails
              /\ at' = IF clear THEN "phase" ELSE "clear"
      BY <1>7 DEF ClearPoll
  <2>2. done /\ ~blind /\ at = "clear" /\ stage' = stage /\ stage \in {"over", "closed"}
      BY <1>7, <2>1, AnsweredIs DEF ClearPoll
  <2>3. CASE stage = "closed"
      BY <2>1, <2>2, <2>3
  <2>4. CASE stage = "over"
    <3>1. clearFirst /\ (lastId = match \/ ~liveIds) /\ left <= quiet
        BY <2>2, <2>4
    <3>2. ~(r = "game" /\ LiveData.id # 0 /\ lastId # 0 /\ LiveData.id # lastId)
        BY <3>1, LiveDataIs
    <3>3. r # "missing" /\ (r = "fail" => quiet < MaxGlitch)
        BY <2>4, LiveAnswersAre
    <3>4. quiet' = IF r = "fail" THEN quiet + 1 ELSE 0
        BY <2>1, <2>4 DEF Answered
    <3>5. r = "fail" => left + 1 < Limit /\ left + 1 <= quiet'
        BY <3>1, <3>3, <3>4
    <3>6. at' = "clear" /\ clearFirst' /\ left' <= quiet'
      <4>1. CASE r = "fail"
          BY <2>1, <3>2, <3>5, <4>1
      <4>2. CASE r = "game"
        <5>1. 0 < Limit /\ quiet' = 0 /\ r # "fail" /\ r # "missing"
            BY <3>4, <4>2
        <5>2. at' = "clear" /\ clearFirst' /\ left' = 0
            BY <2>1, <3>2, <5>1
        <5> QED
            BY <5>1, <5>2
      <4> QED
          BY <3>3, <4>1, <4>2, LiveAnswersAre
    <3>7. lastId' = lastId /\ match' = match /\ liveIds' = liveIds
        BY <1>7, <2>1, AnsweredIs DEF ClearPoll
    <3> QED
        BY <2>2, <3>1, <3>6, <3>7
  <2> QED
      BY <2>2, <2>3, <2>4
<1>8. ASSUME Phase PROVE DoneInv'
    BY <1>8, PhasesAre, WithPhaseIs DEF Phase, PollPhase
<1>9. ASSUME Session PROVE DoneInv'
    BY <1>9, SessionsAre, UpdatedIs DEF Session
<1>10. ASSUME Live PROVE DoneInv'
  <2> SUFFICES ASSUME done', ~blind' PROVE DoneInv'
      BY DEF DoneInv
  <2>1. PICK r \in LiveAnswers :
           LET m == WithLive(meta, r) IN
           /\ Answered(r)
           /\ IF IsTft(m) THEN NoStart("phase") /\ left' = left
              ELSE IF r = "game" THEN Begin /\ left' = left
              ELSE IF m.phase # "start" THEN NoStart("phase") /\ left' = left
              ELSE NoStart(IF Attempts = 1 THEN "recheck" ELSE "grace") /\ left' = Attempts - 1
      BY <1>10 DEF Live
  <2>2. done /\ ~blind /\ at = "live" /\ ~held'
      BY <1>10, <2>1, BeginIs DEF Live, NoStart
  <2>3. stage = "closed" /\ stage' = stage
      BY <2>1, <2>2, AnsweredIs
  <2>4. r # "game"
      BY <2>3, LiveAnswersAre
  <2>5. lag' = IF lag > 0 THEN lag - 1 ELSE lag
      BY <2>1, <2>3 DEF Answered
  <2>6. \/ at' = "phase"
        \/ at' = "recheck" /\ Attempts = 1
        \/ at' = "grace" /\ left' = Attempts - 1
      BY <2>1, <2>4 DEF NoStart
  <2>7. lag' <= Attempts - 1 /\ lag' \in Nat
      BY <2>5
  <2> QED
      BY <2>2, <2>3, <2>6, <2>7
<1>11. ASSUME Grace PROVE DoneInv'
  <2> SUFFICES ASSUME done', ~blind' PROVE DoneInv'
      BY DEF DoneInv
  <2>1. PICK r \in LiveAnswers :
           LET m == WithLive(meta, r)
               found == r = "game" /\ ~IsTft(m)
               over == found \/ IsTft(m) \/ left = 1
           IN /\ Answered(r)
              /\ held' = found
              /\ left' = IF over THEN 0 ELSE left - 1
              /\ at' = IF over THEN "recheck" ELSE "grace"
      BY <1>11 DEF Grace
  <2>2. done /\ ~blind /\ at = "grace" /\ left > 0 /\ ~IsTft(meta)
      BY <1>11 DEF Grace
  <2>3. stage = "closed" /\ stage' = stage /\ lag <= left
      BY <2>1, <2>2, AnsweredIs
  <2>4. r # "game"
      BY <2>3, LiveAnswersAre
  <2>5. ~IsTft(WithLive(meta, r))
      BY <2>2, <2>4 DEF WithLive
  <2>6. lag' = IF lag > 0 THEN lag - 1 ELSE lag
      BY <2>1, <2>3 DEF Answered
  <2>7. /\ ~held'
        /\ \/ left = 1 /\ at' = "recheck"
           \/ left # 1 /\ at' = "grace" /\ left' = left - 1
      BY <2>1, <2>4, <2>5
  <2> QED
      BY <2>2, <2>3, <2>6, <2>7
<1>12. ASSUME Recheck PROVE DoneInv'
  <2> SUFFICES ASSUME done', ~blind' PROVE DoneInv'
      BY DEF DoneInv
  <2>1. PICK f \in Phases \cup WrongPhases :
           meta' = WithPhase(meta, f) /\ blind' = (blind \/ (done /\ f = "unknown"))
      BY <1>12 DEF Recheck, PollPhase
  <2>2. done /\ ~blind /\ at = "recheck" /\ at' = "recheckSession" /\ f # "unknown"
        /\ held' = held /\ lag' = lag /\ stage' = stage
      BY <1>12, <2>1 DEF Recheck, PollPhase
  <2>3. stage = "closed" /\ lag = 0 /\ ~held
      BY <2>2
  <2>4. f = "ended"
      BY <2>2, <2>3, PhasesAre
  <2>5. meta'.phase = "ended"
      BY <2>1, <2>4, WithPhaseIs
  <2> QED
      BY <2>2, <2>3, <2>5
<1>13. ASSUME RecheckSession PROVE DoneInv'
  <2> SUFFICES ASSUME done', ~blind' PROVE DoneInv'
      BY DEF DoneInv
  <2> PICK a \in Sessions :
         LET m == WithLive(Updated(meta, a), IF held THEN "game" ELSE "fail") IN
         IF ~IsTft(m) /\ (held \/ m.phase = "start") THEN Begin ELSE NoStart("phase")
      BY <1>13 DEF RecheckSession
  <2>1. done /\ ~blind /\ at = "recheckSession" /\ stage' = stage
      BY <1>13, BeginIs DEF RecheckSession, NoStart
  <2>2. stage = "closed" /\ lag = 0 /\ ~held /\ meta.phase = "ended"
      BY <2>1
  <2>3. a.phase \in {"none", "ended"}
      BY <2>2, SessionsAre
  <2>4. WithLive(Updated(meta, a), "fail").phase = "ended"
    <3>1. a \in Metas /\ meta \in Metas
        BY SessionsAre
    <3>2. Updated(meta, a) \in Metas /\ Updated(meta, a).phase = "ended"
        BY <2>2, <2>3, <3>1, UpdatedIs
    <3> QED
        BY <3>2, WithLiveIs
  <2>5. at' = "phase"
      BY <2>2, <2>4 DEF NoStart
  <2> QED
      BY <2>1, <2>2, <2>5
<1>14. ASSUME StartRecording PROVE DoneInv'
    BY <1>14, IdleIs DEF StartRecording
<1>15. ASSUME RecordPoll PROVE DoneInv'
    BY <1>15, LiveAnswersAre, AnsweredIs, AllAgedIs, ObservePollIs, EndedIdIs, IdleIs DEF
        RecordPoll, Continue
<1>16. ASSUME RecordFlow PROVE DoneInv'
    BY <1>16, ObserveContextIs, EndedIdIs, IdleIs DEF RecordFlow, Continue
<1>17. ASSUME RecordProcess PROVE DoneInv'
    BY <1>17, ObserveContextIs, EndedIdIs, IdleIs DEF RecordProcess, Continue
<1>18. ASSUME RecordEvents PROVE DoneInv'
  <2> SUFFICES ASSUME done', ~blind' PROVE DoneInv'
      BY DEF DoneInv
  <2>1. ~done /\ ~blind /\ match' = match /\ stage' = stage /\ liveIds' = liveIds /\ at = "events"
      BY <1>18 DEF RecordEvents
  <2>2. stage = "over" /\ Complete(TRUE)
      BY <1>18, <2>1 DEF RecordEvents
  <2>3. rec = match /\ meta.id \in {0, match}
      BY <2>1, <2>2
  <2>4. meta'.id \in {0, match} /\ (liveIds => meta'.id = match)
      BY <1>18, <2>3, EventsMeta, LiveDataIs
  <2>5. at' = "post" /\ clearFirst' = TRUE
      BY <2>2 DEF Complete
  <2>6. lastId' = match \/ ~liveIds
      BY <2>2, <2>4, LimitsAssumption DEF Complete
  <2> QED
      BY <2>1, <2>2, <2>5, <2>6
<1>19. ASSUME NextSession PROVE DoneInv'
    BY <1>19, NoMetaIs DEF NextSession
<1>20. ASSUME Fails PROVE DoneInv'
    BY <1>20, IdleIs, NoMetaIs DEF Fails
<1>21. CASE UNCHANGED watchVars
    BY <1>21
<1>22. QED
    BY <1>1, <1>2, <1>3, <1>4, <1>5, <1>6, <1>7, <1>8, <1>9, <1>10, <1>11, <1>12, <1>13,
        <1>14, <1>15, <1>16, <1>17, <1>18, <1>19, <1>20, <1>21 DEF WatchNext, World, Recorder

---------------------------------------------------------------------------
LEMMA WatchInitInv == WatchInit => WatchInv /\ DoneInv
<1> SUFFICES ASSUME WatchInit PROVE WatchInv /\ DoneInv
    OBVIOUS
<1>1. WatchTypeOK
  <2>1. match \in 1 .. MaxMatches /\ stage \in {"lobby", "loading", "running", "over", "closed"}
      /\ class \in Modes
      BY LimitsAssumption DEF WatchInit, Most, Watching, Recording
  <2>2. lag \in 0 .. MaxLag /\ quiet \in 0 .. MaxGlitch /\ odd \in 0 .. MaxOdd /\ since \in Nat
      BY LimitsAssumption DEF WatchInit, Most, Watching, Recording
  <2>3. sight \in BOOLEAN /\ liveIds \in BOOLEAN /\ held \in BOOLEAN /\ clearFirst \in BOOLEAN
      BY LimitsAssumption DEF WatchInit, Most, Watching, Recording
  <2>4. at \in {"clear", "starting", "post"} \cup Watching \cup Recording
      BY LimitsAssumption DEF WatchInit, Most, Watching, Recording
  <2>5. meta \in Metas
      BY NoMetaIs DEF WatchInit
  <2>6. left \in 0 .. Most(Limit, Attempts)
      BY LimitsAssumption DEF WatchInit, Most, Watching, Recording
  <2>7. lastId \in 0 .. MaxMatches /\ rec \in 0 .. MaxMatches /\ failed \subseteq 0 .. MaxMatches
      BY LimitsAssumption DEF WatchInit, Most, Watching, Recording
  <2>8. det \in Timers
      BY IdleIs DEF WatchInit
  <2>9. failures \in 0 .. MaxFailures
      BY LimitsAssumption DEF WatchInit, Most, Watching, Recording
  <2>10. got \in BOOLEAN /\ known \in BOOLEAN /\ done \in BOOLEAN /\ blind \in BOOLEAN
      BY LimitsAssumption DEF WatchInit, Most, Watching, Recording
  <2> QED
      BY <2>1, <2>2, <2>3, <2>4, <2>5, <2>6, <2>7, <2>8, <2>9, <2>10 DEF WatchTypeOK
<1>2. CountInv /\ MatchInv /\ ProcessInv /\ PollInv /\ KnownInv /\ IdInv /\ DoneInv
    BY DEF WatchInit, CountInv, MatchInv, ProcessInv, PollInv, KnownInv, IdInv, DoneInv,
       Recording, WatchTypeOK, Silent
<1> QED
    BY <1>1, <1>2 DEF WatchInv

LEMMA WatchNextInv == WatchInv /\ [WatchNext]_watchVars => WatchInv'
    BY NextWatchTypeOK, NextCountInv, NextMatchInv, NextProcessInv, NextPollInv,
       NextKnownInv, NextIdInv DEF WatchInv

(* The invariant behind the theorems below, for every limit, grace, lag and  *)
(* number of matches.                                                        *)
THEOREM WatchInvariance == WatchSpec => []WatchInv
<1>1. WatchInit => WatchInv
    BY WatchInitInv
<1>2. WatchInv /\ [WatchNext]_watchVars => WatchInv'
    BY WatchNextInv
<1> QED
    BY <1>1, <1>2, PTL DEF WatchSpec

(* The variables of the watch keep their types; no clock runs past its grace. *)
THEOREM WatchTypeCorrect == WatchSpec => []WatchTypeOK
<1>1. WatchInv => WatchTypeOK
    BY DEF WatchInv
<1> QED
    BY <1>1, WatchInvariance, PTL

(* A match that any source has called TFT in this session is not recorded,   *)
(* however the answers contradict each other and in whatever order they come. *)
THEOREM TftIsNotRecorded == WatchSpec => []TftNotRecorded
<1>1. WatchInv => TftNotRecorded
    BY DEF WatchInv, WatchTypeOK, KnownInv, TftNotRecorded, Watching
<1> QED
    BY <1>1, WatchInvariance, PTL

(* A recording has ended before the next match loads, whatever the limits and *)
(* graces, with the process list and without.                                *)
THEOREM OneGamePerRecording == WatchSpec => []SpansOneGame
<1>1. WatchInv => SpansOneGame
    BY DEF WatchInv, MatchInv, SpansOneGame
<1> QED
    BY <1>1, WatchInvariance, PTL

(* While a decided game runs on, the Live Client fails fewer times in a row  *)
(* than it takes to call the game clear: then no match whose GameEnd was     *)
(* recorded is recorded again.                                               *)
THEOREM RecordedOnce ==
  ASSUME MaxGlitch < Limit
  PROVE  WatchSpec => []OncePerGame
<1>1. WatchInit => DoneInv
    BY WatchInitInv
<1>2. WatchInv /\ DoneInv /\ [WatchNext]_watchVars => DoneInv'
    BY NextDoneInv
<1>3. DoneInv => OncePerGame
    BY DEF DoneInv, OncePerGame, Watching
<1>4. WatchSpec => []DoneInv
    BY <1>1, <1>2, WatchInvariance, PTL DEF WatchSpec
<1> QED
    BY <1>3, <1>4, PTL

---------------------------------------------------------------------------
(* The match that is played is recorded.                                     *)

(* The ids met so far are those of matches played.                           *)
LastInv == lastId <= match /\ meta.id <= match

(* With ids, metadata that say TFT say so of one match, whose sources do.    *)
Sane(m) == IsTft(m) /\ liveIds =>
             m.id # 0 /\ (m.id = match => class.lcu = "tft" \/ class.live = "tft")
ModeInv == Sane(meta)
MetaInv == LastInv /\ ModeInv

(* Only the wait for the previous game to clear needs it, and a pause fills  *)
(* that wait: every poll of it failed.                                       *)
WaitInv ==
  /\ clearFirst => at \in {"clear", "post"}
  /\ at = "clear" /\ clearFirst => left < Limit /\ (Silent => since <= left)

(* What must be clear is the game before the match that is played.           *)
PostInv ==
  /\ at = "post" /\ clearFirst /\ liveIds => lastId # 0
  /\ /\ clearFirst /\ liveIds /\ ~done /\ match \notin failed
     /\ at = "post" \/ (at = "clear" /\ ~Silent)
     => lastId \notin {0, match}

PlayedInv == MetaInv /\ WaitInv /\ PostInv

(* An answer leaves the metadata or forgets them.                            *)
LEMMA KeptOrForgotten ==
  ASSUME NEW m \in Metas, NEW a \in Metas
  PROVE  /\ Kept(m, a) = m \/ (~IsTft(Kept(m, a)) /\ Kept(m, a).id = 0)
         /\ m.id # 0 /\ a.id # 0 /\ m.id # a.id => ~IsTft(Kept(m, a)) /\ Kept(m, a).id = 0
    BY DEF Kept, NewMatch, NoMeta, IsTft

(* The mode that the LCU gives is its mode of the match.                     *)
LEMMA SessionMode ==
  ASSUME WatchTypeOK, NEW a \in Sessions, IsTft(a)
  PROVE  a.id = match /\ class.lcu = "tft"
    BY DEF Sessions, IsTft, NoMeta

(* Sane metadata stay sane, whatever the sources answer.                     *)
LEMMA SaneBySession ==
  ASSUME WatchTypeOK, NEW m \in Metas, Sane(m), m.id <= match, NEW a \in Sessions
  PROVE  Updated(m, a) \in Metas /\ Sane(Updated(m, a)) /\ Updated(m, a).id <= match
<1>1. a \in Metas /\ a.id \in {0, match} /\ match \in Nat \ {0}
    BY SessionsAre DEF WatchTypeOK
<1>2. /\ Updated(m, a) \in Metas
      /\ Updated(m, a).id = IF a.id = 0 THEN Kept(m, a).id ELSE a.id
      /\ IsTft(Updated(m, a)) <=> IsTft(a) \/ IsTft(Kept(m, a))
    BY <1>1, UpdatedIs
<1>3. Updated(m, a).id <= match
    BY <1>1, <1>2, KeptIs DEF Metas
<1>4. CASE IsTft(a)
    BY <1>1, <1>2, <1>3, <1>4, SessionMode DEF Sane
<1>5. CASE ~IsTft(a) /\ IsTft(Kept(m, a))
  <2>1. Kept(m, a) = m
      BY <1>1, <1>5, KeptOrForgotten
  <2>2. m.id # 0 /\ a.id # 0 => m.id = a.id
      BY <1>1, <1>5, KeptOrForgotten
  <2> QED
      BY <1>1, <1>2, <1>3, <1>5, <2>1, <2>2 DEF Sane
<1>6. CASE ~IsTft(a) /\ ~IsTft(Kept(m, a))
    BY <1>2, <1>3, <1>6 DEF Sane
<1> QED
    BY <1>4, <1>5, <1>6

LEMMA SaneByLive ==
  ASSUME WatchTypeOK, NEW m \in Metas, Sane(m), m.id <= match, NEW r
  PROVE  /\ WithLive(m, r) \in Metas /\ Sane(WithLive(m, r)) /\ WithLive(m, r).id <= match
         /\ r = "game" /\ liveIds /\ class.lcu # "tft" /\ class.live # "tft" =>
              ~IsTft(WithLive(m, r))
<1>1. CASE r # "game"
    BY <1>1 DEF WithLive
<1>2. CASE r = "game"
  <2> DEFINE u == UpdatedLive(m, LiveData)
  <2>1. /\ LiveData \in Metas /\ LiveData.id = (IF liveIds THEN match ELSE 0)
        /\ LiveData.class = class.live /\ match \in Nat \ {0}
      BY LiveDataIs DEF WatchTypeOK
  <2>2. /\ u \in Metas
        /\ u.id = IF Kept(m, LiveData).id = 0 THEN LiveData.id ELSE Kept(m, LiveData).id
        /\ IsTft(u) <=> IsTft(LiveData) \/ IsTft(Kept(m, LiveData))
      BY <2>1, UpdatedLiveIs
  <2>3. Kept(m, LiveData).id \in {0, m.id} /\ m.id \in Nat
      BY <2>1, KeptIs DEF Metas
  <2>4. u.id <= match
      BY <2>1, <2>2, <2>3
  <2>5. ASSUME liveIds, IsTft(u)
        PROVE  u.id # 0 /\ (class.lcu = "tft" \/ class.live = "tft" \/ u.id # match)
    <3>1. CASE IsTft(LiveData)
        BY <2>1, <2>2, <2>3, <2>5, <3>1 DEF IsTft
    <3>2. CASE IsTft(Kept(m, LiveData))
      <4>1. Kept(m, LiveData) = m
          BY <2>1, <3>2, KeptOrForgotten
      <4>2. m.id # 0
          BY <2>5, <3>2, <4>1 DEF Sane
      <4> QED
          BY <2>2, <2>5, <3>2, <4>1, <4>2 DEF Sane
    <3> QED
        BY <2>2, <2>5, <3>1, <3>2
  <2>6. liveIds /\ class.lcu # "tft" /\ class.live # "tft" => ~IsTft(u)
    <3> SUFFICES ASSUME liveIds, class.lcu # "tft", class.live # "tft", IsTft(u) PROVE FALSE
        OBVIOUS
    <3>1. IsTft(Kept(m, LiveData))
        BY <2>1, <2>2 DEF IsTft
    <3>2. Kept(m, LiveData) = m
        BY <2>1, <3>1, KeptOrForgotten
    <3>3. m.id # 0 /\ m.id # match
        BY <3>1, <3>2 DEF Sane
    <3> QED
        BY <2>1, <3>1, <3>3, KeptOrForgotten
  <2> QED
      BY <1>2, <2>2, <2>4, <2>5, <2>6 DEF WithLive, Sane
<1> QED
    BY <1>1, <1>2

LEMMA SaneByPhase ==
  ASSUME WatchTypeOK, NEW m \in Metas, Sane(m), m.id <= match, NEW f \in Phases \cup WrongPhases
  PROVE  WithPhase(m, f) \in Metas /\ Sane(WithPhase(m, f)) /\ WithPhase(m, f).id <= match
<1>1. CASE f = "unknown"
    BY <1>1 DEF WithPhase
<1>2. CASE f # "unknown"
  <2> DEFINE a == [NoMeta EXCEPT !.phase = f]
  <2>1. a \in Metas /\ a.id = 0 /\ a.class = "none" /\ match \in Nat
      BY <1>2, NoMetaIs, PhasesAre DEF NoMeta, WatchTypeOK
  <2>2. /\ Updated(m, a) \in Metas /\ Updated(m, a).id = Kept(m, a).id
        /\ IsTft(Updated(m, a)) <=> IsTft(Kept(m, a))
      BY <2>1, UpdatedIs DEF IsTft
  <2>3. Kept(m, a) = m \/ (~IsTft(Kept(m, a)) /\ Kept(m, a).id = 0)
      BY <2>1, KeptOrForgotten
  <2> QED
      BY <1>2, <2>1, <2>2, <2>3 DEF WithPhase, Sane
<1> QED
    BY <1>1, <1>2

(* A step of the recorder that reads an answer, and one that reads none.     *)
LEMMA SaneStep ==
  ASSUME MetaInv, NEW m, Sane(m), m.id <= match, meta' = m,
         UNCHANGED <<match, class, liveIds, lastId>>
  PROVE  MetaInv'
    BY DEF MetaInv, LastInv, ModeInv, Sane, IsTft

LEMMA SaneSame ==
  ASSUME MetaInv, UNCHANGED <<meta, match, class, liveIds, lastId>>
  PROVE  MetaInv'
    BY DEF MetaInv, LastInv, ModeInv, Sane, IsTft

LEMMA SaneReset ==
  ASSUME WatchTypeOK, MetaInv, meta' = NoMeta, UNCHANGED <<match, class, liveIds>>,
         lastId' \in {lastId, meta.id}
  PROVE  MetaInv'
    BY DEF MetaInv, LastInv, ModeInv, Sane, IsTft, NoMeta, WatchTypeOK

(* The start.                                                                *)
LEMMA InitPlayedInv == WatchInit => PlayedInv
    BY LimitsAssumption DEF WatchInit, PlayedInv, MetaInv, LastInv, ModeInv, Sane, WaitInv,
        PostInv, NoMeta, IsTft

(* Every step keeps MetaInv.                                                *)
LEMMA NextMetaInv == WatchInv /\ PlayedInv /\ [WatchNext]_watchVars => MetaInv'
<1> SUFFICES ASSUME WatchInv, PlayedInv, [WatchNext]_watchVars PROVE MetaInv'
    OBVIOUS
<1> USE LimitsAssumption, LiveDataIs DEF WatchTypeOK, MatchInv, world, recorder, history,
    watchVars, WatchInv, Watching, Recording, PlayedInv
<1>1. ASSUME Loads PROVE MetaInv'
    BY <1>1, SaneSame DEF Loads
<1>2. ASSUME Runs PROVE MetaInv'
    BY <1>2, SaneSame DEF Runs
<1>3. ASSUME Ends PROVE MetaInv'
    BY <1>3, SaneSame DEF Ends
<1>4. ASSUME Closes PROVE MetaInv'
    BY <1>4, SaneSame DEF Closes
<1>5. ASSUME Leaves PROVE MetaInv'
  <2>1. match' = match + 1 /\ UNCHANGED <<meta, lastId, liveIds>>
      BY <1>5 DEF Leaves
  <2>2. meta.id <= match /\ lastId <= match /\ meta.id \in Nat /\ lastId \in Nat
      BY DEF MetaInv, LastInv, Metas
  <2>3. IsTft(meta) /\ liveIds => meta.id # 0
      BY DEF MetaInv, ModeInv, Sane
  <2> QED
      BY <2>1, <2>2, <2>3 DEF MetaInv, LastInv, ModeInv, Sane, IsTft
<1>6. ASSUME ClearNotNeeded PROVE MetaInv'
    BY <1>6, SaneSame DEF ClearNotNeeded
<1>7. ASSUME ClearPoll PROVE MetaInv'
    BY <1>7, LiveAnswersAre, AnsweredIs, SaneSame DEF ClearPoll
<1>8. ASSUME Phase PROVE MetaInv'
  <2>1. PICK f \in Phases \cup WrongPhases : meta' = WithPhase(meta, f)
      BY <1>8 DEF Phase, PollPhase
  <2>2. UNCHANGED <<match, class, liveIds, lastId>>
      BY <1>8 DEF Phase, PollPhase
  <2>3. Sane(WithPhase(meta, f)) /\ WithPhase(meta, f).id <= match
      BY SaneByPhase DEF MetaInv, ModeInv, LastInv
  <2> QED
      BY <2>1, <2>2, <2>3, SaneStep
<1>9. ASSUME Session PROVE MetaInv'
  <2>1. PICK a \in Sessions : meta' = Updated(meta, a)
      BY <1>9 DEF Session
  <2>2. UNCHANGED <<match, class, liveIds, lastId>>
      BY <1>9 DEF Session
  <2>3. Sane(Updated(meta, a)) /\ Updated(meta, a).id <= match
      BY SaneBySession DEF MetaInv, ModeInv, LastInv
  <2> QED
      BY <2>1, <2>2, <2>3, SaneStep
<1>10. ASSUME Live PROVE MetaInv'
  <2>1. PICK r \in LiveAnswers : meta' = WithLive(meta, r) /\ Answered(r)
      BY <1>10 DEF Live
  <2>2. UNCHANGED <<match, class, liveIds, lastId>>
      BY <1>10, <2>1 DEF Live, Answered
  <2>3. Sane(WithLive(meta, r)) /\ WithLive(meta, r).id <= match
      BY SaneByLive DEF MetaInv, ModeInv, LastInv
  <2> QED
      BY <2>1, <2>2, <2>3, SaneStep
<1>11. ASSUME Grace PROVE MetaInv'
  <2>1. PICK r \in LiveAnswers : meta' = WithLive(meta, r) /\ Answered(r)
      BY <1>11 DEF Grace
  <2>2. UNCHANGED <<match, class, liveIds, lastId>>
      BY <1>11, <2>1 DEF Grace, Answered
  <2>3. Sane(WithLive(meta, r)) /\ WithLive(meta, r).id <= match
      BY SaneByLive DEF MetaInv, ModeInv, LastInv
  <2> QED
      BY <2>1, <2>2, <2>3, SaneStep
<1>12. ASSUME Recheck PROVE MetaInv'
  <2>1. PICK f \in Phases \cup WrongPhases : meta' = WithPhase(meta, f)
      BY <1>12 DEF Recheck, PollPhase
  <2>2. UNCHANGED <<match, class, liveIds, lastId>>
      BY <1>12 DEF Recheck, PollPhase
  <2>3. Sane(WithPhase(meta, f)) /\ WithPhase(meta, f).id <= match
      BY SaneByPhase DEF MetaInv, ModeInv, LastInv
  <2> QED
      BY <2>1, <2>2, <2>3, SaneStep
<1>13. ASSUME RecheckSession PROVE MetaInv'
  <2>1. PICK a \in Sessions : meta' = WithLive(Updated(meta, a), IF held THEN "game" ELSE "fail")
      BY <1>13 DEF RecheckSession
  <2>2. UNCHANGED <<match, class, liveIds, lastId>>
      BY <1>13 DEF RecheckSession
  <2>3. Updated(meta, a) \in Metas /\ Sane(Updated(meta, a)) /\ Updated(meta, a).id <= match
      BY SaneBySession DEF MetaInv, ModeInv, LastInv
  <2>4. \A r : Sane(WithLive(Updated(meta, a), r)) /\ WithLive(Updated(meta, a), r).id <= match
      BY <2>3, SaneByLive
  <2> QED
      BY <2>1, <2>2, <2>4, SaneStep
<1>14. ASSUME StartRecording PROVE MetaInv'
    BY <1>14, SaneSame DEF StartRecording
<1>15. ASSUME RecordPoll PROVE MetaInv'
  <2>1. UNCHANGED <<meta, match, class, liveIds>>
      BY <1>15 DEF RecordPoll, Answered
  <2>2. lastId' = lastId
      BY <1>15 DEF RecordPoll, Complete, Continue
  <2> QED
      BY <2>1, <2>2, SaneSame
<1>16. ASSUME RecordFlow PROVE MetaInv'
  <2>1. UNCHANGED <<meta, match, class, liveIds>>
      BY <1>16 DEF RecordFlow
  <2>2. lastId' = lastId
      BY <1>16 DEF RecordFlow, Complete, Continue
  <2> QED
      BY <2>1, <2>2, SaneSame
<1>17. ASSUME RecordProcess PROVE MetaInv'
  <2>1. UNCHANGED <<meta, match, class, liveIds>>
      BY <1>17 DEF RecordProcess
  <2>2. lastId' = lastId
      BY <1>17 DEF RecordProcess, Complete, Continue
  <2> QED
      BY <2>1, <2>2, SaneSame
<1>18. ASSUME RecordEvents PROVE MetaInv'
  <2>1. UNCHANGED <<match, class, liveIds>> /\ match \in Nat \ {0}
      BY <1>18 DEF RecordEvents
  <2>2. /\ meta' \in Metas
        /\ meta'.id = IF meta.id = 0 THEN LiveData.id ELSE meta.id
        /\ IsTft(meta') => IsTft(meta) \/ class.live = "tft"
    <3>1. meta' = [meta EXCEPT !.id = IF @ = 0 THEN LiveData.id ELSE @,
                               !.class = IF @ = "none" THEN LiveData.class ELSE @,
                               !.src = IF @ = "none" THEN "live" ELSE @]
        BY <1>18 DEF RecordEvents
    <3>2. IsTft(meta') => IsTft(meta) \/ class.live = "tft"
        BY <3>1 DEF IsTft, Metas
    <3> QED
        BY <1>18, <3>2, EventsMeta
  <2>3. meta'.id <= match /\ (liveIds => meta'.id # 0) /\ meta'.id \in Nat
      BY <2>1, <2>2 DEF MetaInv, LastInv, Metas
  <2>4. Sane(meta)'
    <3> SUFFICES ASSUME IsTft(meta'), liveIds, meta'.id = match
                 PROVE  class.lcu = "tft" \/ class.live = "tft"
        BY <2>1, <2>3 DEF Sane
    <3>1. CASE IsTft(meta)
        BY <2>2, <3>1 DEF MetaInv, ModeInv, Sane
    <3> QED
        BY <2>2, <3>1
  <2>5. lastId' \in {lastId, meta'.id, LiveData.id}
      BY <1>18 DEF RecordEvents, Complete, Continue
  <2>6. lastId' <= match
      BY <2>1, <2>3, <2>5 DEF MetaInv, LastInv
  <2> QED
      BY <2>1, <2>3, <2>4, <2>6 DEF MetaInv, LastInv, ModeInv
<1>19. ASSUME NextSession PROVE MetaInv'
    BY <1>19, SaneReset DEF NextSession
<1>20. ASSUME Fails PROVE MetaInv'
    BY <1>20, SaneReset DEF Fails
<1>21. CASE UNCHANGED watchVars
    BY <1>21, SaneSame
<1>22. QED
    BY <1>1, <1>2, <1>3, <1>4, <1>5, <1>6, <1>7, <1>8, <1>9, <1>10, <1>11, <1>12, <1>13,
        <1>14, <1>15, <1>16, <1>17, <1>18, <1>19, <1>20, <1>21 DEF WatchNext, World, Recorder

(* Every step keeps WaitInv.                                                *)
LEMMA NextWaitInv == WatchInv /\ PlayedInv /\ [WatchNext]_watchVars => WaitInv'
<1> SUFFICES ASSUME WatchInv, PlayedInv, [WatchNext]_watchVars PROVE WaitInv'
    OBVIOUS
<1> USE LimitsAssumption, LiveDataIs DEF WatchTypeOK, MatchInv, world, recorder, history,
    watchVars, WatchInv, Watching, Recording, PlayedInv, WaitInv, Silent
<1>1. ASSUME Loads PROVE WaitInv'
    BY <1>1 DEF Loads
<1>2. ASSUME Runs PROVE WaitInv'
    BY <1>2 DEF Runs
<1>3. ASSUME Ends PROVE WaitInv'
    BY <1>3 DEF Ends
<1>4. ASSUME Closes PROVE WaitInv'
    BY <1>4 DEF Closes
<1>5. ASSUME Leaves PROVE WaitInv'
    BY <1>5 DEF Leaves
<1>6. ASSUME ClearNotNeeded PROVE WaitInv'
    BY <1>6 DEF ClearNotNeeded
<1>7. ASSUME ClearPoll PROVE WaitInv'
  <2>1. PICK r \in LiveAnswers :
           LET fails == IF r = "fail" THEN left + 1 ELSE 0
               clear == \/ r = "missing"
                        \/ fails >= Limit
                        \/ r = "game" /\ LiveData.id # 0 /\ lastId # 0 /\ LiveData.id # lastId
           IN /\ Answered(r)
              /\ clearFirst' <=> ~clear
              /\ left' = IF clear THEN 0 ELSE fails
              /\ at' = IF clear THEN "phase" ELSE "clear"
      BY <1>7 DEF ClearPoll
  <2>2. at = "clear" /\ clearFirst /\ stage' = stage /\ left \in Nat
      BY <1>7, <2>1, AnsweredIs DEF ClearPoll, Most
  <2>3. CASE at' = "phase"
      BY <2>1, <2>3
  <2>4. CASE at' = "clear"
    <3>1. left' = (IF r = "fail" THEN left + 1 ELSE 0) /\ left' < Limit /\ r # "missing"
        BY <2>1, <2>4
    <3>2. Silent => r = "fail" /\ since' = Least(since + 1, MinGap)
        BY <2>1, <2>2, <3>1, LiveAnswersAre DEF Answered
    <3>3. Silent => since' <= left'
        BY <2>2, <3>1, <3>2, BoundsAre DEF Least
    <3> QED
        BY <2>2, <2>4, <3>1, <3>3
  <2> QED
      BY <2>1, <2>3, <2>4
<1>8. ASSUME Phase PROVE WaitInv'
    BY <1>8, PhasesAre, WithPhaseIs DEF Phase, PollPhase
<1>9. ASSUME Session PROVE WaitInv'
    BY <1>9, SessionsAre, UpdatedIs DEF Session
<1>10. ASSUME Live PROVE WaitInv'
    BY <1>10, LiveAnswersAre, AnsweredIs, WithLiveIs DEF Live, Begin, NoStart
<1>11. ASSUME Grace PROVE WaitInv'
    BY <1>11, LiveAnswersAre, AnsweredIs, WithLiveIs DEF Grace
<1>12. ASSUME Recheck PROVE WaitInv'
    BY <1>12, PhasesAre, WithPhaseIs DEF Recheck, PollPhase
<1>13. ASSUME RecheckSession PROVE WaitInv'
    BY <1>13, WithLiveIs, SessionsAre, UpdatedIs DEF RecheckSession, Begin, NoStart
<1>14. ASSUME StartRecording PROVE WaitInv'
    BY <1>14, IdleIs DEF StartRecording
<1>15. ASSUME RecordPoll PROVE WaitInv'
    BY <1>15, LiveAnswersAre, AnsweredIs, AllAgedIs, ObservePollIs, EndedIdIs, IdleIs DEF
        RecordPoll, Continue
<1>16. ASSUME RecordFlow PROVE WaitInv'
    BY <1>16, ObserveContextIs, EndedIdIs, IdleIs DEF RecordFlow, Continue
<1>17. ASSUME RecordProcess PROVE WaitInv'
    BY <1>17, ObserveContextIs, EndedIdIs, IdleIs DEF RecordProcess, Continue
<1>18. ASSUME RecordEvents PROVE WaitInv'
    BY <1>18, EndedIdIs, EventsMeta, IdleIs DEF RecordEvents, Continue
<1>19. ASSUME NextSession PROVE WaitInv'
    BY <1>19, NoMetaIs DEF NextSession
<1>20. ASSUME Fails PROVE WaitInv'
    BY <1>20, IdleIs, NoMetaIs DEF Fails
<1>21. CASE UNCHANGED watchVars
    BY <1>21
<1>22. QED
    BY <1>1, <1>2, <1>3, <1>4, <1>5, <1>6, <1>7, <1>8, <1>9, <1>10, <1>11, <1>12, <1>13,
        <1>14, <1>15, <1>16, <1>17, <1>18, <1>19, <1>20, <1>21 DEF WatchNext, World, Recorder

(* Every step keeps PostInv.                                                *)
LEMMA NextPostInv == WatchInv /\ PlayedInv /\ [WatchNext]_watchVars => PostInv'
<1> SUFFICES ASSUME WatchInv, PlayedInv, [WatchNext]_watchVars PROVE PostInv'
    OBVIOUS
<1> USE LimitsAssumption, LiveDataIs DEF WatchTypeOK, MatchInv, world, recorder, history,
    watchVars, WatchInv, Watching, Recording, PlayedInv, PostInv, WaitInv, MetaInv, LastInv,
    Silent
<1>1. ASSUME Loads PROVE PostInv'
  <2>1. at = "clear" => ~clearFirst
    <3>1. at = "clear" => since = MinGap /\ Silent
        BY <1>1 DEF Loads
    <3> QED
        BY <3>1, BoundsAre
  <2> QED
      BY <1>1, <2>1 DEF Loads
<1>2. ASSUME Runs PROVE PostInv'
    BY <1>2 DEF Runs
<1>3. ASSUME Ends PROVE PostInv'
    BY <1>3 DEF Ends
<1>4. ASSUME Closes PROVE PostInv'
    BY <1>4 DEF Closes
<1>5. ASSUME Leaves PROVE PostInv'
  <2>1. match' = match + 1 /\ UNCHANGED <<at, clearFirst, lastId, liveIds>> /\ stage' = "lobby"
      BY <1>5 DEF Leaves
  <2>2. lastId <= match /\ lastId \in Nat /\ match \in Nat
      OBVIOUS
  <2> QED
      BY <2>1, <2>2
<1>6. ASSUME ClearNotNeeded PROVE PostInv'
    BY <1>6 DEF ClearNotNeeded
<1>7. ASSUME ClearPoll PROVE PostInv'
  <2>1. at = "clear" /\ clearFirst /\ UNCHANGED <<stage, match, liveIds, lastId, done, failed>>
      BY <1>7, AnsweredIs DEF ClearPoll
  <2>2. at' \in {"clear", "phase"}
      BY <1>7 DEF ClearPoll
  <2> QED
      BY <2>1, <2>2
<1>8. ASSUME Phase PROVE PostInv'
    BY <1>8, PhasesAre, WithPhaseIs DEF Phase, PollPhase
<1>9. ASSUME Session PROVE PostInv'
    BY <1>9, SessionsAre, UpdatedIs DEF Session
<1>10. ASSUME Live PROVE PostInv'
    BY <1>10, LiveAnswersAre, AnsweredIs, WithLiveIs DEF Live, Begin, NoStart
<1>11. ASSUME Grace PROVE PostInv'
    BY <1>11, LiveAnswersAre, AnsweredIs, WithLiveIs DEF Grace
<1>12. ASSUME Recheck PROVE PostInv'
    BY <1>12, PhasesAre, WithPhaseIs DEF Recheck, PollPhase
<1>13. ASSUME RecheckSession PROVE PostInv'
    BY <1>13, WithLiveIs, SessionsAre, UpdatedIs DEF RecheckSession, Begin, NoStart
<1>14. ASSUME StartRecording PROVE PostInv'
    BY <1>14, IdleIs DEF StartRecording
<1>15. ASSUME RecordPoll PROVE PostInv'
    BY <1>15, LiveAnswersAre, AnsweredIs, AllAgedIs, ObservePollIs, EndedIdIs, IdleIs DEF
        RecordPoll, Continue
<1>16. ASSUME RecordFlow PROVE PostInv'
    BY <1>16, ObserveContextIs, EndedIdIs, IdleIs DEF RecordFlow, Continue
<1>17. ASSUME RecordProcess PROVE PostInv'
    BY <1>17, ObserveContextIs, EndedIdIs, IdleIs DEF RecordProcess, Continue
<1>18. ASSUME RecordEvents PROVE PostInv'
  <2>1. /\ meta' \in Metas /\ meta'.id = (IF meta.id = 0 THEN LiveData.id ELSE meta.id)
        /\ LiveData.id = (IF liveIds THEN match ELSE 0) /\ match # 0
      BY <1>18, EventsMeta
  <2>2. \/ at' = "post" /\ clearFirst' /\ done' /\ (liveIds => lastId' # 0)
        \/ at' = "record"
    <3>1. PICK gameEnd \in BOOLEAN :
            /\ IF gameEnd THEN Complete(TRUE) ELSE Continue("record", det)
            /\ gameEnd => done'
        BY <1>18 DEF RecordEvents
    <3>2. CASE gameEnd
        BY <2>1, <3>1, <3>2, EndedIdIs
    <3>3. CASE ~gameEnd
        BY <3>1, <3>3 DEF Continue
    <3> QED
        BY <3>2, <3>3
  <2> QED
      BY <1>18, <2>2 DEF RecordEvents
<1>19. ASSUME NextSession PROVE PostInv'
    BY <1>19, NoMetaIs DEF NextSession
<1>20. ASSUME Fails PROVE PostInv'
  <2>1. at' = "clear" /\ stage' = stage /\ match' = match /\ failed' = failed \cup {rec}
      BY <1>20 DEF Fails
  <2>2. at \in {"starting", "record"}
      BY <1>20 DEF Fails
  <2>3. ~Silent => rec = match
      BY <2>2
  <2> QED
      BY <2>1, <2>3
<1>21. CASE UNCHANGED watchVars
    BY <1>21
<1>22. QED
    BY <1>1, <1>2, <1>3, <1>4, <1>5, <1>6, <1>7, <1>8, <1>9, <1>10, <1>11, <1>12, <1>13,
        <1>14, <1>15, <1>16, <1>17, <1>18, <1>19, <1>20, <1>21 DEF WatchNext, World, Recorder

(* What the unanswered polls of a running game cost.                         *)
LEMMA PollCosts ==
  ASSUME WatchTypeOK, stage = "running", NEW r \in LiveAnswers, Answered(r)
  PROVE  /\ r \in {"game", "fail"} /\ quiet \in 0 .. MaxGlitch
         /\ r = "game" => quiet' = 0
         /\ r = "fail" => quiet' = quiet + 1 /\ quiet < MaxGlitch
         /\ UNCHANGED <<match, liveIds, class, stage>>
    BY LiveAnswersAre DEF Answered, WatchTypeOK

(* Each step of the recorder brings the recording of a played match nearer.  *)
LEMMA RecorderCountsDown ==
  ASSUME WatchInv, PlayedInv, Recorder, Played, rec # match, rec' # match
  PROVE  TurnsLeft' < TurnsLeft
<1>1. /\ WatchTypeOK /\ stage = "running" /\ liveIds /\ ~done /\ match \notin failed
      /\ class.lcu # "tft" /\ class.live # "tft"
    BY DEF WatchInv, Played
<1>2. at \notin Recording \cup {"starting"}
    BY <1>1 DEF WatchInv, MatchInv
<1>3. quiet \in Nat /\ quiet <= MaxGlitch /\ MaxGlitch \in Nat
    BY <1>1, LimitsAssumption DEF WatchTypeOK
<1>4. meta \in Metas /\ Sane(meta) /\ meta.id <= match
    BY <1>1 DEF WatchTypeOK, PlayedInv, MetaInv, LastInv, ModeInv
<1>5. CASE ClearNotNeeded
  <2>1. at = "clear" /\ at' = "phase" /\ quiet' = quiet
      BY <1>5 DEF ClearNotNeeded, world
  <2> QED
      BY <1>3, <2>1 DEF TurnsLeft
<1>6. CASE ClearPoll
  <2>1. PICK r \in LiveAnswers :
           LET fails == IF r = "fail" THEN left + 1 ELSE 0
               clear == \/ r = "missing"
                        \/ fails >= Limit
                        \/ r = "game" /\ LiveData.id # 0 /\ lastId # 0 /\ LiveData.id # lastId
           IN Answered(r) /\ at' = IF clear THEN "phase" ELSE "clear"
      BY <1>6 DEF ClearPoll
  <2>2. at = "clear" /\ clearFirst
      BY <1>6 DEF ClearPoll
  <2>3. /\ r \in {"game", "fail"} /\ (r = "game" => quiet' = 0)
        /\ r = "fail" => quiet' = quiet + 1 /\ quiet < MaxGlitch
      BY <1>1, <2>1, PollCosts
  <2>4. lastId \notin {0, match} /\ LiveData.id = match /\ match # 0
      BY <1>1, <2>2, LiveDataIs DEF PlayedInv, PostInv, Silent, WatchTypeOK
  <2>5. CASE r = "game"
    <3>1. at' = "phase" /\ quiet' = 0
        BY <2>1, <2>3, <2>4, <2>5
    <3> QED
        BY <1>3, <2>2, <3>1 DEF TurnsLeft
  <2>6. CASE r = "fail"
    <3>1. at' \in {"phase", "clear"} /\ quiet' = quiet + 1 /\ quiet < MaxGlitch
        BY <2>1, <2>3, <2>6
    <3> QED
        BY <1>3, <2>2, <3>1 DEF TurnsLeft
  <2> QED
      BY <2>3, <2>5, <2>6
<1>7. CASE Phase \/ Session
  <2>1. /\ (at = "phase" /\ at' = "session") \/ (at = "session" /\ at' = "live")
        /\ quiet' = quiet
      BY <1>7 DEF Phase, PollPhase, Session, world
  <2> QED
      BY <1>3, <2>1 DEF TurnsLeft
<1>8. CASE Live
  <2>1. PICK r \in LiveAnswers :
           LET m == WithLive(meta, r) IN
           /\ Answered(r) /\ ~held'
           /\ IF IsTft(m) THEN NoStart("phase")
              ELSE IF r = "game" THEN Begin
              ELSE IF m.phase # "start" THEN NoStart("phase")
              ELSE NoStart(IF Attempts = 1 THEN "recheck" ELSE "grace")
      BY <1>8 DEF Live
  <2>2. at = "live"
      BY <1>8 DEF Live
  <2>3. /\ r \in {"game", "fail"}
        /\ r = "fail" => quiet' = quiet + 1 /\ quiet < MaxGlitch
      BY <1>1, <2>1, PollCosts
  <2>4. r # "game"
    <3>1. r = "game" => ~IsTft(WithLive(meta, r))
        BY <1>1, <1>4, SaneByLive
    <3> QED
        BY <2>1, <3>1 DEF Begin
  <2>5. at' \in {"phase", "recheck", "grace"} /\ ~held'
      BY <2>1, <2>4 DEF NoStart
  <2> QED
      BY <1>3, <2>2, <2>3, <2>4, <2>5 DEF TurnsLeft
<1>9. CASE Grace
  <2>1. PICK r \in LiveAnswers :
           LET m == WithLive(meta, r)
               found == r = "game" /\ ~IsTft(m)
               over == found \/ IsTft(m) \/ left = 1
           IN /\ Answered(r)
              /\ held' <=> found
              /\ at' = IF over THEN "recheck" ELSE "grace"
      BY <1>9 DEF Grace
  <2>2. at = "grace"
      BY <1>9 DEF Grace
  <2>3. /\ r \in {"game", "fail"} /\ (r = "game" => quiet' = 0)
        /\ r = "fail" => quiet' = quiet + 1 /\ quiet < MaxGlitch
      BY <1>1, <2>1, PollCosts
  <2>4. CASE r = "game"
    <3>1. ~IsTft(WithLive(meta, r))
        BY <1>1, <1>4, <2>4, SaneByLive
    <3>2. at' = "recheck" /\ held'
        BY <2>1, <2>4, <3>1
    <3> QED
        BY <1>3, <2>2, <3>2 DEF TurnsLeft
  <2>5. CASE r = "fail"
    <3>1. at' \in {"recheck", "grace"} /\ ~held'
        BY <2>1, <2>5
    <3> QED
        BY <1>3, <2>2, <2>3, <2>5, <3>1 DEF TurnsLeft
  <2> QED
      BY <2>3, <2>4, <2>5
<1>10. CASE Recheck
  <2>1. at = "recheck" /\ at' = "recheckSession" /\ quiet' = quiet /\ held' = held
      BY <1>10 DEF Recheck, PollPhase, world
  <2> QED
      BY <1>3, <2>1 DEF TurnsLeft
<1>11. CASE RecheckSession
  <2>1. PICK a \in Sessions :
           LET m == WithLive(Updated(meta, a), IF held THEN "game" ELSE "fail") IN
           IF ~IsTft(m) /\ (held \/ m.phase = "start") THEN Begin ELSE NoStart("phase")
      BY <1>11 DEF RecheckSession
  <2>2. at = "recheckSession" /\ quiet' = quiet
      BY <1>11 DEF RecheckSession, world
  <2>3. Updated(meta, a) \in Metas /\ Sane(Updated(meta, a)) /\ Updated(meta, a).id <= match
      BY <1>1, <1>4, SaneBySession
  <2>4. held => ~IsTft(WithLive(Updated(meta, a), IF held THEN "game" ELSE "fail"))
      BY <1>1, <2>3, SaneByLive
  <2>5. ~held /\ at' = "phase"
      BY <2>1, <2>4 DEF Begin, NoStart
  <2> QED
      BY <1>3, <2>2, <2>5 DEF TurnsLeft
<1>12. CASE StartRecording \/ RecordPoll \/ RecordFlow \/ RecordProcess \/ RecordEvents
    BY <1>2, <1>12 DEF StartRecording, RecordPoll, RecordFlow, RecordProcess, RecordEvents,
        Recording
<1>13. CASE NextSession
  <2>1. at = "post" /\ at' = "clear" /\ quiet' = quiet
      BY <1>13 DEF NextSession
  <2> QED
      BY <1>3, <2>1 DEF TurnsLeft
<1> QED
    BY <1>5, <1>6, <1>7, <1>8, <1>9, <1>10, <1>11, <1>12, <1>13 DEF Recorder

(* A match that is played, and that its sources agree is none of TFT, is     *)
(* recorded after at most 12 * MaxGlitch + 7 steps of the recorder, wherever *)
(* the recorder stands and whatever its sources answer.                      *)
THEOREM PlayedIsCounted == WatchSpec => PlayedCountsDown
<1>1. WatchInv /\ PlayedInv /\ [WatchNext]_watchVars => PlayedInv'
    BY NextMetaInv, NextWaitInv, NextPostInv DEF PlayedInv
<1>2. WatchInv /\ PlayedInv /\ [WatchNext]_watchVars =>
        [Recorder /\ Played /\ rec # match /\ rec' # match => TurnsLeft' < TurnsLeft]_watchVars
    BY RecorderCountsDown
<1> QED
    BY <1>1, <1>2, InitPlayedInv, WatchInvariance, PTL DEF WatchSpec, PlayedCountsDown

=============================================================================
