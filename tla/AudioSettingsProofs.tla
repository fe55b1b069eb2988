------------------------- MODULE AudioSettingsProofs -------------------------
(***************************************************************************)
(* Proofs about AudioSettings, for any set of microphones, any number of   *)
(* changes and any number of visits to the page.                           *)
(***************************************************************************)
EXTENDS AudioSettings, TLAPS

WorkType == [kind : Kinds, live : BOOLEAN, mic : Mics, at : At, owns : BOOLEAN, ok : BOOLEAN]

Held     == {"open", "act", "save", "close"}
Owner    == {"profile", "watching", "recording", "closing"}
Starting == {"loading", "checking", "opening", "launching", "profile"}

FlagType ==
    /\ audioOnly \in BOOLEAN /\ timer \in BOOLEAN /\ pending \in BOOLEAN
    /\ stopping \in BOOLEAN /\ obs \in BOOLEAN /\ raced \in BOOLEAN

DataType ==
    /\ page \in {"home", "opening", "settings"} /\ rec \in Recorder
    /\ choice \in Mics /\ saved \in Mics /\ recMic \in Mics /\ obsMic \in Mics
    /\ failed \subseteq {"file", "obs"}
    /\ choices \in 0 .. MaxChoices /\ visits \in 0 .. MaxVisits

LockInv ==
    /\ lock \in {"none", "worker", "recorder"}
    /\ lock = "recorder" <=> rec = "launching"
    /\ lock = "worker" <=> work.at \in Held

(* The recorder's OBS runs, and the worker does not own it.                 *)
ObsInv ==
    /\ rec \in Owner \union {"launching"} => obs
    /\ work.owns => work.at \in {"act", "save", "close", "done"}
    /\ work.owns /\ work.at # "done" => rec \notin Owner

(* The page and its worker.                                                 *)
PageInv ==
    /\ pending => Busy
    /\ page = "settings" /\ ~audioOnly => rec = "off"
    /\ work.live => work.kind \in {"refresh", "apply"} /\ work.at # "prepare"
    /\ work.at = "save" => work.kind \in {"apply", "setup"}

(* Unless the window came out of the tray, the recorder starts only when    *)
(* the page is quiet, and only live workers run beside it.                  *)
QuietInv ==
    ~raced =>
      /\ ~audioOnly /\ ~Quiet => rec = "off"
      /\ Busy /\ ~work.live => rec = "off"
      /\ rec \in Starting => Quiet /\ page # "settings"
      /\ rec \in Starting \ {"loading"} => recMic = saved

(* What is not yet saved is held back, pending or on its way.               *)
InFlight == work.kind = "apply" /\ work.at \in {"prepare", "wait", "open", "act", "save"}
Carries  == \/ work.kind = "setup" /\ work.at \in {"wait", "open", "act", "save"}
            \/ work.kind # "apply" /\ work.at = "prepare"
FileInv ==
    /\ InFlight /\ ~timer /\ ~pending => work.mic = choice
    /\ ~raced /\ "file" \notin failed =>
         /\ ~InFlight /\ ~timer /\ ~pending => choice = saved
         /\ Carries => work.mic = saved

(* The recorder's OBS uses what is saved, or what is being saved.           *)
MicInv ==
    ~raced /\ "obs" \notin failed /\ rec \in {"watching", "recording"} =>
       obsMic = IF work.at = "save" THEN work.mic ELSE saved

StateInv == ObsInv /\ PageInv /\ QuietInv /\ FileInv /\ MicInv
WorkInv == work \in WorkType
Types == FlagType /\ DataType /\ WorkInv /\ LockInv
IInv == Types /\ StateInv

(* The types of the proofs and of the specification are the same.           *)
LEMMA TypesAgree == Types <=> TypeOK /\ lock \in {"none", "worker", "recorder"}
  BY DEF Types, TypeOK, FlagType, DataType, WorkInv, LockInv, WorkType, Held

-----------------------------------------------------------------------------
(* The workers that start, step and fail.                                   *)
LEMMA NoWorkType ==
    NoWork \in WorkType /\ NoWork.at = "none" /\ NoWork.owns = FALSE /\ NoWork.live = FALSE
      /\ NoWork.kind = "refresh"
<1>1. (CHOOSE m \in Mics : TRUE) \in Mics
  BY AudioAssumption
<1>2. QED
  BY <1>1 DEF NoWork, WorkType, Kinds, At

(* A worker started by the page.                                            *)
LEMMA BeginIs ==
    ASSUME NEW kind \in Kinds, NEW mic \in Mics, audioOnly \in BOOLEAN, Begin(kind, mic)
    PROVE  /\ work' \in WorkType
           /\ work'.kind = kind /\ work'.mic = mic /\ work'.owns = FALSE
           /\ work'.live <=> audioOnly /\ kind \in {"refresh", "apply"}
           /\ work'.at = IF audioOnly /\ kind \in {"refresh", "apply"} THEN "wait" ELSE "prepare"
  BY NoWorkType DEF Begin, WorkType, Kinds, At

(* A worker that takes a step changes nothing else of itself.               *)
LEMMA GoToIs ==
    ASSUME work \in WorkType, NEW at \in At, GoTo(at)
    PROVE  /\ work' \in WorkType
           /\ work'.at = at /\ work'.kind = work.kind /\ work'.mic = work.mic
           /\ work'.owns = work.owns /\ work'.live = work.live
  BY DEF GoTo, WorkType

(* A worker that fails, too.                                                *)
LEMMA FailsIs ==
    ASSUME work \in WorkType, Fails
    PROVE  /\ work' \in WorkType
           /\ work'.at = IF work.at \in {"prepare", "wait"} THEN "done" ELSE "close"
           /\ work'.kind = work.kind /\ work'.mic = work.mic
           /\ work'.owns = work.owns /\ work'.live = work.live
           /\ "file" \in failed' <=> "file" \in failed \/ work.kind = "apply"
           /\ "obs" \in failed' <=> "obs" \in failed \/ work.at \in {"act", "save"}
           /\ failed \subseteq {"file", "obs"} => failed' \subseteq {"file", "obs"}
<1>1. work' \in WorkType
  BY DEF Fails, WorkType, At
<1>2. /\ work'.at = IF work.at \in {"prepare", "wait"} THEN "done" ELSE "close"
      /\ work'.kind = work.kind /\ work'.mic = work.mic
      /\ work'.owns = work.owns /\ work'.live = work.live
  BY DEF Fails, WorkType
<1>3. /\ "file" \in failed' <=> "file" \in failed \/ work.kind = "apply"
      /\ "obs" \in failed' <=> "obs" \in failed \/ work.at \in {"act", "save"}
      /\ failed \subseteq {"file", "obs"} => failed' \subseteq {"file", "obs"}
  BY DEF Fails
<1>4. QED
  BY <1>1, <1>2, <1>3

(* A look at the devices, live or before the page is shown.                 *)
LEMMA RefreshIs ==
    /\ [NoWork EXCEPT !.kind = "refresh", !.live = TRUE, !.at = "wait"] \in WorkType
    /\ \A mic \in Mics :
          [NoWork EXCEPT !.kind = "refresh", !.mic = mic, !.at = "prepare"] \in WorkType
  BY NoWorkType DEF WorkType, Kinds, At

-----------------------------------------------------------------------------
(* The start.                                                               *)
LEMMA InitIInv == Init => IInv
<1> SUFFICES ASSUME Init PROVE IInv
  OBVIOUS
<1>1. FlagType
  BY DEF Init, FlagType
<1>2. DataType
  BY AudioAssumption DEF Init, DataType, Recorder
<1>3. WorkInv /\ LockInv
  BY NoWorkType DEF Init, WorkInv, LockInv, Held
<1>4. StateInv
  BY NoWorkType DEF Init, StateInv, ObsInv, PageInv, QuietInv, FileInv, MicInv, InFlight, Carries,
     Owner, Starting, Quiet, Busy
<1>5. QED
  BY <1>1, <1>2, <1>3, <1>4 DEF IInv, Types

(* Every step keeps FlagType.                                               *)
LEMMA NextFlagType == Types /\ [Next]_vars => FlagType'
<1> SUFFICES ASSUME Types, [Next]_vars PROVE FlagType'
  OBVIOUS
<1> USE AudioAssumption DEF Busy, Exclusive, Types, FlagType, DataType, WorkInv, LockInv, Held,
    Recorder, WorkType, Kinds, At, pageVars, recVars, obsVars, workOnly, recOnly, vars
<1>1. CASE OpenSettings
  BY <1>1, NoWorkType DEF OpenSettings
<1>2. CASE GiveUp
  BY <1>2 DEF GiveUp
<1>3. CASE Save
  BY <1>3, BeginIs DEF Save
<1>4. CASE Reset
  BY <1>4 DEF Reset
<1>5. CASE Back
  BY <1>5 DEF Back, GoHome
<1>6. CASE RestoreFromTray
  BY <1>6 DEF RestoreFromTray, GoHome
<1>7. ASSUME NEW m \in Mics, Choose(m) PROVE FlagType'
  BY <1>7 DEF Choose
<1>8. ASSUME NEW kind \in {"preflight", "setup"}, Check(kind) PROVE FlagType'
  <2>1. kind \in Kinds
    BY <1>8 DEF Kinds
  <2>2. QED
    BY <1>8, <2>1, BeginIs DEF Check
<1>9. CASE TimerFires
  BY <1>9, BeginIs DEF TimerFires, Apply
<1>10. CASE Finish
  BY <1>10, BeginIs, NoWorkType DEF Finish
<1>11. CASE ShowPage
  BY <1>11, NoWorkType DEF ShowPage
<1>12. CASE Prepare
  BY <1>12, GoToIs, FailsIs DEF Prepare
<1>13. CASE TakeLock
  BY <1>13, GoToIs DEF TakeLock
<1>14. CASE Open
  BY <1>14, GoToIs DEF Open
<1>15. CASE Act
  BY <1>15, GoToIs DEF Act, Created
<1>16. CASE SaveWork
  BY <1>16, GoToIs DEF SaveWork
<1>17. CASE WorkFails
  BY <1>17, FailsIs DEF WorkFails
<1>18. CASE CloseWork
  BY <1>18, GoToIs DEF CloseWork
<1>19. CASE LoadSettings
  BY <1>19 DEF LoadSettings
<1>20. CASE Preflight
  BY <1>20 DEF Preflight
<1>21. CASE OpenRecorder
  BY <1>21 DEF OpenRecorder
<1>22. CASE Opened
  BY <1>22 DEF Opened
<1>23. CASE ApplyProfile
  BY <1>23 DEF ApplyProfile
<1>24. CASE BeginRecording
  BY <1>24 DEF BeginRecording
<1>25. CASE FinishRecording
  BY <1>25 DEF FinishRecording
<1>26. CASE Stops
  BY <1>26 DEF Stops
<1>27. CASE CloseRecorder
  BY <1>27 DEF CloseRecorder
<1>28. CASE UNCHANGED vars
  BY <1>28
<1>29. QED
  BY <1>1, <1>2, <1>3, <1>4, <1>5, <1>6, <1>7, <1>8, <1>9, <1>10, <1>11, <1>12, <1>13, <1>14,
      <1>15, <1>16, <1>17, <1>18, <1>19, <1>20, <1>21, <1>22, <1>23, <1>24, <1>25, <1>26, <1>27,
      <1>28 DEF Next, PageStep, WorkStep, RecorderStep

(* Every step keeps DataType.                                               *)
LEMMA NextDataType == Types /\ [Next]_vars => DataType'
<1> SUFFICES ASSUME Types, [Next]_vars PROVE DataType'
  OBVIOUS
<1> USE AudioAssumption DEF Busy, Exclusive, Types, FlagType, DataType, WorkInv, LockInv, Held,
    Recorder, WorkType, Kinds, At, pageVars, recVars, obsVars, workOnly, recOnly, vars
<1>1. CASE OpenSettings
  BY <1>1, NoWorkType DEF OpenSettings
<1>2. CASE GiveUp
  BY <1>2 DEF GiveUp
<1>3. CASE Save
  BY <1>3, BeginIs DEF Save
<1>4. CASE Reset
  BY <1>4 DEF Reset
<1>5. CASE Back
  BY <1>5 DEF Back, GoHome
<1>6. CASE RestoreFromTray
  BY <1>6 DEF RestoreFromTray, GoHome
<1>7. ASSUME NEW m \in Mics, Choose(m) PROVE DataType'
  BY <1>7 DEF Choose
<1>8. ASSUME NEW kind \in {"preflight", "setup"}, Check(kind) PROVE DataType'
  <2>1. kind \in Kinds
    BY <1>8 DEF Kinds
  <2>2. QED
    BY <1>8, <2>1, BeginIs DEF Check
<1>9. CASE TimerFires
  BY <1>9, BeginIs DEF TimerFires, Apply
<1>10. CASE Finish
  BY <1>10, BeginIs, NoWorkType DEF Finish
<1>11. CASE ShowPage
  BY <1>11, NoWorkType DEF ShowPage
<1>12. CASE Prepare
  BY <1>12, GoToIs, FailsIs DEF Prepare
<1>13. CASE TakeLock
  BY <1>13, GoToIs DEF TakeLock
<1>14. CASE Open
  BY <1>14, GoToIs DEF Open
<1>15. CASE Act
  BY <1>15, GoToIs DEF Act, Created
<1>16. CASE SaveWork
  BY <1>16, GoToIs DEF SaveWork
<1>17. CASE WorkFails
  BY <1>17, FailsIs DEF WorkFails
<1>18. CASE CloseWork
  BY <1>18, GoToIs DEF CloseWork
<1>19. CASE LoadSettings
  BY <1>19 DEF LoadSettings
<1>20. CASE Preflight
  BY <1>20 DEF Preflight
<1>21. CASE OpenRecorder
  BY <1>21 DEF OpenRecorder
<1>22. CASE Opened
  BY <1>22 DEF Opened
<1>23. CASE ApplyProfile
  BY <1>23 DEF ApplyProfile
<1>24. CASE BeginRecording
  BY <1>24 DEF BeginRecording
<1>25. CASE FinishRecording
  BY <1>25 DEF FinishRecording
<1>26. CASE Stops
  BY <1>26 DEF Stops
<1>27. CASE CloseRecorder
  BY <1>27 DEF CloseRecorder
<1>28. CASE UNCHANGED vars
  BY <1>28
<1>29. QED
  BY <1>1, <1>2, <1>3, <1>4, <1>5, <1>6, <1>7, <1>8, <1>9, <1>10, <1>11, <1>12, <1>13, <1>14,
      <1>15, <1>16, <1>17, <1>18, <1>19, <1>20, <1>21, <1>22, <1>23, <1>24, <1>25, <1>26, <1>27,
      <1>28 DEF Next, PageStep, WorkStep, RecorderStep

(* Every step keeps WorkInv.                                                *)
LEMMA NextWorkInv == Types /\ [Next]_vars => WorkInv'
<1> SUFFICES ASSUME Types, [Next]_vars PROVE WorkInv'
  OBVIOUS
<1> USE AudioAssumption DEF Types, FlagType, DataType, WorkInv, Kinds, At, pageVars, recVars,
    obsVars, workOnly, recOnly, vars
<1>1. CASE OpenSettings
  BY <1>1, RefreshIs DEF OpenSettings
<1>2. CASE GiveUp
  BY <1>2 DEF GiveUp
<1>3. CASE Save
  BY <1>3, BeginIs DEF Save
<1>4. CASE Reset
  BY <1>4 DEF Reset
<1>5. CASE Back
  BY <1>5 DEF Back, GoHome
<1>6. CASE RestoreFromTray
  BY <1>6 DEF RestoreFromTray, GoHome
<1>7. ASSUME NEW m \in Mics, Choose(m) PROVE WorkInv'
  BY <1>7 DEF Choose
<1>8. ASSUME NEW kind \in {"preflight", "setup"}, Check(kind) PROVE WorkInv'
  <2>1. kind \in Kinds
    BY <1>8 DEF Kinds
  <2>2. QED
    BY <1>8, <2>1, BeginIs DEF Check
<1>9. CASE TimerFires
  BY <1>9, BeginIs DEF TimerFires, Apply
<1>10. CASE Finish
  BY <1>10, BeginIs, NoWorkType DEF Finish
<1>11. CASE ShowPage
  BY <1>11, RefreshIs DEF ShowPage
<1>12. CASE Prepare
  BY <1>12, GoToIs, FailsIs DEF Prepare
<1>13. CASE TakeLock
  BY <1>13, GoToIs DEF TakeLock
<1>14. CASE Open
  BY <1>14, GoToIs DEF Open, WorkType
<1>15. CASE Act
  BY <1>15, GoToIs DEF Act, Created
<1>16. CASE SaveWork
  BY <1>16, GoToIs DEF SaveWork
<1>17. CASE WorkFails
  BY <1>17, FailsIs DEF WorkFails
<1>18. CASE CloseWork
  BY <1>18, GoToIs DEF CloseWork
<1>19. CASE LoadSettings
  BY <1>19 DEF LoadSettings
<1>20. CASE Preflight
  BY <1>20 DEF Preflight
<1>21. CASE OpenRecorder
  BY <1>21 DEF OpenRecorder
<1>22. CASE Opened
  BY <1>22 DEF Opened
<1>23. CASE ApplyProfile
  BY <1>23 DEF ApplyProfile
<1>24. CASE BeginRecording
  BY <1>24 DEF BeginRecording
<1>25. CASE FinishRecording
  BY <1>25 DEF FinishRecording
<1>26. CASE Stops
  BY <1>26 DEF Stops
<1>27. CASE CloseRecorder
  BY <1>27 DEF CloseRecorder
<1>28. CASE UNCHANGED vars
  BY <1>28
<1>29. QED
  BY <1>1, <1>2, <1>3, <1>4, <1>5, <1>6, <1>7, <1>8, <1>9, <1>10, <1>11, <1>12, <1>13, <1>14,
      <1>15, <1>16, <1>17, <1>18, <1>19, <1>20, <1>21, <1>22, <1>23, <1>24, <1>25, <1>26, <1>27,
      <1>28 DEF Next, PageStep, WorkStep, RecorderStep

(* Every step keeps LockInv.                                                *)
LEMMA NextLockInv == Types /\ [Next]_vars => LockInv'
<1> SUFFICES ASSUME Types, [Next]_vars PROVE LockInv'
  OBVIOUS
<1> USE AudioAssumption DEF Busy, Exclusive, Types, FlagType, DataType, WorkInv, LockInv, Held,
    Recorder, WorkType, Kinds, At, pageVars, recVars, obsVars, workOnly, recOnly, vars
<1>1. CASE OpenSettings
  BY <1>1, NoWorkType DEF OpenSettings
<1>2. CASE GiveUp
  BY <1>2 DEF GiveUp
<1>3. CASE Save
  BY <1>3, BeginIs DEF Save
<1>4. CASE Reset
  BY <1>4 DEF Reset
<1>5. CASE Back
  BY <1>5 DEF Back, GoHome
<1>6. CASE RestoreFromTray
  BY <1>6 DEF RestoreFromTray, GoHome
<1>7. ASSUME NEW m \in Mics, Choose(m) PROVE LockInv'
  BY <1>7 DEF Choose
<1>8. ASSUME NEW kind \in {"preflight", "setup"}, Check(kind) PROVE LockInv'
  <2>1. kind \in Kinds
    BY <1>8 DEF Kinds
  <2>2. QED
    BY <1>8, <2>1, BeginIs DEF Check
<1>9. CASE TimerFires
  BY <1>9, BeginIs DEF TimerFires, Apply
<1>10. CASE Finish
  BY <1>10, BeginIs, NoWorkType DEF Finish
<1>11. CASE ShowPage
  BY <1>11, NoWorkType DEF ShowPage
<1>12. CASE Prepare
  BY <1>12, GoToIs, FailsIs DEF Prepare
<1>13. CASE TakeLock
  BY <1>13, GoToIs DEF TakeLock
<1>14. CASE Open
  BY <1>14, GoToIs DEF Open
<1>15. CASE Act
  BY <1>15, GoToIs DEF Act, Created
<1>16. CASE SaveWork
  BY <1>16, GoToIs DEF SaveWork
<1>17. CASE WorkFails
  BY <1>17, FailsIs DEF WorkFails
<1>18. CASE CloseWork
  BY <1>18, GoToIs DEF CloseWork
<1>19. CASE LoadSettings
  BY <1>19 DEF LoadSettings
<1>20. CASE Preflight
  BY <1>20 DEF Preflight
<1>21. CASE OpenRecorder
  BY <1>21 DEF OpenRecorder
<1>22. CASE Opened
  BY <1>22 DEF Opened
<1>23. CASE ApplyProfile
  BY <1>23 DEF ApplyProfile
<1>24. CASE BeginRecording
  BY <1>24 DEF BeginRecording
<1>25. CASE FinishRecording
  BY <1>25 DEF FinishRecording
<1>26. CASE Stops
  BY <1>26 DEF Stops
<1>27. CASE CloseRecorder
  BY <1>27 DEF CloseRecorder
<1>28. CASE UNCHANGED vars
  BY <1>28
<1>29. QED
  BY <1>1, <1>2, <1>3, <1>4, <1>5, <1>6, <1>7, <1>8, <1>9, <1>10, <1>11, <1>12, <1>13, <1>14,
      <1>15, <1>16, <1>17, <1>18, <1>19, <1>20, <1>21, <1>22, <1>23, <1>24, <1>25, <1>26, <1>27,
      <1>28 DEF Next, PageStep, WorkStep, RecorderStep

(* Every step keeps ObsInv.                                                 *)
LEMMA NextObsInv == IInv /\ [Next]_vars => ObsInv'
<1> SUFFICES ASSUME IInv, [Next]_vars PROVE ObsInv'
  OBVIOUS
<1> USE AudioAssumption DEF IInv, Types, StateInv, FlagType, DataType, WorkInv, LockInv, Held,
    Recorder, WorkType, Kinds, At, ObsInv, PageInv, QuietInv, FileInv, MicInv, InFlight, Carries,
    Owner, Starting, Quiet, Busy, Exclusive, pageVars, recVars, obsVars, workOnly, recOnly, vars
<1>1. CASE OpenSettings
  BY <1>1, NoWorkType DEF OpenSettings
<1>2. CASE GiveUp
  BY <1>2 DEF GiveUp
<1>3. CASE Save
  BY <1>3, BeginIs DEF Save
<1>4. CASE Reset
  BY <1>4 DEF Reset
<1>5. CASE Back
  BY <1>5 DEF Back, GoHome
<1>6. CASE RestoreFromTray
  BY <1>6 DEF RestoreFromTray, GoHome
<1>7. ASSUME NEW m \in Mics, Choose(m) PROVE ObsInv'
  BY <1>7 DEF Choose
<1>8. ASSUME NEW kind \in {"preflight", "setup"}, Check(kind) PROVE ObsInv'
  <2>1. kind \in Kinds
    BY <1>8 DEF Kinds
  <2>2. QED
    BY <1>8, <2>1, BeginIs DEF Check
<1>9. CASE TimerFires
  BY <1>9, BeginIs DEF TimerFires, Apply
<1>10. CASE Finish
  BY <1>10, BeginIs, NoWorkType DEF Finish
<1>11. CASE ShowPage
  BY <1>11, NoWorkType DEF ShowPage
<1>12. CASE Prepare
  BY <1>12, GoToIs, FailsIs DEF Prepare
<1>13. CASE TakeLock
  BY <1>13, GoToIs DEF TakeLock
<1>14. CASE Open
  BY <1>14, GoToIs DEF Open
<1>15. CASE Act
  BY <1>15, GoToIs DEF Act, Created
<1>16. CASE SaveWork
  BY <1>16, GoToIs DEF SaveWork
<1>17. CASE WorkFails
  BY <1>17, FailsIs DEF WorkFails
<1>18. CASE CloseWork
  BY <1>18, GoToIs DEF CloseWork
<1>19. CASE LoadSettings
  BY <1>19 DEF LoadSettings
<1>20. CASE Preflight
  BY <1>20 DEF Preflight
<1>21. CASE OpenRecorder
  BY <1>21 DEF OpenRecorder
<1>22. CASE Opened
  BY <1>22 DEF Opened
<1>23. CASE ApplyProfile
  BY <1>23 DEF ApplyProfile
<1>24. CASE BeginRecording
  BY <1>24 DEF BeginRecording
<1>25. CASE FinishRecording
  BY <1>25 DEF FinishRecording
<1>26. CASE Stops
  BY <1>26 DEF Stops
<1>27. CASE CloseRecorder
  BY <1>27 DEF CloseRecorder
<1>28. CASE UNCHANGED vars
  BY <1>28
<1>29. QED
  BY <1>1, <1>2, <1>3, <1>4, <1>5, <1>6, <1>7, <1>8, <1>9, <1>10, <1>11, <1>12, <1>13, <1>14,
      <1>15, <1>16, <1>17, <1>18, <1>19, <1>20, <1>21, <1>22, <1>23, <1>24, <1>25, <1>26, <1>27,
      <1>28 DEF Next, PageStep, WorkStep, RecorderStep

(* Every step keeps PageInv.                                                *)
LEMMA NextPageInv == IInv /\ [Next]_vars => PageInv'
<1> SUFFICES ASSUME IInv, [Next]_vars PROVE PageInv'
  OBVIOUS
<1> USE AudioAssumption DEF IInv, Types, StateInv, FlagType, DataType, WorkInv, LockInv, Held,
    Recorder, WorkType, Kinds, At, ObsInv, PageInv, QuietInv, FileInv, MicInv, InFlight, Carries,
    Owner, Starting, Quiet, Busy, Exclusive, pageVars, recVars, obsVars, workOnly, recOnly, vars
<1>1. CASE OpenSettings
  BY <1>1, NoWorkType DEF OpenSettings
<1>2. CASE GiveUp
  BY <1>2 DEF GiveUp
<1>3. CASE Save
  BY <1>3, BeginIs DEF Save
<1>4. CASE Reset
  BY <1>4 DEF Reset
<1>5. CASE Back
  BY <1>5 DEF Back, GoHome
<1>6. CASE RestoreFromTray
  BY <1>6 DEF RestoreFromTray, GoHome
<1>7. ASSUME NEW m \in Mics, Choose(m) PROVE PageInv'
  BY <1>7 DEF Choose
<1>8. ASSUME NEW kind \in {"preflight", "setup"}, Check(kind) PROVE PageInv'
  <2>1. kind \in Kinds
    BY <1>8 DEF Kinds
  <2>2. QED
    BY <1>8, <2>1, BeginIs DEF Check
<1>9. CASE TimerFires
  BY <1>9, BeginIs DEF TimerFires, Apply
<1>10. CASE Finish
  BY <1>10, BeginIs, NoWorkType DEF Finish
<1>11. CASE ShowPage
  BY <1>11, NoWorkType DEF ShowPage
<1>12. CASE Prepare
  BY <1>12, GoToIs, FailsIs DEF Prepare
<1>13. CASE TakeLock
  BY <1>13, GoToIs DEF TakeLock
<1>14. CASE Open
  BY <1>14, GoToIs DEF Open
<1>15. CASE Act
  BY <1>15, GoToIs DEF Act, Created
<1>16. CASE SaveWork
  BY <1>16, GoToIs DEF SaveWork
<1>17. CASE WorkFails
  BY <1>17, FailsIs DEF WorkFails
<1>18. CASE CloseWork
  BY <1>18, GoToIs DEF CloseWork
<1>19. CASE LoadSettings
  BY <1>19 DEF LoadSettings
<1>20. CASE Preflight
  BY <1>20 DEF Preflight
<1>21. CASE OpenRecorder
  BY <1>21 DEF OpenRecorder
<1>22. CASE Opened
  BY <1>22 DEF Opened
<1>23. CASE ApplyProfile
  BY <1>23 DEF ApplyProfile
<1>24. CASE BeginRecording
  BY <1>24 DEF BeginRecording
<1>25. CASE FinishRecording
  BY <1>25 DEF FinishRecording
<1>26. CASE Stops
  BY <1>26 DEF Stops
<1>27. CASE CloseRecorder
  BY <1>27 DEF CloseRecorder
<1>28. CASE UNCHANGED vars
  BY <1>28
<1>29. QED
  BY <1>1, <1>2, <1>3, <1>4, <1>5, <1>6, <1>7, <1>8, <1>9, <1>10, <1>11, <1>12, <1>13, <1>14,
      <1>15, <1>16, <1>17, <1>18, <1>19, <1>20, <1>21, <1>22, <1>23, <1>24, <1>25, <1>26, <1>27,
      <1>28 DEF Next, PageStep, WorkStep, RecorderStep

(* Every step keeps QuietInv.                                               *)
LEMMA NextQuietInv == IInv /\ [Next]_vars => QuietInv'
<1> SUFFICES ASSUME IInv, [Next]_vars PROVE QuietInv'
  OBVIOUS
<1> USE AudioAssumption DEF IInv, Types, StateInv, FlagType, DataType, WorkInv, LockInv, Held,
    Recorder, WorkType, Kinds, At, ObsInv, PageInv, QuietInv, FileInv, MicInv, InFlight, Carries,
    Owner, Starting, Quiet, Busy, Exclusive, pageVars, recVars, obsVars, workOnly, recOnly, vars
<1>1. CASE OpenSettings
  BY <1>1, NoWorkType DEF OpenSettings
<1>2. CASE GiveUp
  BY <1>2 DEF GiveUp
<1>3. CASE Save
  BY <1>3, BeginIs DEF Save
<1>4. CASE Reset
  BY <1>4 DEF Reset
<1>5. CASE Back
  BY <1>5 DEF Back, GoHome
<1>6. CASE RestoreFromTray
  BY <1>6 DEF RestoreFromTray, GoHome
<1>7. ASSUME NEW m \in Mics, Choose(m) PROVE QuietInv'
  BY <1>7 DEF Choose
<1>8. ASSUME NEW kind \in {"preflight", "setup"}, Check(kind) PROVE QuietInv'
  <2>1. kind \in Kinds
    BY <1>8 DEF Kinds
  <2>2. QED
    BY <1>8, <2>1, BeginIs DEF Check
<1>9. CASE TimerFires
  BY <1>9, BeginIs DEF TimerFires, Apply
<1>10. CASE Finish
  BY <1>10, BeginIs, NoWorkType DEF Finish
<1>11. CASE ShowPage
  BY <1>11, NoWorkType DEF ShowPage
<1>12. CASE Prepare
  BY <1>12, GoToIs, FailsIs DEF Prepare
<1>13. CASE TakeLock
  BY <1>13, GoToIs DEF TakeLock
<1>14. CASE Open
  BY <1>14, GoToIs DEF Open
<1>15. CASE Act
  BY <1>15, GoToIs DEF Act, Created
<1>16. CASE SaveWork
  BY <1>16, GoToIs DEF SaveWork
<1>17. CASE WorkFails
  BY <1>17, FailsIs DEF WorkFails
<1>18. CASE CloseWork
  BY <1>18, GoToIs DEF CloseWork
<1>19. CASE LoadSettings
  BY <1>19 DEF LoadSettings
<1>20. CASE Preflight
  BY <1>20 DEF Preflight
<1>21. CASE OpenRecorder
  BY <1>21 DEF OpenRecorder
<1>22. CASE Opened
  BY <1>22 DEF Opened
<1>23. CASE ApplyProfile
  BY <1>23 DEF ApplyProfile
<1>24. CASE BeginRecording
  BY <1>24 DEF BeginRecording
<1>25. CASE FinishRecording
  BY <1>25 DEF FinishRecording
<1>26. CASE Stops
  BY <1>26 DEF Stops
<1>27. CASE CloseRecorder
  BY <1>27 DEF CloseRecorder
<1>28. CASE UNCHANGED vars
  BY <1>28
<1>29. QED
  BY <1>1, <1>2, <1>3, <1>4, <1>5, <1>6, <1>7, <1>8, <1>9, <1>10, <1>11, <1>12, <1>13, <1>14,
      <1>15, <1>16, <1>17, <1>18, <1>19, <1>20, <1>21, <1>22, <1>23, <1>24, <1>25, <1>26, <1>27,
      <1>28 DEF Next, PageStep, WorkStep, RecorderStep

(* Every step keeps FileInv.                                                *)
LEMMA NextFileInv == IInv /\ [Next]_vars => FileInv'
<1> SUFFICES ASSUME IInv, [Next]_vars PROVE FileInv'
  OBVIOUS
<1> USE AudioAssumption DEF IInv, Types, StateInv, FlagType, DataType, WorkInv, LockInv, Held,
    Recorder, WorkType, Kinds, At, ObsInv, PageInv, QuietInv, FileInv, MicInv, InFlight, Carries,
    Owner, Starting, Quiet, Busy, Exclusive, pageVars, recVars, obsVars, workOnly, recOnly, vars
<1>1. CASE OpenSettings
  BY <1>1, NoWorkType DEF OpenSettings
<1>2. CASE GiveUp
  BY <1>2 DEF GiveUp
<1>3. CASE Save
  BY <1>3, BeginIs DEF Save
<1>4. CASE Reset
  BY <1>4 DEF Reset
<1>5. CASE Back
  BY <1>5 DEF Back, GoHome
<1>6. CASE RestoreFromTray
  BY <1>6 DEF RestoreFromTray, GoHome
<1>7. ASSUME NEW m \in Mics, Choose(m) PROVE FileInv'
  BY <1>7 DEF Choose
<1>8. ASSUME NEW kind \in {"preflight", "setup"}, Check(kind) PROVE FileInv'
  <2>1. kind \in Kinds
    BY <1>8 DEF Kinds
  <2>2. QED
    BY <1>8, <2>1, BeginIs DEF Check
<1>9. CASE TimerFires
  BY <1>9, BeginIs DEF TimerFires, Apply
<1>10. CASE Finish
  BY <1>10, BeginIs, NoWorkType DEF Finish
<1>11. CASE ShowPage
  BY <1>11, NoWorkType DEF ShowPage
<1>12. CASE Prepare
  BY <1>12, GoToIs, FailsIs DEF Prepare
<1>13. CASE TakeLock
  BY <1>13, GoToIs DEF TakeLock
<1>14. CASE Open
  BY <1>14, GoToIs DEF Open
<1>15. CASE Act
  BY <1>15, GoToIs DEF Act, Created
<1>16. CASE SaveWork
  BY <1>16, GoToIs DEF SaveWork
<1>17. CASE WorkFails
  BY <1>17, FailsIs DEF WorkFails
<1>18. CASE CloseWork
  BY <1>18, GoToIs DEF CloseWork
<1>19. CASE LoadSettings
  BY <1>19 DEF LoadSettings
<1>20. CASE Preflight
  BY <1>20 DEF Preflight
<1>21. CASE OpenRecorder
  BY <1>21 DEF OpenRecorder
<1>22. CASE Opened
  BY <1>22 DEF Opened
<1>23. CASE ApplyProfile
  BY <1>23 DEF ApplyProfile
<1>24. CASE BeginRecording
  BY <1>24 DEF BeginRecording
<1>25. CASE FinishRecording
  BY <1>25 DEF FinishRecording
<1>26. CASE Stops
  BY <1>26 DEF Stops
<1>27. CASE CloseRecorder
  BY <1>27 DEF CloseRecorder
<1>28. CASE UNCHANGED vars
  BY <1>28
<1>29. QED
  BY <1>1, <1>2, <1>3, <1>4, <1>5, <1>6, <1>7, <1>8, <1>9, <1>10, <1>11, <1>12, <1>13, <1>14,
      <1>15, <1>16, <1>17, <1>18, <1>19, <1>20, <1>21, <1>22, <1>23, <1>24, <1>25, <1>26, <1>27,
      <1>28 DEF Next, PageStep, WorkStep, RecorderStep

(* Every step keeps MicInv.                                                 *)
LEMMA NextMicInv == IInv /\ [Next]_vars => MicInv'
<1> SUFFICES ASSUME IInv, [Next]_vars PROVE MicInv'
  OBVIOUS
<1> USE AudioAssumption DEF IInv, Types, StateInv, FlagType, DataType, WorkInv, LockInv, Held,
    Recorder, WorkType, Kinds, At, ObsInv, PageInv, QuietInv, FileInv, MicInv, InFlight, Carries,
    Owner, Starting, Quiet, Busy, Exclusive, pageVars, recVars, obsVars, workOnly, recOnly, vars
<1>1. CASE OpenSettings
  BY <1>1, NoWorkType DEF OpenSettings
<1>2. CASE GiveUp
  BY <1>2 DEF GiveUp
<1>3. CASE Save
  BY <1>3, BeginIs DEF Save
<1>4. CASE Reset
  BY <1>4 DEF Reset
<1>5. CASE Back
  BY <1>5 DEF Back, GoHome
<1>6. CASE RestoreFromTray
  BY <1>6 DEF RestoreFromTray, GoHome
<1>7. ASSUME NEW m \in Mics, Choose(m) PROVE MicInv'
  BY <1>7 DEF Choose
<1>8. ASSUME NEW kind \in {"preflight", "setup"}, Check(kind) PROVE MicInv'
  <2>1. kind \in Kinds
    BY <1>8 DEF Kinds
  <2>2. QED
    BY <1>8, <2>1, BeginIs DEF Check
<1>9. CASE TimerFires
  BY <1>9, BeginIs DEF TimerFires, Apply
<1>10. CASE Finish
  BY <1>10, BeginIs, NoWorkType DEF Finish
<1>11. CASE ShowPage
  BY <1>11, NoWorkType DEF ShowPage
<1>12. CASE Prepare
  BY <1>12, GoToIs, FailsIs DEF Prepare
<1>13. CASE TakeLock
  BY <1>13, GoToIs DEF TakeLock
<1>14. CASE Open
  BY <1>14, GoToIs DEF Open
<1>15. CASE Act
  BY <1>15, GoToIs DEF Act, Created
<1>16. CASE SaveWork
  BY <1>16, GoToIs DEF SaveWork
<1>17. CASE WorkFails
  BY <1>17, FailsIs DEF WorkFails
<1>18. CASE CloseWork
  BY <1>18, GoToIs DEF CloseWork
<1>19. CASE LoadSettings
  BY <1>19 DEF LoadSettings
<1>20. CASE Preflight
  BY <1>20 DEF Preflight
<1>21. CASE OpenRecorder
  BY <1>21 DEF OpenRecorder
<1>22. CASE Opened
  BY <1>22 DEF Opened
<1>23. CASE ApplyProfile
  BY <1>23 DEF ApplyProfile
<1>24. CASE BeginRecording
  BY <1>24 DEF BeginRecording
<1>25. CASE FinishRecording
  BY <1>25 DEF FinishRecording
<1>26. CASE Stops
  BY <1>26 DEF Stops
<1>27. CASE CloseRecorder
  BY <1>27 DEF CloseRecorder
<1>28. CASE UNCHANGED vars
  BY <1>28
<1>29. QED
  BY <1>1, <1>2, <1>3, <1>4, <1>5, <1>6, <1>7, <1>8, <1>9, <1>10, <1>11, <1>12, <1>13, <1>14,
      <1>15, <1>16, <1>17, <1>18, <1>19, <1>20, <1>21, <1>22, <1>23, <1>24, <1>25, <1>26, <1>27,
      <1>28 DEF Next, PageStep, WorkStep, RecorderStep

-----------------------------------------------------------------------------
(* The invariant holds in every reachable state.                            *)
THEOREM Invariance == Spec => []IInv
<1>1. IInv /\ [Next]_vars => IInv'
  BY NextFlagType, NextDataType, NextWorkInv, NextLockInv, NextObsInv, NextPageInv,
      NextQuietInv, NextFileInv, NextMicInv
     DEF IInv, StateInv, Types
<1>2. QED
  BY <1>1, InitIInv, PTL DEF Spec

(* Every variable keeps its type.                                           *)
THEOREM TypeCorrect == Spec => []TypeOK
<1>1. IInv => TypeOK
  BY TypesAgree DEF IInv
<1>2. QED
  BY <1>1, Invariance, PTL

(* Once nothing is under way the last choice is shown, saved and used.      *)
THEOREM ChoiceWins == Spec => []LastChoiceWins
<1>1. IInv => LastChoiceWins
  <2> SUFFICES ASSUME IInv, Quiet, ~raced
               PROVE  /\ "file" \notin failed => choice = saved
                      /\ "obs" \notin failed /\ rec \in {"watching",
                          "recording"} => obsMic = saved
    BY DEF LastChoiceWins
  <2>1. "file" \notin failed => choice = saved
    BY DEF IInv, StateInv, FileInv, InFlight, Quiet, Busy
  <2>2. "obs" \notin failed /\ rec \in {"watching", "recording"} => obsMic = saved
    BY DEF IInv, StateInv, MicInv, Quiet, Busy
  <2>3. QED
    BY <2>1, <2>2
<1>2. QED
  BY <1>1, Invariance, PTL

(* A settings worker never ends the recorder's OBS.                         *)
THEOREM ObsKept == Spec => []RecorderKeepsObs
<1>1. IInv => RecorderKeepsObs
  BY DEF IInv, StateInv, ObsInv, RecorderKeepsObs, Owner
<1>2. QED
  BY <1>1, Invariance, PTL

(* While a match is recorded only live operations touch OBS.                *)
THEOREM LiveOnly == Spec => []OnlyLiveWhileRecording
<1>1. IInv => OnlyLiveWhileRecording
  BY DEF IInv, StateInv, QuietInv, OnlyLiveWhileRecording, Busy
<1>2. QED
  BY <1>1, Invariance, PTL

-----------------------------------------------------------------------------
(* A started worker has seven steps at most.                                *)
LEMMA BegunLeft ==
    ASSUME NEW kind \in Kinds, NEW mic \in Mics, audioOnly \in BOOLEAN, Begin(kind, mic)
    PROVE  (WorkLeft' = 6 \/ WorkLeft' = 7) /\ work'.kind = kind /\ work'.at # "none"
  BY BeginIs DEF WorkLeft

(* Each step of the worker leaves it less to do, whoever else waits.        *)
LEMMA WorkCountsDown ==
    ASSUME Types, WorkStep
    PROVE  StepsLeft' < StepsLeft
<1> USE DEF Types, WorkInv, FlagType, WorkType, At, Kinds, workOnly, pageVars
<1>1. ASSUME NEW n \in Nat, NEW m \in Nat, m < n, WorkLeft = n, WorkLeft' = m,
             work.at # "none", work'.at # "none", work'.kind = work.kind,
             timer' = timer, pending' = pending, page' = page
      PROVE  StepsLeft' < StepsLeft
  BY <1>1 DEF StepsLeft, Busy
<1> DEFINE Less == /\ work.at # "none" /\ work'.at # "none" /\ work'.kind = work.kind
                   /\ WorkLeft \in Nat /\ WorkLeft' \in Nat /\ WorkLeft' < WorkLeft
<1>2. CASE Prepare
  <2>1. CASE GoTo(IF work.kind = "preflight" THEN "done" ELSE "wait")
    <3>1. Less
      BY <2>1, <1>2, GoToIs DEF Prepare, WorkLeft
    <3>2. QED
      BY <1>1, <3>1, <1>2 DEF Prepare
  <2>2. CASE Fails
    <3>1. Less
      BY <2>2, <1>2, FailsIs DEF Prepare, WorkLeft
    <3>2. QED
      BY <1>1, <3>1, <1>2 DEF Prepare
  <2>3. QED
    BY <1>2, <2>1, <2>2 DEF Prepare
<1>3. CASE TakeLock
  <2>1. Less
    BY <1>3, GoToIs DEF TakeLock, WorkLeft
  <2>2. QED
    BY <1>1, <2>1, <1>3 DEF TakeLock
<1>4. CASE Open
  <2>1. ASSUME obs PROVE Less
    BY <1>4, <2>1, GoToIs DEF Open, WorkLeft
  <2>2. ASSUME ~obs PROVE Less
    <3>1. work'.at = "act" /\ work'.kind = work.kind /\ work.at = "open"
      BY <1>4, <2>2 DEF Open
    <3>2. QED
      BY <3>1 DEF WorkLeft
  <2>3. Less
    BY <2>1, <2>2
  <2>4. QED
    BY <1>1, <2>3, <1>4 DEF Open
<1>5. CASE Act
  <2>1. Less
    BY <1>5, GoToIs DEF Act, WorkLeft
  <2>2. QED
    BY <1>1, <2>1, <1>5 DEF Act
<1>6. CASE SaveWork
  <2>1. Less
    BY <1>6, GoToIs DEF SaveWork, WorkLeft
  <2>2. QED
    BY <1>1, <2>1, <1>6 DEF SaveWork
<1>7. CASE WorkFails
  <2>1. Less
    BY <1>7, FailsIs DEF WorkFails, WorkLeft
  <2>2. QED
    BY <1>1, <2>1, <1>7 DEF WorkFails
<1>8. CASE CloseWork
  <2>1. Less
    BY <1>8, GoToIs DEF CloseWork, WorkLeft
  <2>2. QED
    BY <1>1, <2>1, <1>8 DEF CloseWork
<1>9. QED
  BY <1>2, <1>3, <1>4, <1>5, <1>6, <1>7, <1>8 DEF WorkStep

(* Each step of the page leaves less to do, what it starts included.        *)
LEMMA PageCountsDown ==
    ASSUME Types, PageStep \/ GiveUp
    PROVE  StepsLeft' < StepsLeft
<1> USE DEF Types, WorkInv, FlagType, DataType, WorkType, At, Kinds, Busy, StepsLeft
<1>1. CASE TimerFires
  <2>1. CASE Busy
    BY <1>1, <2>1 DEF TimerFires, Apply, WorkLeft
  <2>2. CASE ~Busy
    <3>1. Begin("apply", choice) /\ pending' = pending /\ WorkLeft = 0
      BY <1>1, <2>2 DEF TimerFires, Apply, WorkLeft
    <3>2. (WorkLeft' = 6 \/ WorkLeft' = 7) /\ work'.kind = "apply"
      BY <3>1, BegunLeft
    <3>3. QED
      <4>1. timer /\ ~timer' /\ page' = page /\ pending' = pending
        BY <1>1, <3>1 DEF TimerFires
      <4>2. QED
        BY <2>2, <3>1, <3>2, <4>1
  <2>3. QED
    BY <2>1, <2>2
<1>2. CASE Finish
  <2>1. WorkLeft = 1
    BY <1>2 DEF Finish, WorkLeft
  <2>2. CASE pending
    <3>1. Begin("apply", choice) /\ ~pending' /\ ~timer' /\ page' = page
      BY <1>2, <2>2 DEF Finish
    <3>2. (WorkLeft' = 6 \/ WorkLeft' = 7) /\ work'.kind = "apply"
      BY <3>1, BegunLeft
    <3>3. QED
      BY <2>1, <2>2, <3>1, <3>2
  <2>3. CASE ~pending /\ work.kind = "setup" /\ work.ok /\ ~timer
    <3>1. Begin("refresh", saved) /\ UNCHANGED <<pending, timer, page>>
      BY <1>2, <2>3 DEF Finish
    <3>2. (WorkLeft' = 6 \/ WorkLeft' = 7) /\ work'.kind = "refresh"
      BY <3>1, BegunLeft
    <3>3. QED
      <4>1. work.at = "done" /\ work.kind = "setup" /\ ~pending' /\ ~timer' /\ page' = page
        BY <1>2, <2>3, <3>1 DEF Finish
      <4>2. QED
        BY <2>1, <2>3, <3>2, <4>1
  <2>4. CASE ~pending /\ ~(work.kind = "setup" /\ work.ok /\ ~timer)
    <3>1. work' = NoWork /\ UNCHANGED <<pending, timer, page>>
      BY <1>2, <2>4 DEF Finish
    <3>2. WorkLeft' = 0 /\ work'.at = "none"
      BY <3>1, NoWorkType DEF WorkLeft
    <3>3. QED
      BY <2>1, <3>1, <3>2
  <2>5. QED
    BY <2>2, <2>3, <2>4
<1>3. CASE ShowPage
  <2>1. page = "opening" /\ page' = "settings" /\ UNCHANGED <<timer, pending>>
    BY <1>3 DEF ShowPage
  <2>2. CASE Busy \/ timer
    <3>1. work' = work
      BY <1>3, <2>2 DEF ShowPage
    <3>2. QED
      BY <2>1, <3>1 DEF WorkLeft
  <2>3. CASE ~(Busy \/ timer)
    <3>1. work' = [NoWork EXCEPT !.kind = "refresh", !.mic = choice, !.at = "prepare"]
      BY <1>3, <2>3 DEF ShowPage
    <3>2. work'.kind = "refresh" /\ work'.at = "prepare" /\ work' \in WorkType
      BY <3>1, NoWorkType
    <3>3. WorkLeft' = 7 /\ WorkLeft = 0
      BY <3>2, <2>3 DEF WorkLeft
    <3>4. QED
      BY <2>1, <2>3, <3>2, <3>3
  <2>4. QED
    BY <2>2, <2>3
<1>4. CASE GiveUp
  BY <1>4 DEF GiveUp, WorkLeft
<1>5. QED
  BY <1>1, <1>2, <1>3, <1>4 DEF PageStep

(* The recorder touches nothing that is counted.                            *)
LEMMA RecorderLeavesSteps ==
    ASSUME RecorderStep
    PROVE  StepsLeft' = StepsLeft
<1>1. UNCHANGED <<page, timer, pending, work>>
  BY DEF RecorderStep, LoadSettings, Preflight, OpenRecorder, Opened, ApplyProfile,
     BeginRecording, FinishRecording, Stops, CloseRecorder, recOnly, pageVars
<1>2. QED
  BY <1>1 DEF StepsLeft, WorkLeft, Busy

(* Each step of page and worker brings the page nearer to its rest, and no  *)
(* step of the recorder takes it further from it. StepsLeft is at most 37:  *)
(* without another input of the user no worker is left after so many steps. *)
THEOREM RestIsCounted == Spec => RestCountsDown
<1>1. IInv /\ [Next]_vars =>
        [/\ PageStep \/ WorkStep \/ GiveUp => StepsLeft' < StepsLeft
         /\ RecorderStep => StepsLeft' = StepsLeft]_vars
  BY WorkCountsDown, PageCountsDown, RecorderLeavesSteps DEF IInv
<1>2. QED
  BY <1>1, Invariance, PTL DEF Spec, RestCountsDown

=============================================================================
