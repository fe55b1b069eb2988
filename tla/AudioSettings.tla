---------------------------- MODULE AudioSettings ----------------------------
(***************************************************************************)
(* The settings page and the recorder share one OBS.  The page hands every *)
(* change of the microphone to a worker thread, one at a time: a change is  *)
(* first held back by a timer, and kept pending while a worker runs.  A     *)
(* worker takes OBS_OPERATION_LOCK, connects to the recorder's OBS or       *)
(* launches one of its own, applies the settings, saves them and closes     *)
(* what it launched.  While a match is recorded only the microphone of the  *)
(* recorder's OBS may be touched (_recording_audio_only); otherwise opening *)
(* the page stops the recorder, and leaving it starts the next one.         *)
(*                                                                         *)
(* Of the settings only the microphone is kept: what the page shows, what   *)
(* setting.json says and what OBS uses.                                     *)
(***************************************************************************)
EXTENDS Naturals, FiniteSets

CONSTANTS Mics,        \* settings of the microphone
          MaxChoices,  \* bound: changes the user makes
          MaxVisits    \* bound: times the user opens the page or takes the
                       \* window out of the tray

ASSUME AudioAssumption == MaxChoices \in Nat /\ MaxVisits \in Nat /\ Mics # {}

VARIABLES
    page,       \* home, opening (show_settings waits for the recorder), settings
    audioOnly,  \* _recording_audio_only
    choice,     \* the microphone the page shows
    timer,      \* _audio_apply_timer is active
    pending,    \* _audio_apply_pending
    work,       \* the page's worker
    saved,      \* the microphone in setting.json
    rec,        \* where the recorder thread stands
    recMic,     \* the microphone in the settings it loaded when it started
    stopping,   \* it was asked to stop
    lock,       \* who holds OBS_OPERATION_LOCK
    obs,        \* is the managed OBS running?
    obsMic,     \* the microphone it uses
    failed,     \* ghost: what a failed operation may have left behind
    raced,      \* ghost: the recorder was started before the page was quiet
    choices, visits

vars == <<page, audioOnly, choice, timer, pending, work, saved, rec, recMic,
          stopping, lock, obs, obsMic, failed, raced, choices, visits>>

Kinds == {"refresh", "apply", "output", "preflight", "setup"}
At    == {"none", "prepare", "wait", "open", "act", "save", "close", "done"}
Recorder == {"off", "loading", "checking", "opening", "launching", "profile",
             "watching", "recording", "closing"}

NoWork == [kind |-> "refresh", live |-> FALSE, mic |-> CHOOSE m \in Mics : TRUE,
           at |-> "none", owns |-> FALSE, ok |-> TRUE]

pageVars == <<page, audioOnly, choice, timer, pending, choices, visits>>
recVars  == <<rec, recMic, stopping>>
obsVars  == <<obs, obsMic>>

Busy  == work.at # "none"                   \* _settings_operation_active
Quiet == ~Busy /\ ~timer /\ ~pending
Exclusive == work.kind \in {"preflight", "setup"}  \* the tabs are disabled

Init ==
    /\ page = "home" /\ audioOnly = FALSE
    /\ timer = FALSE /\ pending = FALSE /\ work = NoWork
    /\ saved \in Mics /\ choice = saved
    /\ rec = "loading" /\ recMic = saved /\ stopping = FALSE
    /\ lock = "none"
    /\ obs \in BOOLEAN /\ obsMic \in Mics   \* an OBS an earlier run left behind
    /\ failed = {} /\ raced = FALSE
    /\ choices = 0 /\ visits = 0

-----------------------------------------------------------------------------
\* A mutant: only a look at the devices is limited to the recorder's OBS.
BeginFull(kind, mic) ==
    LET live == audioOnly /\ kind = "refresh"
    IN  work' = [NoWork EXCEPT !.kind = kind, !.live = live, !.mic = mic,
                               !.at = IF live THEN "wait" ELSE "prepare"]

(* The page starts a worker; what it is to apply is read from the page now. *)
Begin(kind, mic) ==
    LET live == audioOnly /\ kind \in {"refresh", "apply"}
    IN  work' = [NoWork EXCEPT !.kind = kind, !.live = live, !.mic = mic,
                               !.at = IF live THEN "wait" ELSE "prepare"]

(* show_settings: reserving the shutdown fails while a match is recorded.    *)
OpenSettings ==
    /\ page = "home" /\ visits < MaxVisits
    /\ visits' = visits + 1
    /\ CASE rec = "off"       -> page' = "opening" /\ UNCHANGED <<audioOnly, stopping>>
         [] rec = "recording" -> page' = "settings" /\ audioOnly' = TRUE /\ UNCHANGED stopping
         [] OTHER             -> page' = "opening" /\ stopping' = TRUE /\ UNCHANGED audioOnly
    /\ IF rec = "recording" /\ ~Busy /\ ~timer
         THEN work' = [NoWork EXCEPT !.kind = "refresh", !.live = TRUE, !.at = "wait"]
         ELSE work' = work
    /\ UNCHANGED <<choice, timer, pending, saved, rec, recMic, lock, obsVars,
                   failed, raced, choices>>

\* The page is shown once the recorder has ended, and reads the devices.
ShowPage ==
    /\ page = "opening" /\ rec = "off"
    /\ page' = "settings" /\ audioOnly' = FALSE
    /\ IF Busy \/ timer THEN work' = work
       ELSE work' = [NoWork EXCEPT !.kind = "refresh", !.mic = choice, !.at = "prepare"]
    /\ raced' = (raced /\ ~Quiet)
    /\ failed' = failed \union IF raced THEN {"file"} ELSE {}
    /\ UNCHANGED <<choice, timer, pending, saved, recVars, lock, obsVars,
                   choices, visits>>

\* ... or not shown, when the recorder needs more than five seconds.
GiveUp ==
    /\ page = "opening" /\ rec # "off"
    /\ page' = "home"
    /\ UNCHANGED <<audioOnly, choice, timer, pending, work, saved, recVars, lock,
                   obsVars, failed, raced, choices, visits>>

Choose(m) ==
    /\ page = "settings" /\ m # choice /\ choices < MaxChoices
    /\ Busy => ~Exclusive
    /\ choice' = m /\ timer' = TRUE /\ choices' = choices + 1
    /\ UNCHANGED <<page, audioOnly, pending, work, saved, recVars, lock, obsVars,
                   failed, raced, visits>>

\* apply_audio_settings_to_obs: kept for later while a worker runs.
Apply == IF Busy THEN pending' = TRUE /\ work' = work
                 ELSE pending' = pending /\ Begin("apply", choice)

TimerFires ==
    /\ page # "opening" /\ timer
    /\ timer' = FALSE
    /\ Apply
    /\ UNCHANGED <<page, audioOnly, choice, saved, recVars, lock, obsVars, failed,
                   raced, choices, visits>>

\* The preflight of save_settings may refuse; then nothing is saved.
Save ==
    /\ page = "settings" /\ ~Busy
    /\ timer' = FALSE /\ pending' = FALSE
    /\ IF audioOnly THEN Begin("apply", choice) /\ UNCHANGED <<saved, failed>>
       ELSE \/ /\ Begin("output", choice)
               /\ saved' = choice /\ failed' = failed \ {"file"}
            \/ failed' = failed \union {"file"} /\ UNCHANGED <<work, saved>>
    /\ UNCHANGED <<page, audioOnly, choice, recVars, lock, obsVars, raced, choices,
                   visits>>

Reset ==
    /\ page = "settings" /\ ~Busy
    /\ timer' = FALSE /\ pending' = FALSE
    /\ choice' = saved /\ failed' = failed \ {"file"}
    /\ UNCHANGED <<page, audioOnly, work, saved, recVars, lock, obsVars, raced,
                   choices, visits>>

\* run_preflight_fix and run_quick_setup work on the settings as saved.
Check(kind) ==
    /\ page = "settings" /\ ~audioOnly /\ ~Busy /\ ~timer
    /\ Begin(kind, saved)
    /\ UNCHANGED <<page, audioOnly, choice, timer, pending, saved, recVars, lock,
                   obsVars, failed, raced, choices, visits>>

\* show_home; a recorder that still runs is left alone.
GoHome ==
    /\ page' = "home"
    /\ IF rec = "off"
         THEN rec' = "loading" /\ stopping' = FALSE /\ raced' = (raced \/ ~Quiet)
         ELSE UNCHANGED <<rec, stopping, raced>>
    /\ UNCHANGED <<audioOnly, choice, timer, pending, work, saved, recMic, lock,
                   obsVars, failed, choices>>

Back == page = "settings" /\ Quiet /\ visits' = visits /\ GoHome

\* Hidden in the tray and restored, the window shows its home page.
RestoreFromTray ==
    /\ page # "opening" /\ visits < MaxVisits
    /\ visits' = visits + 1
    /\ GoHome

\* A mutant: what is pending is applied but stays pending.
FinishStuck ==
    /\ page # "opening" /\ work.at = "done"
    /\ IF pending
         THEN timer' = FALSE /\ Begin("apply", choice) /\ choice' = choice
         ELSE /\ UNCHANGED timer
              /\ choice' = IF Exclusive /\ work.ok THEN saved ELSE choice
              /\ work' = NoWork
    /\ UNCHANGED <<page, audioOnly, pending, saved, recVars, lock, obsVars, failed,
                   raced, choices, visits>>

\* A mutant: what became pending is forgotten.
FinishForgetful ==
    /\ page # "opening" /\ work.at = "done"
    /\ pending' = FALSE /\ work' = NoWork
    /\ choice' = IF Exclusive /\ work.ok THEN saved ELSE choice
    /\ UNCHANGED <<page, audioOnly, timer, saved, recVars, lock, obsVars, failed,
                   raced, choices, visits>>

\* The worker's `finished`; what became pending meanwhile is applied now, and a
\* quick setup that succeeded is followed by a look at the devices.
Finish ==
    /\ page # "opening" /\ work.at = "done"
    /\ IF pending
         THEN pending' = FALSE /\ timer' = FALSE /\ Begin("apply", choice) /\ choice' = choice
         ELSE /\ UNCHANGED <<pending, timer>>
              /\ choice' = IF Exclusive /\ work.ok THEN saved ELSE choice
              /\ IF work.kind = "setup" /\ work.ok /\ ~timer
                   THEN Begin("refresh", saved) ELSE work' = NoWork
    /\ UNCHANGED <<page, audioOnly, saved, recVars, lock, obsVars, failed, raced,
                   choices, visits>>

-----------------------------------------------------------------------------
(* The worker.                                                              *)
GoTo(at) == work' = [work EXCEPT !.at = at]
workOnly == <<pageVars, recVars>>

\* What a failed worker leaves: an `apply` has not saved what the page shows.
Fails ==
    /\ work' = [work EXCEPT !.ok = FALSE,
                            !.at = IF work.at \in {"prepare", "wait"} THEN "done" ELSE "close"]
    /\ failed' = failed \union
         (IF work.kind = "apply" THEN {"file"} ELSE {}) \union
         (IF work.at \in {"act", "save"} THEN {"obs"} ELSE {})

\* The preflight, before the lock is taken; it may rewrite the settings file.
Prepare ==
    /\ work.at = "prepare"
    /\ \/ GoTo(IF work.kind = "preflight" THEN "done" ELSE "wait") /\ failed' = failed
       \/ Fails
    /\ \E changed \in BOOLEAN : saved' = IF changed THEN work.mic ELSE saved
    /\ UNCHANGED <<workOnly, lock, obsVars, raced>>

TakeLock ==
    /\ work.at = "wait" /\ lock = "none"
    /\ lock' = "worker" /\ GoTo("open")
    /\ UNCHANGED <<workOnly, saved, obsVars, failed, raced>>

\* A mutant: only open_recorder holds the lock.
OpenAndRelease ==
    /\ work.at = "open"
    /\ IF obs THEN GoTo("act") /\ UNCHANGED obsVars
       ELSE /\ ~work.live
            /\ work' = [work EXCEPT !.at = "act", !.owns = TRUE]
            /\ obs' = TRUE /\ obsMic' \in Mics
    /\ lock' = "none"
    /\ UNCHANGED <<workOnly, saved, failed, raced>>

\* open_recorder: the owned OBS, or one of its own unless a match is recorded.
Open ==
    /\ work.at = "open"
    /\ IF obs THEN GoTo("act") /\ UNCHANGED obsVars
       ELSE /\ ~work.live
            /\ work' = [work EXCEPT !.at = "act", !.owns = TRUE]
            /\ obs' = TRUE /\ obsMic' \in Mics
    /\ UNCHANGED <<workOnly, saved, lock, failed, raced>>

\* A look at the devices creates a microphone input that is missing in OBS.
Created == IF work.live THEN {} ELSE {work.mic}

Act ==
    /\ work.at = "act"
    /\ GoTo(IF work.kind \in {"apply", "setup"} THEN "save" ELSE "close")
    /\ obs' = obs
    /\ IF work.kind = "refresh"
         THEN obsMic' \in {obsMic} \union Created /\ failed' = failed
         ELSE obsMic' = work.mic /\ failed' = failed \ {"obs"}
    /\ UNCHANGED <<workOnly, saved, lock, raced>>

\* The settings are saved after OBS took them.
SaveWork ==
    /\ work.at = "save"
    /\ GoTo("close")
    /\ saved' = work.mic
    /\ failed' = IF work.kind = "apply" THEN failed \ {"file"} ELSE failed
    /\ UNCHANGED <<workOnly, lock, obsVars, raced>>

WorkFails ==
    /\ work.at \in {"open", "act", "save"}
    /\ Fails
    /\ obsMic' \in (IF work.at = "act" /\ obs THEN {obsMic, work.mic} ELSE {obsMic})
    /\ UNCHANGED <<workOnly, saved, lock, obs, raced>>

\* RecorderRuntime.close: an OBS the worker did not launch is left running.
CloseWork ==
    /\ work.at = "close"
    /\ GoTo("done")
    /\ obs' = (obs /\ ~work.owns)
    /\ lock' = "none"
    /\ UNCHANGED <<workOnly, saved, obsMic, failed, raced>>

-----------------------------------------------------------------------------
(* The recorder thread.                                                     *)
recOnly == <<pageVars, work>>

LoadSettings ==
    /\ rec = "loading"
    /\ rec' = "checking" /\ recMic' = saved
    /\ UNCHANGED <<recOnly, saved, stopping, lock, obsVars, failed, raced>>

\* Its preflight may rewrite the file with the settings it has loaded.
Preflight ==
    /\ rec = "checking"
    /\ rec' \in {"opening", "off"}
    /\ \E changed \in BOOLEAN : saved' = IF changed THEN recMic ELSE saved
    /\ UNCHANGED <<recOnly, recMic, stopping, lock, obsVars, failed, raced>>

\* force_launch: an OBS that runs is taken over, otherwise one is launched.
OpenRecorder ==
    /\ rec = "opening" /\ lock = "none"
    /\ rec' = "launching" /\ lock' = "recorder"
    /\ obs' = TRUE
    /\ obsMic' \in (IF obs THEN {obsMic} ELSE Mics)
    /\ UNCHANGED <<recOnly, saved, recMic, stopping, failed, raced>>

Opened ==
    /\ rec = "launching"
    /\ \/ rec' = "profile" /\ obs' = obs
       \/ rec' = "off" /\ obs' = FALSE
    /\ lock' = "none"
    /\ UNCHANGED <<recOnly, saved, recMic, stopping, obsMic, failed, raced>>

\* Without the lock; a failure is only reported.
ApplyProfile ==
    /\ rec = "profile"
    /\ rec' = "watching"
    /\ \/ obsMic' = recMic /\ failed' = failed \ {"obs"}
       \/ obsMic' \in {obsMic, recMic} /\ failed' = failed \union {"obs"}
    /\ UNCHANGED <<recOnly, saved, recMic, stopping, lock, obs, raced>>

BeginRecording ==
    /\ rec = "watching" /\ ~stopping
    /\ rec' = "recording"
    /\ UNCHANGED <<recOnly, saved, recMic, stopping, lock, obsVars, failed, raced>>

\* stop_recording takes the lock.
FinishRecording ==
    /\ rec = "recording" /\ lock = "none"
    /\ rec' \in {"watching", "closing"}
    /\ UNCHANGED <<recOnly, saved, recMic, stopping, lock, obsVars, failed, raced>>

Stops ==
    /\ rec \in {"profile", "watching"}
    /\ rec' = "closing"
    /\ UNCHANGED <<recOnly, saved, recMic, stopping, lock, obsVars, failed, raced>>

CloseRecorder ==
    /\ rec = "closing" /\ lock = "none"
    /\ rec' = "off" /\ obs' = FALSE
    /\ UNCHANGED <<recOnly, saved, recMic, stopping, lock, obsMic, failed, raced>>

-----------------------------------------------------------------------------
PageStep == TimerFires \/ Finish \/ ShowPage
WorkStep == \/ Prepare \/ TakeLock \/ Open \/ Act \/ SaveWork \/ WorkFails \/ CloseWork
RecorderStep ==
    \/ LoadSettings \/ Preflight \/ OpenRecorder \/ Opened \/ ApplyProfile
    \/ BeginRecording \/ FinishRecording \/ Stops \/ CloseRecorder

Next ==
    \/ OpenSettings \/ GiveUp \/ Save \/ Reset \/ Back \/ RestoreFromTray
    \/ \E m \in Mics : Choose(m)
    \/ \E kind \in {"preflight", "setup"} : Check(kind)
    \/ PageStep \/ WorkStep \/ RecorderStep

Spec == Init /\ [][Next]_vars

(* The event loop runs, a worker and a call that holds the lock come to an  *)
(* end (every wait in them has a timeout), and the wait of show_settings too.*)
FairSpec == Spec /\ WF_vars(PageStep) /\ WF_vars(WorkStep) /\ WF_vars(Opened)
                 /\ WF_vars(GiveUp)

-----------------------------------------------------------------------------
(* Every variable keeps its type; the lock is held as the threads stand.    *)
TypeOK ==
    /\ page \in {"home", "opening", "settings"}
    /\ choice \in Mics /\ saved \in Mics /\ recMic \in Mics /\ obsMic \in Mics
    /\ audioOnly \in BOOLEAN /\ timer \in BOOLEAN /\ pending \in BOOLEAN
    /\ stopping \in BOOLEAN /\ obs \in BOOLEAN /\ raced \in BOOLEAN
    /\ work \in [kind : Kinds, live : BOOLEAN, mic : Mics, at : At, owns : BOOLEAN,
                 ok : BOOLEAN]
    /\ rec \in Recorder
    /\ lock = "recorder" <=> rec = "launching"
    /\ lock = "worker" <=> work.at \in {"open", "act", "save", "close"}
    /\ failed \subseteq {"file", "obs"}
    /\ choices \in 0 .. MaxChoices /\ visits \in 0 .. MaxVisits

(* Once nothing is under way, what the user chose last is what the page     *)
(* shows, what setting.json says and what the recorder's OBS uses, unless   *)
(* an operation failed, or the window was taken out of the tray and started *)
(* the recorder while the page was still at work.                           *)
LastChoiceWins ==
    Quiet /\ ~raced =>
      /\ "file" \notin failed => choice = saved
      /\ "obs" \notin failed /\ rec \in {"watching", "recording"} => obsMic = saved

(* A settings worker never ends the OBS the recorder works with, even when  *)
(* both run at the same time.                                               *)
RecorderKeepsObs == rec \in {"profile", "watching", "recording"} => obs

(* While a match is recorded only a live operation touches OBS, unless the  *)
(* recorder was started from the tray.                                      *)
OnlyLiveWhileRecording ==
    work.at \in {"open", "act"} /\ ~work.live /\ ~raced => rec # "recording"

\* How many steps of page and worker are left at most without another input of
\* the user: those of the worker, of the refresh after a quick setup, of the
\* pending operation, of the timer's, and of the page about to be shown.
WorkLeft == CASE work.at = "none" -> 0 [] work.at = "done" -> 1 [] work.at = "close" -> 2
              [] work.at = "save" -> 3 [] work.at = "act" -> 4 [] work.at = "open" -> 5
              [] work.at = "wait" -> 6 [] work.at = "prepare" -> 7
StepsLeft == WorkLeft + (IF Busy /\ work.kind = "setup" THEN 7 ELSE 0)
               + (IF pending THEN 7 ELSE 0) + (IF timer THEN 8 ELSE 0)
               + (IF page = "opening" THEN 8 ELSE 0)

(* Each step of page and worker brings the page nearer to its rest, and no  *)
(* step of the recorder takes it further from it: an operation that is      *)
(* applied late, or a failed one, is never taken up again by itself.        *)
RestCountsDown ==
    [][/\ PageStep \/ WorkStep \/ GiveUp => StepsLeft' < StepsLeft
       /\ RecorderStep => StepsLeft' = StepsLeft]_vars

(* The page comes to rest: no worker runs, nothing is held back or pending. *)
PageRests == ~Quiet ~> Quiet

=============================================================================
