--------------------------- MODULE ReplayLibrary ---------------------------
(* The files of the recordings and who works on them (player.py,            *)
(* recording_library.py, storage_policy.py, session_log.py): the worker     *)
(* thread that has FFmpeg cut a clip out of the opened recording, the       *)
(* window, which cancels it and moves recordings to the trash, and the      *)
(* recorder, which saves a session and then removes the oldest ones until   *)
(* the storage limit holds.                                                 *)
(*                                                                          *)
(* A recording is known by its number, the order in which it was saved: a   *)
(* video, a log, and one file name for its clips.  FFmpeg is a process of   *)
(* its own that may hang, fail, and survive the application.  Windows does  *)
(* not remove a file that a running FFmpeg has open; any removal may fail   *)
(* for other reasons.                                                       *)
EXTENDS Naturals, Sequences, FiniteSets

CONSTANTS
    Old,        \* recordings in the library when the application starts
    Recs,       \* their numbers and those of the sessions still to come
    Limit,      \* max_size_bytes; a video counts two, a clip one
    Opened,     \* bound: the recordings the user opens
    MaxExports, MaxDeletions  \* bounds: what the user starts

ASSUME LibraryAssumption ==
    /\ IsFiniteSet(Recs) /\ Recs = 1..Cardinality(Recs)
    /\ Old \in Nat /\ Old <= Cardinality(Recs)
    /\ Opened \subseteq Recs /\ Limit \in Nat /\ MaxExports \in Nat /\ MaxDeletions \in Nat

ENCODER_PROFILES == 1..2   \* h264_nvenc, then libx264
None == 0                  \* no recording, no process

VARIABLES
    video, log,  \* the recordings whose file is there
    clip,        \* the clip of each: none, partial or whole
    ff,          \* the FFmpeg of each encoder in the running export
    stray,       \* an export left FFmpeg behind on this clip: none, live, gone
    \* ClipExportWorker
    w, rec, enc, cancel,
    process,     \* self.process
    asked, term, \* the process that was sent terminate, and whether that worked
    safe,        \* retry_safe of the attempt
    verdict,     \* _terminal_state
    left,        \* the message tells of a file or process left behind
    \* the window
    gui, current, snapshot, plan, todo,
    \* the recorder
    rp, recorded, sweep, entry,
    stuck,       \* logs this sweep could not remove
    exports, deletions

disk == <<video, log, clip>>
ffmpeg == <<ff, stray>>
workerVars == <<w, rec, enc, cancel, process, asked, term, safe, verdict, left>>
guiVars == <<gui, current, snapshot, plan, todo>>
recVars == <<rp, recorded, sweep, entry, stuck>>
counts == <<exports, deletions>>
vars == <<disk, ffmpeg, workerVars, guiVars, recVars, counts>>

NoPlan == [rec |-> None, video |-> FALSE, clip |-> FALSE]

Init ==
    /\ video = 1..Old /\ log = 1..Old /\ clip = [r \in Recs |-> "none"]
    /\ ff = [e \in ENCODER_PROFILES |-> "none"] /\ stray = [r \in Recs |-> "none"]
    /\ w = "off" /\ rec = None /\ enc = 1 /\ cancel = FALSE /\ process = None
    /\ asked = None /\ term = TRUE /\ safe = TRUE /\ verdict = "none" /\ left = FALSE
    /\ gui = "idle" /\ current = None /\ snapshot = None /\ plan = NoPlan /\ todo = <<>>
    /\ rp = "idle" /\ recorded = Old /\ sweep = {} /\ entry = None
    /\ stuck = {}
    /\ exports = 0 /\ deletions = 0

-----------------------------------------------------------------------------
(* FFmpeg: it writes, and exits with a whole clip, without one when there    *)
(* was nothing to encode (an empty file counts as none), or with an error.   *)
Running(e) == e \in ENCODER_PROFILES /\ ff[e] = "live"
Writing(r) == stray[r] = "live" \/ (r = rec /\ \E e \in ENCODER_PROFILES : Running(e))

FfWrites ==
    /\ \E e \in ENCODER_PROFILES : Running(e)
    /\ rec \in video /\ clip' = [clip EXCEPT ![rec] = "partial"]
    /\ UNCHANGED <<video, log, ffmpeg, workerVars, guiVars, recVars, counts>>

FfExits ==
    /\ \E e \in ENCODER_PROFILES : \E code \in {"ok", "bad"} :
          /\ Running(e) /\ ff' = [ff EXCEPT ![e] = code]
          /\ \/ code = "ok" /\ rec \in video /\ clip' = [clip EXCEPT ![rec] = "whole"]
             \/ (code = "ok" => clip[rec] = "none") /\ UNCHANGED clip
    /\ UNCHANGED <<video, log, stray, workerVars, guiVars, recVars, counts>>

StrayGoesOn ==
    /\ \E r \in Recs : /\ stray[r] = "live"
                       /\ \/ clip' = [clip EXCEPT ![r] = "partial"] /\ UNCHANGED stray
                          \/ /\ clip' \in {clip, [clip EXCEPT ![r] = "whole"]}
                             /\ stray' = [stray EXCEPT ![r] = "gone"]
    /\ UNCHANGED <<video, log, ff, workerVars, guiVars, recVars, counts>>

-----------------------------------------------------------------------------
(* ClipExportWorker.                                                         *)
Goto(from, to) == w = from /\ w' = to
OthersOfWorker == UNCHANGED <<guiVars, recVars, counts>>
SameFiles == UNCHANGED <<disk, ffmpeg>>

(* unlink(missing_ok=True) of the clip.                                      *)
Unlinked(ok) ==
    \/ ok /\ ~(clip[rec] # "none" /\ Writing(rec)) /\ clip' = [clip EXCEPT ![rec] = "none"]
    \/ ~ok /\ clip[rec] # "none" /\ UNCHANGED clip

(* _terminate_process_once, under the lock.                                  *)
TerminateOnce(p) ==
    IF asked # p /\ Running(p) THEN asked' = p /\ term' \in BOOLEAN
    ELSE UNCHANGED <<asked, term>>

(* _emit_failure or _emit_success, and the end of run().  An FFmpeg that is  *)
(* still running is nobody's from here on.                                   *)
Ends(v) ==
    /\ w' = "done" /\ verdict' = v
    /\ ff' = [e \in ENCODER_PROFILES |-> "none"]
    /\ stray' = IF \E e \in ENCODER_PROFILES : Running(e) THEN [stray EXCEPT ![rec] = "live"] ELSE stray

Check ==
    /\ w = "check" /\ w' = IF cancel THEN "cancelled" ELSE "clean"
    /\ SameFiles /\ OthersOfWorker
    /\ UNCHANGED <<rec, enc, cancel, process, asked, term, safe, verdict, left>>

Clean ==
    /\ w = "clean" /\ UNCHANGED <<video, log, rec, enc, cancel, process, asked, term, safe>> /\ OthersOfWorker
    /\ \/ Unlinked(TRUE) /\ w' = "spawn" /\ UNCHANGED <<verdict, left, ffmpeg>>
       \/ Unlinked(FALSE) /\ Ends("failed") /\ left' = TRUE

Spawn ==
    /\ w = "spawn" /\ UNCHANGED <<disk, stray, rec, enc, cancel, process, asked, term, verdict, left>>
    /\ OthersOfWorker
    /\ \/ w' = "attach" /\ ff' = [ff EXCEPT ![enc] = "live"] /\ UNCHANGED safe
       \/ w' = "after" /\ safe' = TRUE /\ UNCHANGED ff    \* there is no FFmpeg

(* _attach_process; after a cancel FFmpeg is terminated right away.          *)
Attach ==
    /\ w = "attach" /\ w' = IF cancel THEN "stopping" ELSE "read"
    /\ process' = enc /\ asked' = None
    /\ SameFiles /\ OthersOfWorker /\ UNCHANGED <<rec, enc, cancel, term, safe, verdict, left>>

(* Mutant: a cancel is not looked at while FFmpeg runs.                      *)
ReadDeaf ==
    /\ w = "read" /\ ~Running(enc) /\ w' = "exited"
    /\ SameFiles /\ OthersOfWorker
    /\ UNCHANGED <<rec, enc, cancel, process, asked, term, safe, verdict, left>>

(* The loops over the output of FFmpeg and over its exit: a cancel or an     *)
(* exception leads to _stop_process_after_error.                             *)
Read ==
    /\ w = "read"
    /\ \/ w' = "stopping"                       \* a cancel, or an exception of the reader
       \/ ~cancel /\ ~Running(enc) /\ w' = "exited"
    /\ SameFiles /\ OthersOfWorker
    /\ UNCHANGED <<rec, enc, cancel, process, asked, term, safe, verdict, left>>

Exited ==
    /\ w = "exited" /\ process' = None /\ safe' = TRUE /\ ff' = [ff EXCEPT ![enc] = "none"]
    /\ w' = IF ~cancel /\ ff[enc] = "ok" /\ clip[rec] # "none" THEN "emit" ELSE "after"
    /\ OthersOfWorker /\ UNCHANGED <<disk, stray>> /\ UNCHANGED <<rec, enc, cancel, asked, term, verdict, left>>

Stopping ==
    /\ Goto("stopping", "waiting") /\ TerminateOnce(enc)
    /\ SameFiles /\ OthersOfWorker /\ UNCHANGED <<rec, enc, cancel, process, safe, verdict, left>>

(* Mutant: the end of FFmpeg is taken for granted once it was asked for.     *)
WaitingTrustful ==
    /\ Goto("waiting", "after") /\ process' = None /\ safe' = TRUE
    /\ ff' = [ff EXCEPT ![enc] = IF Running(enc) THEN "live" ELSE "none"]
    /\ OthersOfWorker /\ UNCHANGED <<disk, stray, rec, enc, cancel, asked, term, verdict, left>>

(* Mutant: the process of the failed attempt is not detached.                *)
WaitingAttached ==
    /\ Goto("waiting", "after") /\ UNCHANGED process
    /\ ff' = [ff EXCEPT ![enc] = IF Running(enc) THEN "live" ELSE "none"]
    /\ safe' = ~Running(enc)
    /\ OthersOfWorker /\ UNCHANGED <<disk, stray, rec, enc, cancel, asked, term, verdict, left>>

(* terminate failed, or the bounded wait sees the exit or runs out.          *)
Waiting ==
    /\ Goto("waiting", "after") /\ process' = None
    /\ ff' = [ff EXCEPT ![enc] = IF Running(enc) THEN "live" ELSE "none"]
    /\ \/ asked = enc /\ ~term /\ safe' = FALSE
       \/ (asked = enc => term) /\ safe' = ~Running(enc)
    /\ OthersOfWorker /\ UNCHANGED <<disk, stray, rec, enc, cancel, asked, term, verdict, left>>

(* The attempt failed.                                                       *)
After ==
    /\ w = "after" /\ UNCHANGED <<video, log, rec, enc, cancel, process, asked, term, safe>> /\ OthersOfWorker
    /\ \/ ~safe /\ Ends("failed") /\ left' = TRUE /\ UNCHANGED clip
       \/ safe /\ cancel /\ w' = "cancelled" /\ UNCHANGED <<clip, verdict, left, ffmpeg>>
       \/ /\ safe /\ ~cancel /\ w' = "recheck" /\ UNCHANGED <<verdict, ffmpeg>>
          /\ \E ok \in BOOLEAN : Unlinked(ok) /\ left' = ~ok

Recheck ==
    /\ w = "recheck" /\ UNCHANGED <<disk, rec, cancel, process, asked, term, safe, left>> /\ OthersOfWorker
    /\ IF ~cancel /\ enc = 1 THEN w' = "check" /\ enc' = 2 /\ UNCHANGED <<verdict, ffmpeg>>
       ELSE Ends("failed") /\ UNCHANGED enc

(* Mutant: a cancel after the last look at it is forgotten.                  *)
EmitRegardless ==
    /\ w = "emit" /\ UNCHANGED <<disk, rec, enc, cancel, process, asked, term, safe, left>> /\ OthersOfWorker
    /\ Ends("finished")

Emit ==
    /\ w = "emit" /\ UNCHANGED <<disk, rec, enc, cancel, process, asked, term, safe, left>> /\ OthersOfWorker
    /\ IF cancel THEN w' = "cancelled" /\ UNCHANGED <<verdict, ffmpeg>> ELSE Ends("finished")

CancelWithCleanup ==
    /\ w = "cancelled" /\ UNCHANGED <<video, log, rec, enc, cancel, process, asked, term, safe>> /\ OthersOfWorker
    /\ Ends("failed") /\ \E ok \in BOOLEAN : Unlinked(ok) /\ left' = ~ok

NoWorker ==
    /\ w' = "off" /\ rec' = None /\ enc' = 1 /\ cancel' = FALSE /\ process' = None
    /\ asked' = None /\ term' = TRUE /\ safe' = TRUE /\ verdict' = "none" /\ left' = FALSE

WorkerStep ==
    \/ Check \/ Clean \/ Spawn \/ Attach \/ Read \/ Exited \/ Stopping \/ Waiting
    \/ After \/ Recheck \/ Emit \/ CancelWithCleanup

-----------------------------------------------------------------------------
(* The window.  The finished signal of the worker is handled before the next *)
(* input of the user.                                                        *)
IsRunning == w \notin {"off", "done"}
OthersOfGui == UNCHANGED recVars
SameWorker == UNCHANGED <<ff, stray, workerVars>>
Input == gui = "idle" /\ w # "done"

WorkerFinished ==
    /\ gui \in {"idle", "asking"} /\ w = "done" /\ NoWorker
    /\ UNCHANGED <<disk, ffmpeg, guiVars, recVars, counts>>

LoadData(r) ==
    /\ Input /\ r \in Opened \intersect log \intersect video /\ current' = r
    /\ UNCHANGED <<disk, gui, snapshot, plan, todo, counts>> /\ SameWorker /\ OthersOfGui

StartClipExport ==
    /\ Input /\ ~IsRunning /\ current # None
    /\ exports < MaxExports /\ exports' = exports + 1
    /\ w' = "check" /\ rec' = current
    /\ UNCHANGED <<enc, cancel, process, asked, term, safe, verdict, left>>   \* a new worker
    /\ UNCHANGED <<disk, ffmpeg, guiVars, deletions>> /\ OthersOfGui

(* delete_selected: the plan is made before the question is asked.           *)
PlanDeletion(r) ==
    /\ Input /\ r \in log /\ deletions < MaxDeletions /\ deletions' = deletions + 1
    /\ plan' = [rec |-> r, video |-> r \in video, clip |-> r \in video /\ clip[r] # "none"]
    /\ gui' = "asking"
    /\ UNCHANGED <<disk, current, snapshot, todo, exports>> /\ SameWorker /\ OthersOfGui

Paths ==
    (IF plan.video /\ plan.rec \in video THEN <<"video">> ELSE <<>>)
    \o (IF plan.clip /\ clip[plan.rec] # "none" THEN <<"clip">> ELSE <<>>)
    \o (IF plan.rec \in log THEN <<"log">> ELSE <<>>)
BeginsDelete == gui' = (IF Paths = <<>> THEN "idle" ELSE "delete") /\ todo' = Paths

(* prepare_recording_deletion: only the opened recording is put away first.  *)
Answer ==
    /\ gui = "asking" /\ UNCHANGED <<disk, current, snapshot, counts>> /\ SameWorker /\ UNCHANGED recVars
    /\ \/ gui' = "idle" /\ plan' = NoPlan /\ UNCHANGED todo
       \/ /\ UNCHANGED plan
          /\ IF plan.video /\ current = plan.rec THEN gui' = "cancel" /\ UNCHANGED todo
             ELSE BeginsDelete

(* shutdown_player and cancel_background_tasks: cancel(), and a bounded wait.*)
Cancel ==
    /\ gui = "cancel" /\ UNCHANGED <<current, plan, todo>>
    /\ IF IsRunning /\ verdict = "none"
       THEN cancel' = TRUE /\ snapshot' = process /\ gui' = "terminate"
       ELSE gui' = "wait" /\ UNCHANGED <<cancel, snapshot>>
    /\ SameFiles /\ UNCHANGED <<w, rec, enc, process, asked, term, safe, verdict, left, counts, recVars>>

CancelTerminates ==
    /\ gui = "terminate" /\ gui' = "wait" /\ snapshot' = None /\ TerminateOnce(snapshot)
    /\ SameFiles /\ UNCHANGED <<w, rec, enc, cancel, process, safe, verdict, left, counts, recVars>>
    /\ UNCHANGED <<current, plan, todo>>

Wait ==
    /\ gui = "wait" /\ UNCHANGED <<disk, snapshot, plan, counts>> /\ SameWorker /\ UNCHANGED recVars
    /\ \/ ~IsRunning /\ current' = None /\ BeginsDelete
       \/ IsRunning /\ gui' = "idle" /\ UNCHANGED <<current, todo>>   \* refused

(* RecordingLibrary.delete with _move_to_trash: the first failure ends it.   *)
Busy(r, kind) == kind \in {"video", "clip"} /\ Writing(r)
Exists(r, kind) == CASE kind = "video" -> r \in video [] kind = "clip" -> clip[r] # "none"
                     [] OTHER -> r \in log
Remove(r, kind) ==
    /\ video' = IF kind = "video" THEN video \ {r} ELSE video
    /\ log' = IF kind = "log" THEN log \ {r} ELSE log
    /\ clip' = IF kind = "clip" THEN [clip EXCEPT ![r] = "none"] ELSE clip

(* Mutant: the deletion goes on after a failure.                             *)
DeleteNextRegardless ==
    /\ gui = "delete" /\ UNCHANGED <<current, snapshot, counts>> /\ SameWorker /\ UNCHANGED recVars
    /\ todo' = Tail(todo)
    /\ IF Len(todo) = 1 THEN gui' = "idle" /\ plan' = NoPlan ELSE UNCHANGED <<gui, plan>>
    /\ \/ /\ Exists(plan.rec, Head(todo)) /\ ~Busy(plan.rec, Head(todo))
          /\ Remove(plan.rec, Head(todo))
       \/ UNCHANGED disk

DeleteNext ==
    /\ gui = "delete" /\ UNCHANGED <<current, snapshot, counts>> /\ SameWorker /\ UNCHANGED recVars
    /\ \/ /\ Exists(plan.rec, Head(todo)) /\ ~Busy(plan.rec, Head(todo)) /\ Remove(plan.rec, Head(todo))
          /\ todo' = Tail(todo)
          /\ IF Len(todo) = 1 THEN gui' = "idle" /\ plan' = NoPlan ELSE UNCHANGED <<gui, plan>>
       \/ gui' = "idle" /\ plan' = NoPlan /\ todo' = <<>> /\ UNCHANGED disk

-----------------------------------------------------------------------------
(* The recorder: save_json and enforce_storage_limit.                        *)
Total == 2 * Cardinality(video) + Cardinality({r \in Recs : clip[r] # "none"})
OthersOfRecorder == UNCHANGED <<ffmpeg, workerVars, guiVars, counts>>

Record ==
    /\ rp = "idle" /\ recorded + 1 \in Recs /\ rp' = "save"
    /\ recorded' = recorded + 1 /\ video' = video \union {recorded + 1}
    /\ UNCHANGED <<log, clip, sweep, entry, stuck>> /\ OthersOfRecorder

(* os.replace makes the log appear whole; when it fails there is none.       *)
SaveJson ==
    /\ rp = "save" /\ UNCHANGED <<video, clip, recorded, entry>> /\ OthersOfRecorder
    /\ \/ /\ log' = log \union {recorded} /\ stuck' = {}
          /\ IF Total > Limit THEN rp' = "entry" /\ sweep' = log' ELSE rp' = "idle" /\ sweep' = {}
       \/ rp' = "idle" /\ UNCHANGED <<log, sweep, stuck>>

(* The oldest entry that is not to be kept: its clips are listed, then its    *)
(* video is deleted.  What fails here skips the clips, not the log.          *)
SweepFile(r, kind, next) ==
    \/ ~Busy(r, kind) /\ Remove(r, kind) /\ rp' = next
    \/ Exists(r, kind) /\ rp' = "log" /\ UNCHANGED disk

SweepEnds ==
    /\ rp = "entry" /\ sweep \subseteq {recorded} /\ rp' = "idle" /\ sweep' = {}
    /\ UNCHANGED <<disk, recorded, entry, stuck>> /\ OthersOfRecorder

SweepVideo ==
    /\ rp = "entry" /\ UNCHANGED <<recorded, stuck>> /\ OthersOfRecorder
    /\ \E r \in sweep \ {recorded} :
          /\ \A q \in sweep \ {recorded} : r <= q
          /\ sweep' = sweep \ {r} /\ entry' = r
          /\ SweepFile(r, "video", IF clip[r] # "none" THEN "clip" ELSE "log")

SweepClip ==
    /\ rp = "clip" /\ UNCHANGED <<recorded, sweep, entry, stuck>> /\ OthersOfRecorder
    /\ SweepFile(entry, "clip", "log")

(* Mutant: a log that cannot be removed ends the clean-up.                   *)
SweepLogStops ==
    /\ rp = "log" /\ UNCHANGED recorded /\ OthersOfRecorder /\ entry' = None
    /\ \/ /\ Remove(entry, "log") /\ UNCHANGED stuck
          /\ IF Total' > Limit THEN rp' = "entry" /\ UNCHANGED sweep ELSE rp' = "idle" /\ sweep' = {}
       \/ entry \in log /\ UNCHANGED disk /\ stuck' = stuck \union {entry} /\ rp' = "idle" /\ sweep' = {}

SweepLog ==
    /\ rp = "log" /\ UNCHANGED <<recorded>> /\ OthersOfRecorder
    /\ entry' = None
    /\ \/ Remove(entry, "log") /\ UNCHANGED stuck
       \/ entry \in log /\ UNCHANGED disk /\ stuck' = stuck \union {entry}
    /\ IF Total' > Limit THEN rp' = "entry" /\ UNCHANGED sweep ELSE rp' = "idle" /\ sweep' = {}

-----------------------------------------------------------------------------
(* The application dies and is started again; FFmpeg goes on.                *)
Crash ==
    /\ ff' = [e \in ENCODER_PROFILES |-> "none"]
    /\ stray' = IF \E e \in ENCODER_PROFILES : Running(e) THEN [stray EXCEPT ![rec] = "live"] ELSE stray
    /\ NoWorker /\ gui' = "idle" /\ current' = None /\ snapshot' = None /\ plan' = NoPlan /\ todo' = <<>>
    /\ rp' = "idle" /\ sweep' = {} /\ entry' = None /\ stuck' = {}
    /\ UNCHANGED <<disk, recorded, exports, deletions>>

User == StartClipExport \/ \E r \in Recs : LoadData(r) \/ PlanDeletion(r)
Window == WorkerFinished \/ Answer \/ Cancel \/ CancelTerminates \/ Wait \/ DeleteNext
Recorder == Record \/ SaveJson \/ SweepEnds \/ SweepVideo \/ SweepClip \/ SweepLog
Next == FfWrites \/ FfExits \/ StrayGoesOn \/ WorkerStep \/ User \/ Window \/ Recorder \/ Crash

Spec == Init /\ [][Next]_vars /\ WF_vars(WorkerStep)

-----------------------------------------------------------------------------
(* Every variable has its type, and self.process is the FFmpeg of the        *)
(* running attempt or none: no attempt leaves its process to the next.       *)
TypeOK ==
    /\ video \subseteq Recs /\ log \subseteq Recs
    /\ clip \in [Recs -> {"none", "partial", "whole"}]
    /\ ff \in [ENCODER_PROFILES -> {"none", "live", "ok", "bad"}]
    /\ stray \in [Recs -> {"none", "live", "gone"}]
    /\ w \in {"off", "check", "clean", "spawn", "attach", "read", "exited", "stopping",
              "waiting", "after", "recheck", "emit", "cancelled", "done"}
    /\ rec \in Recs \union {None} /\ enc \in ENCODER_PROFILES /\ cancel \in BOOLEAN
    /\ process \in {None, enc} /\ asked \in {None} \union ENCODER_PROFILES /\ term \in BOOLEAN
    /\ safe \in BOOLEAN /\ verdict \in {"none", "finished", "failed"} /\ left \in BOOLEAN
    /\ gui \in {"idle", "asking", "cancel", "terminate", "wait", "delete"}
    /\ current \in Recs \union {None} /\ snapshot \in {None} \union ENCODER_PROFILES
    /\ plan \in [rec : Recs \union {None}, video : BOOLEAN, clip : BOOLEAN]
    /\ Len(todo) <= 3 /\ \A i \in DOMAIN todo : todo[i] \in {"video", "clip", "log"}
    /\ rp \in {"idle", "save", "entry", "clip", "log"} /\ recorded \in Recs \union {0}
    /\ sweep \subseteq Recs /\ entry \in Recs \union {None} /\ stuck \subseteq Recs
    /\ exports \in 0..MaxExports /\ deletions \in 0..MaxDeletions

(* The second encoder is not started while the FFmpeg of the first may still *)
(* write the same file (retry_safe).                                         *)
FallbackAlone == \A e, f \in ENCODER_PROFILES : Running(e) /\ Running(f) => e = f

(* The verdict of an export tells what is on the disk: finished is never     *)
(* said of a part of a clip or after a cancel, and a failure that tells of   *)
(* nothing left behind has left nothing.  An earlier export that could not   *)
(* stop its FFmpeg may have written to the same file.                        *)
VerdictTellsTheFile ==
    [][verdict' # verdict /\ rec # None /\ rec' = rec /\ stray'[rec] = "none" =>
          /\ verdict' = "finished" => ~cancel /\ clip'[rec] \in {"whole", "none"}
          /\ verdict' = "failed" /\ ~left' => clip'[rec] = "none"]_vars

(* A cancel ends the worker, whatever it was doing and even if FFmpeg hangs. *)
CancelEnds == cancel ~> (w \in {"off", "done"})

(* How many steps of the worker are left at most after a cancel.             *)
StepsLeft ==
    CASE w = "off" -> 0 [] w = "done" -> 1 [] w \in {"cancelled", "recheck"} -> 2
      [] w \in {"check", "after", "emit"} -> 3 [] w \in {"exited", "waiting"} -> 4
      [] w = "stopping" -> 5 [] w \in {"attach", "read"} -> 6 [] w = "spawn" -> 7
      [] w = "clean" -> 8

(* A cancelled export has fewer steps left after each of its own, and keeps  *)
(* its cancel until it is gone: it starts no other encoder and goes round no *)
(* wait again, whatever FFmpeg, the window and the recorder do.              *)
CancelCountsDown ==
    [][cancel => \/ StepsLeft' < StepsLeft /\ (cancel' \/ w' = "off")
                 \/ UNCHANGED <<w, enc, cancel>>]_vars

(* The user's deletion takes the log last, so that what could not be removed *)
(* stays listed (RecordingLibrary.delete).  An export of the same recording  *)
(* that goes on, or was left behind, may write its clip again.               *)
LogOutlivesFiles ==
    [][gui = "delete" /\ plan.rec \in log \ log' /\ rp' = rp =>
          /\ plan.video => plan.rec \notin video
          /\ plan.clip /\ rec # plan.rec /\ stray[plan.rec] = "none" => clip[plan.rec] = "none"]_vars

(* A file that cannot be removed does not end the clean-up: it stops when    *)
(* the limit holds or when every other recording has been tried.             *)
SweepGoesOn ==
    [][(SweepEnds \/ SweepLog) /\ rp' = "idle" =>
          Total' <= Limit \/ log' \subseteq stuck' \union {recorded}]_vars

(* A deletion that reports no error has taken the clips of the recording,    *)
(* unless an export of it was still at work.                                 *)
DeletionTakesClips ==
    [][gui = "delete" /\ gui' = "idle" /\ disk' # disk /\ rp' = rp
          /\ rec # plan.rec /\ stray[plan.rec] = "none" => clip'[plan.rec] = "none"]_vars

=============================================================================
