------------------------- MODULE RecordingContract -------------------------
(* What the recorder promises its surroundings, without OBS, connections or  *)
(* control points: a run of the supervisor waits, records and waits again    *)
(* until it ends for good.                                                   *)
(*  - While it records it cannot be reserved for an update; once reserved it *)
(*    never records again.                                                   *)
(*  - Once it has lost track of a recording (a stop whose effect is unknown) *)
(*    it never goes back to waiting for another game.                        *)
(*  - It tells the verdict of a recording after the recording is over, once. *)
VARIABLES phase, barred, lost, verdict

contractVars == <<phase, barred, lost, verdict>>

Init == phase = "waiting" /\ barred = FALSE /\ lost = FALSE /\ verdict = "none"

Reserve ==
    /\ phase # "recording" /\ barred' = TRUE
    /\ UNCHANGED <<phase, lost, verdict>>

(* The verdict of the previous recording is forgotten.                       *)
NextGame ==
    /\ phase = "waiting" /\ ~lost /\ verdict' = "none"
    /\ UNCHANGED <<phase, barred, lost>>

Begin ==
    /\ phase = "waiting" /\ ~barred /\ ~lost /\ verdict = "none"
    /\ phase' = "recording"
    /\ UNCHANGED <<barred, lost, verdict>>

LoseTrack ==
    /\ phase \in {"recording", "ended"} /\ lost' = TRUE
    /\ UNCHANGED <<phase, barred, verdict>>

(* The recording is over: to the next game only if nothing is lost.          *)
Over ==
    /\ phase = "recording"
    /\ phase' \in IF lost THEN {"ended"} ELSE {"waiting", "ended"}
    /\ verdict' \in {verdict, "failed"}
    /\ UNCHANGED <<barred, lost>>

(* Success is announced while waiting again, failure of an abort at the end. *)
Announce ==
    /\ verdict = "none"
    /\ \/ phase = "waiting" /\ verdict' = "completed"
       \/ phase = "ended" /\ verdict' = "failed"
    /\ UNCHANGED <<phase, barred, lost>>

End ==
    /\ phase = "waiting" /\ phase' = "ended"
    /\ UNCHANGED <<barred, lost, verdict>>

Next == Reserve \/ NextGame \/ Begin \/ LoseTrack \/ Over \/ Announce \/ End

Spec == Init /\ [][Next]_contractVars

=============================================================================
