--------------------------- MODULE GameDetection ---------------------------
(* How the recorder finds out that a League of Legends match begins and     *)
(* ends: wait_for_game_start_async, record_until_end_async and the detector *)
(* of recording_state.py, inside the loop of the supervisor.  Three outside  *)
(* sources are polled: the Live Client of the running game, the LCU of the   *)
(* launcher (gameflow phase and session) and the list of processes.  None is *)
(* reliable, none is in step with another, and every poll is an await during *)
(* which the match goes on.                                                  *)
(*                                                                           *)
(* One turn of a polling loop is one unit of time, so the graces (seconds in *)
(* the code) are numbers of polls here.                                      *)
(*                                                                           *)
(* RecordingSession leaves open what this module decides.  Some names begin  *)
(* with Watch so that RecorderProofs can extend both modules.                *)
EXTENDS Integers, FiniteSets

CONSTANTS Limit,         \* end_error_limit
          MissingGrace,  \* end_missing_grace_sec
          TempGrace,     \* end_temporary_failure_grace_sec
          ContextGrace,  \* gameflow_inactive_grace_sec, game_process_missing_grace_sec
          Attempts,      \* polls of the Live Client after an LCU start
          Modes,         \* what LCU and Live Client may call the mode of a match
          MaxMatches, MaxLag, MaxGlitch, MaxOdd, MaxFailures

Classes == {"none", "lol", "tft"}
ASSUME ModesAssumption == Modes \subseteq [lcu : Classes, live : Classes]
ASSUME LimitsAssumption ==
  /\ Limit \in Nat \ {0} /\ Attempts \in Nat \ {0} /\ MaxMatches \in Nat \ {0}
  /\ MissingGrace \in Nat /\ TempGrace \in Nat /\ ContextGrace \in Nat
  /\ MaxGlitch \in Nat /\ MaxFailures \in Nat /\ MaxLag \in Nat
  /\ MaxOdd \in 0 .. Limit - 1
  /\ MaxLag <= Attempts

VARIABLES
  match, stage,       \* the match the user plays and how far it is
  class,              \* what the LCU and the Live Client call its mode
  lag,                \* polls for which the LCU still calls a closed game started
  quiet,              \* polls in a row the running game left unanswered
  odd,                \* wrong answers about phase and process still possible
  since,              \* polls of one loop since the game closed
  sight,              \* the process list can be read
  liveIds,            \* the Live Client names the match
  at,
  meta,               \* match_metadata and _tft_classification_source
  held,               \* the grace ended with an answer of the Live Client
  left,               \* attempts the grace has left, or failures until the game is clear
  clearFirst, lastId, \* _require_game_clear, _last_completed_game_id
  det, got,           \* RecordingEndDetector; the last poll found the game
  failures,
  rec,                \* the match being or last recorded
  known, done, blind, failed  \* history, for the properties

world == <<match, stage, class, lag, quiet, odd, since, sight, liveIds>>
recorder == <<meta, held, left, clearFirst, lastId, det, got, failures, rec>>
history == <<known, done, blind, failed>>
watchVars == <<world, at, recorder, history>>

Watching == {"phase", "session", "live", "grace", "recheck", "recheckSession"}
Recording == {"record", "flow", "process", "events"}
Sources == {"none", "lcu", "live"}

Least(a, b) == IF a < b THEN a ELSE b
Most(a, b) == IF a > b THEN a ELSE b

NoMeta == [id |-> 0, class |-> "none", phase |-> "none", src |-> "none", tsrc |-> "none"]
Off == [n |-> 0, age |-> 0]
Idle == [missing |-> Off, temp |-> Off, flow |-> Off, proc |-> Off]

(* Polls after which a closed game has ended every recording: with the       *)
(* process list, one grace; without it, not-in-game answers restart the      *)
(* grace of failures, and failures delay those answers.                      *)
FailEnd == Most(Limit, TempGrace + 1)
MinGap == IF sight THEN Most(Limit, ContextGrace + 1)
          ELSE FailEnd + Most((Limit - 1) * FailEnd, MissingGrace + FailEnd - 1)

---------------------------------------------------------------------------
(* What the sources may answer now.                                          *)

LiveAnswers ==
  CASE stage = "lobby" -> {"fail"}
    [] stage \in {"loading", "closed"} -> {"missing", "fail"}
    [] OTHER -> {"game"} \cup (IF quiet < MaxGlitch THEN {"fail"} ELSE {})

TruePhases ==
  CASE stage = "lobby" -> {"lobby"}
    [] stage \in {"loading", "running"} -> {"start"}
    [] stage = "over" -> {"start", "ended"}
    [] OTHER -> IF lag > 0 THEN {"start", "ended"} ELSE {"ended"}

Phases == TruePhases \cup {"unknown"}

(* A restarted launcher reports no phase for a moment, also to who watches.  *)
WrongPhases == IF odd > 0 /\ stage = "running" THEN {"lobby"} ELSE {}

(* A session names the match; its mode may still be missing.                 *)
Sessions ==
  {NoMeta} \cup
  IF stage = "lobby" THEN {}
  ELSE [id : {match}, class : {class.lcu, "none"}, phase : TruePhases, src : {"lcu"}, tsrc : {"none"}]

LiveData == [id |-> IF liveIds THEN match ELSE 0, class |-> class.live,
             phase |-> "none", src |-> "live", tsrc |-> "none"]

ProcessAnswers ==
  (IF sight THEN {} ELSE {"unknown"}) \cup
  (IF sight THEN {IF stage \in {"loading", "running", "over"} THEN "yes" ELSE "no"} ELSE {})

(* What a poll of the Live Client does to the world's own counters.          *)
Answered(r) ==
  /\ quiet' = IF r = "fail" /\ stage \in {"running", "over"} THEN quiet + 1 ELSE 0
  /\ lag' = IF stage = "closed" /\ lag > 0 THEN lag - 1 ELSE lag
  /\ since' = IF stage \in {"closed", "lobby"} /\ at \in {"record", "clear"}
                THEN Least(since + 1, MinGap) ELSE 0
  /\ UNCHANGED <<match, stage, class, odd, sight, liveIds>>

---------------------------------------------------------------------------
(* _update_waiting_match_metadata: one answer a merged into m.               *)

IsTft(m) == m.class = "tft"

NewMatch(m, a) ==
  \/ m.id # 0 /\ a.id # 0 /\ m.id # a.id
  \/ /\ m.id = 0 /\ a.id = 0
     /\ a.src = IF m.tsrc # "none" THEN m.tsrc ELSE m.src
     /\ a.class # "none" /\ m.class # "none" /\ a.class # m.class

OutsideGame(m, a) == a.phase = "lobby" /\ m.phase # "lobby"

Kept(m, a) == IF NewMatch(m, a) \/ OutsideGame(m, a)
                THEN [NoMeta EXCEPT !.phase = m.phase] ELSE m

(* The LCU's answer replaces what was there, except that a TFT stays a TFT.  *)
Updated(m, a) ==
  LET k == Kept(m, a) IN
  [id |-> IF a.id = 0 THEN k.id ELSE a.id,
   class |-> IF IsTft(k) \/ a.class = "none" THEN k.class ELSE a.class,
   phase |-> IF a.phase = "none" THEN k.phase ELSE a.phase,
   src |-> IF a.src = "none" THEN k.src ELSE a.src,
   tsrc |-> IF IsTft(a) THEN a.src ELSE k.tsrc]

(* The Live Client's answer only fills in what is missing, except for a TFT. *)
UpdatedLive(m, a) ==
  LET k == Kept(m, a) IN
  [id |-> IF k.id = 0 THEN a.id ELSE k.id,
   class |-> IF IsTft(a) \/ k.class = "none" THEN a.class ELSE k.class,
   phase |-> k.phase,
   src |-> IF k.src = "none" THEN a.src ELSE k.src,
   tsrc |-> IF IsTft(a) THEN a.src ELSE k.tsrc]

WithLive(m, r) == IF r = "game" THEN UpdatedLive(m, LiveData) ELSE m
WithPhase(m, f) == IF f = "unknown" THEN m ELSE Updated(m, [NoMeta EXCEPT !.phase = f])

---------------------------------------------------------------------------
(* RecordingEndDetector: a timer counts observations and ages with the polls.*)

Counted(t) == [t EXCEPT !.n = Least(@ + 1, Limit)]
Aged(t, grace) == IF t.n = 0 THEN t ELSE [t EXCEPT !.age = Least(@ + 1, grace)]
Expired(t, grace) == t.n = Limit /\ t.age = grace

AllAged(d) == [missing |-> Aged(d.missing, MissingGrace), temp |-> Aged(d.temp, TempGrace),
               flow |-> Aged(d.flow, ContextGrace), proc |-> Aged(d.proc, ContextGrace)]

ObservePollForgetful(d, r) ==   \* mutant: every answer restarts the other's grace
  CASE r = "game" -> [d EXCEPT !.missing = Off, !.temp = Off]
    [] r = "fail" -> [d EXCEPT !.missing = Off, !.temp = Counted(@)]
    [] OTHER -> [d EXCEPT !.missing = Counted(@), !.temp = Off]

ObservePoll(d, r) ==
  CASE r = "game" -> [d EXCEPT !.missing = Off, !.temp = Off]
    [] r = "fail" -> [d EXCEPT !.temp = Counted(@)]
    [] OTHER -> [d EXCEPT !.missing = Counted(@), !.temp = Off]

PollEnds(d, r) ==
  \/ r = "fail" /\ Expired(d.temp, TempGrace)
  \/ r = "missing" /\ Expired(d.missing, MissingGrace)

ObserveFlow(d, f) ==
  CASE f = "unknown" -> d
    [] f = "start" -> [d EXCEPT !.flow = Off]
    [] OTHER -> [d EXCEPT !.flow = Counted(@)]

ObserveProcess(d, p) ==
  CASE p = "unknown" -> d
    [] p = "yes" -> [d EXCEPT !.proc = Off]
    [] OTHER -> [d EXCEPT !.proc = Counted(@)]

FlowEnds(d, f) == f \in {"ended", "lobby"} /\ Expired(d.flow, ContextGrace)
ProcessEnds(d, p) == p = "no" /\ Expired(d.proc, ContextGrace)

---------------------------------------------------------------------------
WatchInit ==
  /\ match = 1 /\ stage \in {"lobby", "loading", "running"}
  /\ class \in Modes
  /\ sight \in BOOLEAN /\ liveIds \in BOOLEAN
  /\ lag = 0 /\ quiet = 0 /\ odd = MaxOdd /\ since = 0
  /\ at = "clear" /\ clearFirst = FALSE /\ lastId = 0
  /\ meta = NoMeta /\ held = FALSE /\ left = 0 /\ det = Idle /\ got = FALSE
  /\ failures = 0 /\ rec = 0
  /\ known = FALSE /\ done = FALSE /\ blind = FALSE /\ failed = {}

---------------------------------------------------------------------------
(* The match: it goes on whatever the recorder does.                         *)

(* The user plays a match after a pause that one grace with its re-check, or *)
(* one start of the recording, does not fill.                                *)
Loads ==
  /\ stage = "lobby" /\ since = IF at \in {"record", "clear"} THEN MinGap ELSE 0
  /\ at \notin {"grace", "recheck", "recheckSession", "starting", "flow", "process", "events"}
  /\ stage' = "loading"
  /\ UNCHANGED <<match, class, lag, quiet, odd, since, sight, liveIds, at, recorder, history>>

Runs ==
  /\ stage = "loading"
  /\ stage' = "running" /\ since' = 0
  /\ UNCHANGED <<match, class, lag, quiet, odd, sight, liveIds, at, recorder, history>>

Ends ==
  /\ stage = "running"
  /\ stage' = "over" /\ odd' = MaxOdd
  /\ UNCHANGED <<match, class, lag, quiet, since, sight, liveIds, at, recorder, history>>

(* A match ends or is left: its program goes, the LCU notices later.         *)
Closes ==
  /\ stage \in {"loading", "running", "over"}
  /\ stage' = "closed" /\ lag' = MaxLag /\ since' = 0 /\ quiet' = 0 /\ odd' = MaxOdd
  /\ UNCHANGED <<match, class, sight, liveIds, at, recorder, history>>

(* Back in the launcher, where the next match may have another mode; the end *)
(* of a session may take longer than the LCU.                                *)
Leaves ==
  /\ stage = "closed" /\ (lag = 0 \/ at = "post") /\ lag' = 0
  /\ match < MaxMatches /\ match' = match + 1
  /\ stage' = "lobby" /\ class' \in Modes
  /\ known' = FALSE /\ done' = FALSE /\ blind' = FALSE
  /\ UNCHANGED <<quiet, odd, since, sight, liveIds, at, recorder, failed>>

---------------------------------------------------------------------------
(* wait_for_previous_game_clear_async.                                       *)

ClearNotNeeded ==
  /\ at = "clear" /\ ~clearFirst
  /\ at' = "phase" /\ left' = 0
  /\ UNCHANGED <<world, meta, held, clearFirst, lastId, det, got, failures, rec, history>>

ClearPollNameless ==   \* mutant: the id of the game is not compared
  /\ at = "clear" /\ clearFirst
  /\ \E r \in LiveAnswers :
       LET fails == IF r = "fail" THEN left + 1 ELSE 0
           clear == r = "missing" \/ fails >= Limit
       IN /\ Answered(r)
          /\ clearFirst' = ~clear
          /\ left' = IF clear THEN 0 ELSE fails
          /\ at' = IF clear THEN "phase" ELSE "clear"
  /\ UNCHANGED <<meta, held, lastId, det, got, failures, rec, history>>

(* Not in a game, Limit failures in a row, or a game with another id: the    *)
(* previous game is over.                                                    *)
ClearPoll ==
  /\ at = "clear" /\ clearFirst
  /\ \E r \in LiveAnswers :
       LET fails == IF r = "fail" THEN left + 1 ELSE 0
           clear == \/ r = "missing"
                    \/ fails >= Limit
                    \/ r = "game" /\ LiveData.id # 0 /\ lastId # 0 /\ LiveData.id # lastId
       IN /\ Answered(r)
          /\ clearFirst' = ~clear
          /\ left' = IF clear THEN 0 ELSE fails
          /\ at' = IF clear THEN "phase" ELSE "clear"
  /\ UNCHANGED <<meta, held, lastId, det, got, failures, rec, history>>

---------------------------------------------------------------------------
(* wait_for_game_start_async: one turn asks for the phase, the session and   *)
(* the Live Client, one after the other.                                     *)

(* The recorder has been told that this match is TFT, and not been shown the *)
(* id of another match or the lobby since.                                   *)
AnotherId(a) == meta.id # 0 /\ a.id # 0 /\ a.id # meta.id
Told(a) == known' = (IsTft(a) \/ (known /\ ~AnotherId(a)))

PollPhase(from, to) ==
  /\ at = from /\ at' = to
  /\ \E f \in Phases \cup WrongPhases :
       /\ meta' = WithPhase(meta, f)
       /\ known' = (known /\ f # "lobby")
       /\ blind' = (blind \/ (done /\ f = "unknown"))
       /\ odd' = IF f \in Phases THEN odd ELSE odd - 1
  /\ UNCHANGED <<match, stage, class, lag, quiet, since, sight, liveIds,
                 held, left, clearFirst, lastId, det, got, failures, rec, done, failed>>

Phase == PollPhase("phase", "session")

Session ==
  /\ at = "session" /\ at' = "live"
  /\ \E a \in Sessions : meta' = Updated(meta, a) /\ Told(a)
  /\ UNCHANGED <<world, held, left, clearFirst, lastId, det, got, failures, rec, done, blind, failed>>

(* _mark_game_started: the session begins, and rec is what will be recorded, *)
(* perhaps under the id of an earlier match.                                 *)
Begin == at' = "starting" /\ rec' = match /\ blind' = (blind \/ meta'.id \notin {0, match})
NoStart(next) == at' = next /\ UNCHANGED <<rec, blind>>

(* A game that answers is recorded at once; a phase alone starts the grace,  *)
(* whose first attempt is the answer just read.                              *)
Live ==
  /\ at = "live"
  /\ \E r \in LiveAnswers :
       LET m == WithLive(meta, r) IN
       /\ Answered(r)
       /\ meta' = m
       /\ IF r = "game" THEN Told(LiveData) ELSE known' = known
       /\ held' = FALSE
       /\ IF IsTft(m) THEN NoStart("phase") /\ left' = left
          ELSE IF r = "game" THEN Begin /\ left' = left
          ELSE IF m.phase # "start" THEN NoStart("phase") /\ left' = left
          ELSE NoStart(IF Attempts = 1 THEN "recheck" ELSE "grace") /\ left' = Attempts - 1
  /\ UNCHANGED <<clearFirst, lastId, det, got, failures, done, failed>>

GraceEndless ==   \* mutant: the attempts are not limited
  /\ at = "grace"
  /\ \E r \in LiveAnswers :
       LET m == WithLive(meta, r)
           found == r = "game" /\ ~IsTft(m)
           over == found \/ IsTft(m)
       IN /\ Answered(r)
          /\ meta' = m
          /\ IF r = "game" THEN Told(LiveData) ELSE known' = known
          /\ held' = found
          /\ left' = IF over THEN 0 ELSE left - 1
          /\ at' = IF over THEN "recheck" ELSE "grace"
  /\ UNCHANGED <<clearFirst, lastId, det, got, failures, rec, done, blind, failed>>

(* wait_for_live_client_after_lcu_start_async.                               *)
Grace ==
  /\ at = "grace"
  /\ \E r \in LiveAnswers :
       LET m == WithLive(meta, r)
           found == r = "game" /\ ~IsTft(m)
           over == found \/ IsTft(m) \/ left = 1
       IN /\ Answered(r)
          /\ meta' = m
          /\ IF r = "game" THEN Told(LiveData) ELSE known' = known
          /\ held' = found
          /\ left' = IF over THEN 0 ELSE left - 1
          /\ at' = IF over THEN "recheck" ELSE "grace"
  /\ UNCHANGED <<clearFirst, lastId, det, got, failures, rec, done, blind, failed>>

(* Phase and session may have changed during the grace.                      *)
Recheck == PollPhase("recheck", "recheckSession")

RecheckSessionUnclassified ==   \* mutant: a mode learnt in the grace is ignored
  /\ at = "recheckSession"
  /\ \E a \in Sessions :
       LET m == WithLive(Updated(meta, a), IF held THEN "game" ELSE "fail") IN
       /\ meta' = m
       /\ Told(a)
       /\ IF held \/ m.phase = "start" THEN Begin ELSE NoStart("phase")
  /\ held' = FALSE
  /\ UNCHANGED <<world, left, clearFirst, lastId, det, got, failures, done, failed>>

RecheckSession ==
  /\ at = "recheckSession"
  /\ \E a \in Sessions :
       LET m == WithLive(Updated(meta, a), IF held THEN "game" ELSE "fail") IN
       /\ meta' = m
       /\ Told(a)
       /\ IF ~IsTft(m) /\ (held \/ m.phase = "start") THEN Begin ELSE NoStart("phase")
  /\ held' = FALSE
  /\ UNCHANGED <<world, left, clearFirst, lastId, det, got, failures, done, failed>>

---------------------------------------------------------------------------
(* start_recording_async and the supervisor's handling of an exception.      *)

StartRecording ==
  /\ at = "starting" /\ at' = "record"
  /\ det' = Idle /\ got' = FALSE
  /\ UNCHANGED <<world, meta, held, left, clearFirst, lastId, failures, rec, known, done, blind, failed>>

(* defer_current_game_until_clear, then reset_session: the same wherever in  *)
(* the start or in a turn of the loop the exception is raised.               *)
Fails ==
  /\ at \in {"starting", "record"} /\ failures < MaxFailures
  /\ failures' = failures + 1
  /\ lastId' = IF meta.id = 0 THEN lastId ELSE meta.id
  /\ clearFirst' = TRUE
  /\ at' = "clear" /\ meta' = NoMeta /\ det' = Idle /\ got' = FALSE /\ left' = 0
  /\ failed' = failed \cup {rec} /\ known' = FALSE
  /\ since' = 0
  /\ UNCHANGED <<match, stage, class, lag, quiet, odd, sight, liveIds, held, rec, done, blind>>

---------------------------------------------------------------------------
(* record_until_end_async.                                                   *)

CompleteForgetting(event) ==   \* mutant: the ended game need not be clear
  /\ at' = "post" /\ det' = Idle /\ got' = FALSE
  /\ clearFirst' = FALSE
  /\ lastId' = lastId

(* _complete_recording_end: only a GameEnd event asks for the game to clear. *)
Complete(event) ==
  /\ at' = "post" /\ det' = Idle /\ got' = FALSE
  /\ clearFirst' = event
  /\ LET id == IF meta'.id = 0 THEN LiveData.id ELSE meta'.id IN
       lastId' = IF event /\ id # 0 THEN id ELSE lastId

Continue(next, d) ==
  /\ at' = next /\ det' = d
  /\ UNCHANGED <<clearFirst, lastId>>

RecordPoll ==
  /\ at = "record"
  /\ \E r \in LiveAnswers :
       LET d == ObservePoll(AllAged(det), r) IN
       /\ Answered(r)
       /\ IF PollEnds(d, r) THEN Complete(FALSE)
          ELSE Continue("flow", d) /\ got' = (r = "game")
  /\ UNCHANGED <<meta, held, left, failures, rec, known, done, blind, failed>>

(* While recording, the phase only feeds the detector: it discards nothing   *)
(* of the match, and is read again for the time to wait for the result.      *)
RecordFlow ==
  /\ at = "flow"
  /\ \E f \in Phases \cup WrongPhases :
       LET d == ObserveFlow(det, f) IN
       /\ odd' = IF f \in Phases THEN odd ELSE odd - 1
       /\ IF FlowEnds(d, f) THEN Complete(FALSE)
          ELSE Continue(IF got THEN "events" ELSE "process", d) /\ got' = FALSE
  /\ UNCHANGED <<match, stage, class, lag, quiet, since, sight, liveIds,
                 meta, held, left, failures, rec, history>>

RecordProcess ==
  /\ at = "process"
  /\ \E p \in ProcessAnswers \cup (IF odd > 0 /\ stage = "running" THEN {"no"} ELSE {}) :
       LET d == ObserveProcess(det, p) IN
       /\ odd' = IF p \in ProcessAnswers THEN odd ELSE odd - 1
       /\ IF ProcessEnds(d, p) THEN Complete(FALSE) ELSE Continue("record", d) /\ got' = FALSE
  /\ UNCHANGED <<match, stage, class, lag, quiet, since, sight, liveIds,
                 meta, held, left, failures, rec, history>>

(* merge_live_game_metadata, then the events of the game, if it still runs.  *)
RecordEvents ==
  /\ at = "events"
  /\ meta' = [meta EXCEPT !.id = IF @ = 0 THEN LiveData.id ELSE @,
                          !.class = IF @ = "none" THEN LiveData.class ELSE @,
                          !.src = IF @ = "none" THEN "live" ELSE @]
  /\ \E gameEnd \in {FALSE} \cup (IF stage = "over" THEN {TRUE} ELSE {}) :
       /\ IF gameEnd THEN Complete(TRUE) ELSE Continue("record", det) /\ got' = FALSE
       /\ done' = (done \/ gameEnd)
  /\ UNCHANGED <<world, held, left, failures, rec, known, blind, failed>>

(* ensure_post_game_result_async, the end of the session, reset_session.     *)
NextSession ==
  /\ at = "post" /\ at' = "clear"
  /\ meta' = NoMeta /\ left' = 0 /\ known' = FALSE
  /\ since' = 0
  /\ UNCHANGED <<match, stage, class, lag, quiet, odd, sight, liveIds,
                 held, clearFirst, lastId, det, got, failures, rec, done, blind, failed>>

---------------------------------------------------------------------------
World == Loads \/ Runs \/ Ends \/ Closes \/ Leaves

Recorder ==
  \/ ClearNotNeeded \/ ClearPoll
  \/ Phase \/ Session \/ Live \/ Grace \/ Recheck \/ RecheckSession
  \/ StartRecording
  \/ RecordPoll \/ RecordFlow \/ RecordProcess \/ RecordEvents
  \/ NextSession

WatchNext == World \/ Recorder \/ Fails

(* The recorder's task is never blocked for good: every await has a timeout. *)
WatchFairness == WF_watchVars(Recorder)

WatchSpec == WatchInit /\ [][WatchNext]_watchVars /\ WatchFairness

---------------------------------------------------------------------------
Timer(grace) == [n : 0 .. Limit, age : 0 .. grace]
Timers == [missing : Timer(MissingGrace), temp : Timer(TempGrace),
           flow : Timer(ContextGrace), proc : Timer(ContextGrace)]
Metas == [id : 0 .. MaxMatches, class : Classes, phase : {"none", "lobby", "start", "ended"},
          src : Sources, tsrc : Sources]

(* Every variable has its values: the ids are those of matches played, and   *)
(* no clock runs past its grace.                                             *)
WatchTypeOK ==
  /\ match \in 1 .. MaxMatches /\ stage \in {"lobby", "loading", "running", "over", "closed"}
  /\ class \in Modes
  /\ lag \in 0 .. MaxLag /\ quiet \in 0 .. MaxGlitch /\ odd \in 0 .. MaxOdd /\ since \in Nat
  /\ sight \in BOOLEAN /\ liveIds \in BOOLEAN
  /\ at \in {"clear", "starting", "post"} \cup Watching \cup Recording
  /\ meta \in Metas /\ held \in BOOLEAN /\ left \in 0 .. Most(Limit, Attempts)
  /\ clearFirst \in BOOLEAN /\ lastId \in 0 .. MaxMatches
  /\ det \in Timers /\ got \in BOOLEAN
  /\ failures \in 0 .. MaxFailures /\ rec \in 0 .. MaxMatches
  /\ known \in BOOLEAN /\ done \in BOOLEAN /\ blind \in BOOLEAN
  /\ failed \subseteq 0 .. MaxMatches

(* A match that any source has called TFT, since the recorder was last shown *)
(* another match or the lobby, is not recorded, in whatever order answers    *)
(* arrive, contradict each other or lack the mode (tft-recording-filter.md:  *)
(* a known TFT is not un-excluded by a partial or conflicting answer).       *)
TftNotRecorded == at = "starting" /\ rec = match => ~known

(* A match whose GameEnd was recorded is not recorded again, although the    *)
(* Live Client still answers and the LCU still calls it started: unless the  *)
(* LCU was silent, so that a phase asked for after the end is unknown, or    *)
(* the recording was begun under the id of an earlier match.                 *)
OncePerGame == at = "starting" /\ rec = match /\ done => blind

(* A recording never reaches into the next match: the end of a match is      *)
(* noticed during any pause of MinGap polls, with the process list or        *)
(* without, however failures and not-in-game answers alternate.              *)
SpansOneGame == at \in Recording /\ stage # "lobby" => rec = match

(* A match the user plays on, and that its sources agree is none of TFT and  *)
(* can be told from the one before.                                          *)
Played == stage = "running" /\ liveIds /\ ~done /\ match \notin failed
            /\ class.lcu # "tft" /\ class.live # "tft"

(* It is recorded; what was learnt or feared about the match before does not *)
(* stand in its way.                                                         *)
MatchRecorded == Played ~> (rec = match \/ stage # "running")

\* How many steps of the recorder are left at most until it records a match
\* that is played: every poll the game leaves unanswered may cost another turn.
TurnsLeft ==
  LET turns == 6 * (MaxGlitch - quiet) IN
  CASE at = "post"           -> turns + 6 * MaxGlitch + 7
    [] at = "clear"          -> turns + 6 * MaxGlitch + 6
    [] at = "grace"          -> turns + 8
    [] at = "recheck"        -> IF held THEN 2 ELSE turns + 7
    [] at = "recheckSession" -> IF held THEN 1 ELSE turns + 6
    [] at = "phase"          -> turns + 5
    [] at = "session"        -> turns + 4
    [] at = "live"           -> turns + 3
    [] OTHER                 -> 0

(* Each step of the recorder brings it nearer to the recording of the match  *)
(* that is played, whatever the sources answer and whatever it still knows   *)
(* of the match before.                                                      *)
PlayedCountsDown ==
  [][Recorder /\ Played /\ rec # match /\ rec' # match => TurnsLeft' < TurnsLeft]_watchVars

====
