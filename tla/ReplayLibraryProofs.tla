------------------------- MODULE ReplayLibraryProofs -------------------------
(* Proofs about ReplayLibrary for any number of recordings, exports,         *)
(* deletions and restarts, and any storage limit.                            *)
EXTENDS ReplayLibrary, FiniteSetTheorems, SequenceTheorems, TLAPS

Clips == {"none", "partial", "whole"}
Active == {"attach", "read", "exited", "stopping", "waiting", "after"}  \* an FFmpeg may be there
Attached == {"read", "exited", "stopping", "waiting"}                   \* and is self.process

FlagType == cancel \in BOOLEAN /\ term \in BOOLEAN /\ safe \in BOOLEAN /\ left \in BOOLEAN
DiskType ==
    /\ video \subseteq Recs /\ log \subseteq Recs /\ clip \in [Recs -> Clips]
    /\ ff \in [ENCODER_PROFILES -> {"none", "live", "ok", "bad"}]
    /\ stray \in [Recs -> {"none", "live", "gone"}]
WorkType ==
    /\ w \in Active \union {"off", "check", "clean", "spawn", "recheck", "emit", "cancelled",
        "done"}
    /\ enc \in ENCODER_PROFILES /\ asked \in {None} \union ENCODER_PROFILES
    /\ verdict \in {"none", "finished", "failed"}
    /\ rec \in Recs \union {None} /\ (w # "off" => rec \in Recs)
    /\ process = None \/ (process = enc /\ w \in Attached)
(* What a deletion has still to remove.                                      *)
Todos == {<<>>, <<"video">>, <<"clip">>, <<"log">>, <<"video", "clip">>, <<"video", "log">>,
          <<"clip", "log">>, <<"video", "clip", "log">>}
In(kind, s) == \E i \in DOMAIN s : s[i] = kind
GuiType ==
    /\ gui \in {"idle", "asking", "cancel", "terminate", "wait", "delete"}
    /\ current \in Recs \union {None} /\ snapshot \in {None} \union ENCODER_PROFILES
    /\ plan \in [rec : Recs \union {None}, video : BOOLEAN, clip : BOOLEAN]
    /\ todo \in Todos /\ (gui = "delete" <=> todo # <<>>)
    /\ gui # "idle" => plan.rec \in Recs
RecType ==
    /\ rp \in {"idle", "save", "entry", "clip", "log"} /\ recorded \in Recs \union {0}
    /\ sweep \subseteq Recs /\ stuck \subseteq Recs
    /\ entry \in IF rp \in {"clip", "log"} THEN Recs ELSE {None}
CountType == exports \in 0..MaxExports /\ deletions \in 0..MaxDeletions
(* Recordings are saved in the order of their numbers.                       *)
OrderInv ==
    /\ \A r \in video \union log : r <= recorded
    /\ rp = "save" => recorded \in Recs
    /\ gui # "idle" => plan.rec <= recorded
(* FFmpeg is the one of the attempt that is under way, and it has exited     *)
(* where the worker relies on it.                                            *)
RunInv ==
    \A e \in ENCODER_PROFILES : ff[e] # "none" =>
        /\ e = enc /\ w \in Active
        /\ w = "after" => ~safe
        /\ w = "exited" => ff[e] # "live"
(* Nobody else writes to the clip of the export: what FFmpeg finished stays  *)
(* whole, what the worker removed stays away.                                *)
ClipInv ==
    rec \in Recs /\ stray[rec] = "none" =>
        /\ w = "emit" \/ ff[enc] = "ok" => clip[rec] \in {"whole", "none"}
        /\ w = "recheck" /\ ~left => clip[rec] = "none"
(* A deletion has removed what it has not still to do.                       *)
GoneInv ==
    gui = "delete" =>
        /\ plan.video /\ ~In("video", todo) => plan.rec \notin video
        /\ plan.clip /\ ~In("clip", todo) /\ rec # plan.rec /\ stray[plan.rec] = "none"
             => clip[plan.rec] = "none"
(* The clean-up has tried every recording that it has not before it.         *)
SweepInv == rp \in {"entry", "clip", "log"} => log \subseteq sweep \union stuck \union {entry,
    recorded}
(* A new worker has not been cancelled.                                      *)
IdleInv == w = "off" => ~cancel
Types == FlagType /\ DiskType /\ WorkType /\ GuiType /\ RecType /\ CountType
IInv == Types /\ OrderInv /\ RunInv /\ ClipInv /\ GoneInv /\ SweepInv /\ IdleInv

-----------------------------------------------------------------------------
(* The numbers of the recordings.                                            *)
LEMMA RecsAre == Recs \subseteq Nat \ {0} /\ IsFiniteSet(Recs) /\ Old \in Nat /\ 1..Old \subseteq
    Recs
<1>1. Cardinality(Recs) \in Nat
    BY LibraryAssumption, FS_CardinalityType
<1> QED
    BY <1>1, LibraryAssumption

(* The size of the library is a number.                                      *)
LEMMA TotalIs ==
    ASSUME NEW v \in SUBSET Recs, NEW c \in [Recs -> Clips]
    PROVE  2 * Cardinality(v) + Cardinality({r \in Recs : c[r] # "none"}) \in Nat
<1>1. IsFiniteSet(v) /\ IsFiniteSet({r \in Recs : c[r] # "none"})
    BY RecsAre, FS_Subset
<1>2. Cardinality(v) \in Nat /\ Cardinality({r \in Recs : c[r] # "none"}) \in Nat
    BY <1>1, FS_CardinalityType
<1> QED
    BY <1>2

(* No deletion is planned.                                                   *)
LEMMA NoPlanIs == NoPlan \in [rec : Recs \union {None}, video : BOOLEAN, clip : BOOLEAN]
    BY DEF NoPlan

(* The end of an export: its FFmpeg is nobody's if it still runs.            *)
LEMMA EndsIs ==
    ASSUME NEW v, Ends(v), DiskType, rec \in Recs
    PROVE  /\ w' = "done" /\ verdict' = v /\ ff' = [e \in ENCODER_PROFILES |-> "none"]
           /\ stray' \in [Recs -> {"none", "live", "gone"}]
           /\ \A r \in Recs : stray'[r] = "none" => stray[r] = "none"
           /\ \A r \in Recs : r # rec => stray'[r] = stray[r]
    BY DEF Ends, DiskType

(* What an attempt to remove the clip of the export does.                    *)
LEMMA UnlinkedIs ==
    ASSUME NEW ok \in BOOLEAN, Unlinked(ok), DiskType, rec \in Recs
    PROVE  /\ clip' \in [Recs -> Clips]
           /\ \A r \in Recs : clip'[r] \in {clip[r], "none"}
           /\ ok => clip'[rec] = "none"
    BY DEF Unlinked, DiskType, Clips

(* What the removal of a file does.                                          *)
LEMMA RemoveIs ==
    ASSUME NEW r \in Recs, NEW kind \in {"video", "clip", "log"}, Remove(r, kind), DiskType
    PROVE  /\ video' \subseteq video /\ log' \subseteq log /\ clip' \in [Recs -> Clips]
           /\ \A q \in Recs : clip'[q] \in {clip[q], "none"}
           /\ kind = "video" => r \notin video'
           /\ kind = "clip" => clip'[r] = "none"
           /\ kind = "log" => r \notin log' /\ log \subseteq log' \union {r} /\ video'
               = video /\ clip' = clip
           /\ kind # "log" => log' = log
    BY DEF Remove, DiskType, Clips

(* What a step of the clean-up on a video or a clip does.                    *)
LEMMA SweepFileIs ==
    ASSUME NEW r \in Recs, NEW kind \in {"video", "clip"}, NEW next, SweepFile(r, kind, next),
        DiskType
    PROVE  /\ video' \subseteq video /\ log' = log /\ clip' \in [Recs -> Clips]
           /\ \A q \in Recs : clip'[q] \in {clip[q], "none"}
           /\ rp' \in {next, "log"}
<1>1. CASE Remove(r, kind) /\ rp' = next
    BY <1>1, RemoveIs
<1>2. CASE rp' = "log" /\ UNCHANGED disk
    BY <1>2 DEF disk, DiskType
<1> QED
    BY <1>1, <1>2 DEF SweepFile

(* A step of a deletion does the first of what it has to do.                 *)
LEMMA TodoIs ==
    ASSUME NEW s \in Todos, s # <<>>
    PROVE  /\ Head(s) \in {"video", "clip", "log"} /\ Tail(s) \in Todos
           /\ Len(s) = 1 <=> Tail(s) = <<>>
           /\ Head(s) = "log" => ~In("video", s) /\ ~In("clip", s)
           /\ \A kind \in {"video", "clip"} : kind = Head(s) \/ In(kind, Tail(s)) \/ ~In(kind, s)
<1>0. \A k : Tail(<<k>>) = <<>> /\ Head(<<k>>) = k /\ Len(<<k>>) = 1
    OBVIOUS
<1>1. CASE s = <<"video">>
    BY <1>0, <1>1 DEF Todos, In
<1>6. CASE s = <<"clip">>
    BY <1>0, <1>6 DEF Todos, In
<1>7. CASE s = <<"log">>
    BY <1>0, <1>7 DEF Todos, In
<1>2. CASE s = <<"video", "clip">>
    BY <1>2 DEF Todos, In
<1>3. CASE s = <<"video", "log">>
    BY <1>3 DEF Todos, In
<1>4. CASE s = <<"clip", "log">>
    BY <1>4 DEF Todos, In
<1>5. CASE s = <<"video", "clip", "log">>
    BY <1>5 DEF Todos, In
<1> QED
    BY <1>1, <1>2, <1>3, <1>4, <1>5, <1>6, <1>7 DEF Todos

(* Sequences of one element joined.                                          *)
LEMMA JoinTwo == ASSUME NEW S, NEW a \in S, NEW b \in S PROVE <<a>> \o <<b>> = <<a, b>>
<1> DEFINE s == <<a>> \o <<b>>
           t == <<a, b>>
<1>1. <<a>> \in Seq(S) /\ <<b>> \in Seq(S) /\ t \in Seq(S)
    OBVIOUS
<1>2. s \in Seq(S) /\ Len(s) = 2 /\ s[1] = a /\ s[2] = b
    BY <1>1, ConcatProperties
<1>3. Len(t) = 2 /\ t[1] = a /\ t[2] = b
    OBVIOUS
<1> HIDE DEF s, t
<1>4. \A i \in 1..2 : s[i] = t[i]
    BY <1>2, <1>3
<1> QED
    BY <1>1, <1>2, <1>3, <1>4, SeqEqual DEF s, t

(* And a third.                                                              *)
LEMMA JoinThree ==
    ASSUME NEW S, NEW a \in S, NEW b \in S, NEW c \in S
    PROVE  <<a, b>> \o <<c>> = <<a, b, c>>
<1> DEFINE s == <<a, b>> \o <<c>>
           t == <<a, b, c>>
<1>1. <<a, b>> \in Seq(S) /\ <<c>> \in Seq(S) /\ t \in Seq(S)
    OBVIOUS
<1>2. s \in Seq(S) /\ Len(s) = 3 /\ s[1] = a /\ s[2] = b /\ s[3] = c
    BY <1>1, ConcatProperties
<1>3. Len(t) = 3 /\ t[1] = a /\ t[2] = b /\ t[3] = c
    OBVIOUS
<1> HIDE DEF s, t
<1>4. \A i \in 1..3 : s[i] = t[i]
    BY <1>2, <1>3
<1> QED
    BY <1>1, <1>2, <1>3, <1>4, SeqEqual DEF s, t

(* What a deletion begins with: what is there and was announced.             *)
LEMMA PathsIs ==
    /\ Paths \in Todos
    /\ plan.video /\ ~In("video", Paths) => plan.rec \notin video
    /\ plan.clip /\ ~In("clip", Paths) => clip[plan.rec] = "none"
<1> DEFINE v == plan.video /\ plan.rec \in video
           c == plan.clip /\ clip[plan.rec] # "none"
           l == plan.rec \in log
<1>1. Paths = (IF v THEN <<"video">> ELSE <<>>) \o (IF c THEN <<"clip">> ELSE <<>>)
                \o (IF l THEN <<"log">> ELSE <<>>)
    BY DEF Paths
<1> HIDE DEF v, c, l
<1>0. /\ <<"video">> \o <<"clip">> = <<"video", "clip">>
      /\ <<"video">> \o <<"log">> = <<"video", "log">>
      /\ <<"clip">> \o <<"log">> = <<"clip", "log">>
      /\ <<"video", "clip">> \o <<"log">> = <<"video", "clip", "log">>
  <2> DEFINE Kinds == {"video", "clip", "log"}
  <2>1. "video" \in Kinds /\ "clip" \in Kinds /\ "log" \in Kinds
    OBVIOUS
  <2> HIDE DEF Kinds
  <2> QED
    BY <2>1, JoinTwo, JoinThree
<1>2. CASE v /\ c /\ l
  <2>1. Paths = <<"video", "clip", "log">>
    BY <1>0, <1>1, <1>2
  <2> QED
    BY <2>1, <1>2 DEF Todos, In
<1>3. CASE v /\ c /\ ~l
  <2>1. Paths = <<"video", "clip">>
    BY <1>0, <1>1, <1>3
  <2> QED
    BY <2>1, <1>3 DEF Todos, In
<1>4. CASE v /\ ~c /\ l
  <2>1. Paths = <<"video", "log">>
    BY <1>0, <1>1, <1>4
  <2> QED
    BY <2>1, <1>4 DEF Todos, In, c
<1>5. CASE v /\ ~c /\ ~l
  <2>1. Paths = <<"video">>
    BY <1>0, <1>1, <1>5
  <2> QED
    BY <2>1, <1>5 DEF Todos, In, c
<1>6. CASE ~v /\ c /\ l
  <2>1. Paths = <<"clip", "log">>
    BY <1>0, <1>1, <1>6
  <2> QED
    BY <2>1, <1>6 DEF Todos, In, v
<1>7. CASE ~v /\ c /\ ~l
  <2>1. Paths = <<"clip">>
    BY <1>0, <1>1, <1>7
  <2> QED
    BY <2>1, <1>7 DEF Todos, In, v
<1>8. CASE ~v /\ ~c
  <2>1. Paths \in {<<>>, <<"log">>}
    BY <1>0, <1>1, <1>8
  <2> QED
    BY <2>1, <1>8 DEF Todos, In, v, c
<1> QED
    BY <1>2, <1>3, <1>4, <1>5, <1>6, <1>7, <1>8

(* A step of a deletion: what it removed is gone, or the deletion ends.      *)
LEMMA DeleteNextIs ==
    ASSUME Types, DeleteNext
    PROVE  /\ gui = "delete" /\ plan.rec \in Recs
           /\ UNCHANGED <<current, snapshot, counts, ffmpeg, workerVars, recVars>>
           /\ video' \subseteq video /\ log' \subseteq log /\ clip' \in [Recs -> Clips]
           /\ \A q \in Recs : clip'[q] \in {clip[q], "none"}
           /\ todo' \in Todos /\ gui' \in {"idle", "delete"} /\ (gui' = "delete" <=> todo' # <<>>)
           /\ gui' = "delete" => plan' = plan
           /\ plan' \in {plan, NoPlan}
           /\ gui' = "delete" =>
                /\ In("video", todo') \/ ~In("video", todo) \/ plan.rec \notin video'
                /\ In("clip", todo') \/ ~In("clip", todo) \/ clip'[plan.rec] = "none"
           /\ log' # log => ~In("video", todo) /\ ~In("clip", todo)
<1>1. /\ gui = "delete" /\ plan.rec \in Recs /\ todo \in Todos /\ todo # <<>>
      /\ UNCHANGED <<current, snapshot, counts, ffmpeg, workerVars, recVars>>
    BY DEF DeleteNext, Types, GuiType, SameWorker, ffmpeg
<1>2. /\ Head(todo) \in {"video", "clip", "log"} /\ Tail(todo) \in Todos
      /\ Len(todo) = 1 <=> Tail(todo) = <<>>
      /\ Head(todo) = "log" => ~In("video", todo) /\ ~In("clip", todo)
      /\ \A kind \in {"video", "clip"} : kind = Head(todo) \/ In(kind, Tail(todo)) \/
          ~In(kind, todo)
    BY <1>1, TodoIs
<1>3. CASE /\ Remove(plan.rec, Head(todo)) /\ todo' = Tail(todo)
           /\ IF Len(todo) = 1 THEN gui' = "idle" /\ plan' = NoPlan ELSE UNCHANGED <<gui, plan>>
  <2>1. /\ video' \subseteq video /\ log' \subseteq log /\ clip' \in [Recs -> Clips]
        /\ \A q \in Recs : clip'[q] \in {clip[q], "none"}
        /\ Head(todo) = "video" => plan.rec \notin video'
        /\ Head(todo) = "clip" => clip'[plan.rec] = "none"
        /\ Head(todo) # "log" => log' = log
    BY <1>1, <1>2, <1>3, RemoveIs DEF Types
  <2>2. /\ todo' \in Todos /\ gui' \in {"idle", "delete"} /\ (gui' = "delete" <=> todo' # <<>>)
        /\ (gui' = "delete" => plan' = plan) /\ plan' \in {plan, NoPlan}
    BY <1>1, <1>2, <1>3
  <2> QED
    BY <1>1, <1>2, <1>3, <2>1, <2>2
<1>4. CASE gui' = "idle" /\ plan' = NoPlan /\ todo' = <<>> /\ UNCHANGED disk
    BY <1>1, <1>4 DEF disk, Types, DiskType, Todos
<1> QED
    BY <1>3, <1>4 DEF DeleteNext

(* The clean-up takes the oldest recording that it has before it.            *)
LEMMA SweepVideoIs ==
    ASSUME Types, SweepVideo
    PROVE  /\ rp = "entry" /\ UNCHANGED <<recorded, stuck, ffmpeg, workerVars, guiVars, counts>>
           /\ video' \subseteq video /\ log' = log /\ clip' \in [Recs -> Clips]
           /\ \A q \in Recs : clip'[q] \in {clip[q], "none"}
           /\ entry' \in sweep /\ sweep' = sweep \ {entry'} /\ rp' \in {"clip", "log"}
<1>1. PICK r \in sweep \ {recorded} :
          /\ sweep' = sweep \ {r} /\ entry' = r
          /\ SweepFile(r, "video", IF clip[r] # "none" THEN "clip" ELSE "log")
    BY DEF SweepVideo
<1>2. r \in Recs
    BY <1>1 DEF Types, RecType
<1>3. /\ video' \subseteq video /\ log' = log /\ clip' \in [Recs -> Clips]
      /\ \A q \in Recs : clip'[q] \in {clip[q], "none"}
      /\ rp' \in {"clip", "log"}
    BY <1>1, <1>2, SweepFileIs DEF Types
<1> QED
    BY <1>1, <1>3 DEF SweepVideo, OthersOfRecorder

(* And then its clips.                                                       *)
LEMMA SweepClipIs ==
    ASSUME Types, SweepClip
    PROVE  /\ rp = "clip" /\ rp' = "log"
           /\ UNCHANGED <<recorded, sweep, entry, stuck, ffmpeg, workerVars, guiVars, counts>>
           /\ video' \subseteq video /\ log' = log /\ clip' \in [Recs -> Clips]
           /\ \A q \in Recs : clip'[q] \in {clip[q], "none"}
<1>1. entry \in Recs /\ SweepFile(entry, "clip", "log")
    BY DEF SweepClip, Types, RecType
<1>2. /\ video' \subseteq video /\ log' = log /\ clip' \in [Recs -> Clips]
      /\ \A q \in Recs : clip'[q] \in {clip[q], "none"}
      /\ rp' = "log"
    BY <1>1, SweepFileIs DEF Types
<1> QED
    BY <1>2 DEF SweepClip, OthersOfRecorder

(* And its log, or it is stuck; the clean-up ends where the limit holds.     *)
LEMMA SweepLogIs ==
    ASSUME Types, SweepLog
    PROVE  /\ rp = "log" /\ UNCHANGED <<recorded, ffmpeg, workerVars, guiVars, counts>>
           /\ video' = video /\ clip' = clip /\ log' \subseteq log /\ log \subseteq
               log' \union {entry}
           /\ entry \in Recs /\ entry' = None
           /\ stuck' \subseteq stuck \union {entry} /\ stuck \subseteq stuck'
           /\ entry \in log' => entry \in stuck'
           /\ \/ rp' = "entry" /\ sweep' = sweep
              \/ rp' = "idle" /\ sweep' = {} /\ Total' <= Limit
<1>1. entry \in Recs
    BY DEF SweepLog, Types, RecType
<1>2. /\ video' = video /\ clip' = clip /\ log' \subseteq log /\ log \subseteq log' \union {entry}
      /\ stuck' \subseteq stuck \union {entry} /\ stuck \subseteq stuck'
      /\ entry \in log' => entry \in stuck'
  <2>1. CASE Remove(entry, "log") /\ UNCHANGED stuck
    BY <1>1, <2>1, RemoveIs DEF Types
  <2>2. CASE entry \in log /\ UNCHANGED disk /\ stuck' = stuck \union {entry}
    BY <2>2 DEF disk
  <2> QED
    BY <2>1, <2>2 DEF SweepLog
<1>3. DiskType'
  <2>1. UNCHANGED <<ff, stray>>
    BY DEF SweepLog, OthersOfRecorder, ffmpeg
  <2> QED
    BY <1>2, <2>1 DEF Types, DiskType
<1>4. Total' \in Nat
    BY <1>3, TotalIs DEF DiskType, Total
<1>5. ~(Total' > Limit) => Total' <= Limit
    BY <1>4, LibraryAssumption
<1> QED
    BY <1>1, <1>2, <1>5 DEF SweepLog, OthersOfRecorder

-----------------------------------------------------------------------------
(* Every step keeps FlagType.                                                *)
LEMMA NextFlagType == IInv /\ [Next]_vars => FlagType'
<1> SUFFICES ASSUME IInv, [Next]_vars PROVE FlagType'
    OBVIOUS
<1> USE DEF FlagType, disk, ffmpeg, workerVars, guiVars, recVars, counts, vars, OthersOfWorker,
    SameFiles, OthersOfGui, SameWorker, OthersOfRecorder, IInv, Types
<1>1. ASSUME FfWrites PROVE FlagType'
    BY <1>1 DEF FfWrites, Running
<1>2. ASSUME FfExits PROVE FlagType'
    BY <1>2 DEF FfExits, Running
<1>3. ASSUME StrayGoesOn PROVE FlagType'
    BY <1>3 DEF StrayGoesOn, Running
<1>4. ASSUME Check PROVE FlagType'
    BY <1>4 DEF Check
<1>5. ASSUME Clean PROVE FlagType'
    BY <1>5, EndsIs, UnlinkedIs DEF Clean
<1>6. ASSUME Spawn PROVE FlagType'
    BY <1>6 DEF Spawn
<1>7. ASSUME Attach PROVE FlagType'
    BY <1>7 DEF Attach
<1>8. ASSUME Read PROVE FlagType'
    BY <1>8 DEF Read, Running
<1>9. ASSUME Exited PROVE FlagType'
    BY <1>9 DEF Exited, Running
<1>10. ASSUME Stopping PROVE FlagType'
    BY <1>10 DEF Stopping, Goto, TerminateOnce
<1>11. ASSUME Waiting PROVE FlagType'
    BY <1>11 DEF Waiting, Running, Goto
<1>12. ASSUME After PROVE FlagType'
    BY <1>12, EndsIs, UnlinkedIs DEF After
<1>13. ASSUME Recheck PROVE FlagType'
    BY <1>13, EndsIs DEF Recheck
<1>14. ASSUME Emit PROVE FlagType'
    BY <1>14, EndsIs DEF Emit
<1>15. ASSUME CancelWithCleanup PROVE FlagType'
    BY <1>15, EndsIs, UnlinkedIs DEF CancelWithCleanup
<1>16. ASSUME StartClipExport PROVE FlagType'
    BY <1>16 DEF StartClipExport, Input, IsRunning
<1>17. ASSUME NEW r \in Recs, LoadData(r) PROVE FlagType'
    BY <1>17 DEF LoadData, Input
<1>18. ASSUME NEW r \in Recs, PlanDeletion(r) PROVE FlagType'
    BY <1>18 DEF PlanDeletion, Input
<1>19. ASSUME WorkerFinished PROVE FlagType'
    BY <1>19 DEF WorkerFinished, NoWorker
<1>20. ASSUME Answer PROVE FlagType'
    BY <1>20 DEF Answer, BeginsDelete
<1>21. ASSUME Cancel PROVE FlagType'
    BY <1>21 DEF Cancel, IsRunning
<1>22. ASSUME CancelTerminates PROVE FlagType'
    BY <1>22 DEF CancelTerminates, TerminateOnce
<1>23. ASSUME Wait PROVE FlagType'
    BY <1>23 DEF Wait, IsRunning, BeginsDelete
<1>24. ASSUME DeleteNext PROVE FlagType'
    BY <1>24, DeleteNextIs
<1>25. ASSUME Record PROVE FlagType'
    BY <1>25 DEF Record
<1>26. ASSUME SaveJson PROVE FlagType'
    BY <1>26 DEF SaveJson
<1>27. ASSUME SweepEnds PROVE FlagType'
    BY <1>27 DEF SweepEnds
<1>28. ASSUME SweepVideo PROVE FlagType'
    BY <1>28, SweepVideoIs
<1>29. ASSUME SweepClip PROVE FlagType'
    BY <1>29, SweepClipIs
<1>30. ASSUME SweepLog PROVE FlagType'
    BY <1>30, SweepLogIs
<1>31. ASSUME Crash PROVE FlagType'
    BY <1>31 DEF Crash, Running, NoWorker
<1>32. CASE UNCHANGED vars
    BY <1>32
<1>33. QED
    BY <1>1, <1>2, <1>3, <1>4, <1>5, <1>6, <1>7, <1>8, <1>9, <1>10, <1>11, <1>12, <1>13,
        <1>14, <1>15, <1>16, <1>17, <1>18, <1>19, <1>20, <1>21, <1>22, <1>23, <1>24, <1>25,
        <1>26, <1>27, <1>28, <1>29, <1>30, <1>31, <1>32 DEF Next, WorkerStep, User, Window,
        Recorder

(* Every step keeps DiskType.                                                *)
LEMMA NextDiskType == IInv /\ [Next]_vars => DiskType'
<1> SUFFICES ASSUME IInv, [Next]_vars PROVE DiskType'
    OBVIOUS
<1> USE DEF DiskType, Clips, WorkType, RecType, OrderInv, disk, ffmpeg, workerVars, guiVars,
    recVars, counts, vars, OthersOfWorker, SameFiles, OthersOfGui, SameWorker, OthersOfRecorder,
    IInv, Types
<1>1. ASSUME FfWrites PROVE DiskType'
    BY <1>1 DEF FfWrites, Running
<1>2. ASSUME FfExits PROVE DiskType'
    BY <1>2 DEF FfExits, Running
<1>3. ASSUME StrayGoesOn PROVE DiskType'
    BY <1>3 DEF StrayGoesOn, Running
<1>4. ASSUME Check PROVE DiskType'
    BY <1>4 DEF Check
<1>5. ASSUME Clean PROVE DiskType'
    BY <1>5, EndsIs, UnlinkedIs DEF Clean
<1>6. ASSUME Spawn PROVE DiskType'
    BY <1>6 DEF Spawn
<1>7. ASSUME Attach PROVE DiskType'
    BY <1>7 DEF Attach
<1>8. ASSUME Read PROVE DiskType'
    BY <1>8 DEF Read, Running
<1>9. ASSUME Exited PROVE DiskType'
    BY <1>9 DEF Exited, Running
<1>10. ASSUME Stopping PROVE DiskType'
    BY <1>10 DEF Stopping, Goto, TerminateOnce
<1>11. ASSUME Waiting PROVE DiskType'
    BY <1>11 DEF Waiting, Running, Goto
<1>12. ASSUME After PROVE DiskType'
    BY <1>12, EndsIs, UnlinkedIs DEF After
<1>13. ASSUME Recheck PROVE DiskType'
    BY <1>13, EndsIs DEF Recheck
<1>14. ASSUME Emit PROVE DiskType'
    BY <1>14, EndsIs DEF Emit
<1>15. ASSUME CancelWithCleanup PROVE DiskType'
    BY <1>15, EndsIs, UnlinkedIs DEF CancelWithCleanup
<1>16. ASSUME StartClipExport PROVE DiskType'
    BY <1>16 DEF StartClipExport, Input, IsRunning
<1>17. ASSUME NEW r \in Recs, LoadData(r) PROVE DiskType'
    BY <1>17 DEF LoadData, Input
<1>18. ASSUME NEW r \in Recs, PlanDeletion(r) PROVE DiskType'
    BY <1>18 DEF PlanDeletion, Input
<1>19. ASSUME WorkerFinished PROVE DiskType'
    BY <1>19 DEF WorkerFinished, NoWorker
<1>20. ASSUME Answer PROVE DiskType'
    BY <1>20 DEF Answer, BeginsDelete
<1>21. ASSUME Cancel PROVE DiskType'
    BY <1>21 DEF Cancel, IsRunning
<1>22. ASSUME CancelTerminates PROVE DiskType'
    BY <1>22 DEF CancelTerminates, TerminateOnce
<1>23. ASSUME Wait PROVE DiskType'
    BY <1>23 DEF Wait, IsRunning, BeginsDelete
<1>24. ASSUME DeleteNext PROVE DiskType'
    BY <1>24, DeleteNextIs
<1>25. ASSUME Record PROVE DiskType'
    BY <1>25 DEF Record
<1>26. ASSUME SaveJson PROVE DiskType'
    BY <1>26 DEF SaveJson
<1>27. ASSUME SweepEnds PROVE DiskType'
    BY <1>27 DEF SweepEnds
<1>28. ASSUME SweepVideo PROVE DiskType'
    BY <1>28, SweepVideoIs
<1>29. ASSUME SweepClip PROVE DiskType'
    BY <1>29, SweepClipIs
<1>30. ASSUME SweepLog PROVE DiskType'
    BY <1>30, SweepLogIs
<1>31. ASSUME Crash PROVE DiskType'
    BY <1>31 DEF Crash, Running, NoWorker
<1>32. CASE UNCHANGED vars
    BY <1>32
<1>33. QED
    BY <1>1, <1>2, <1>3, <1>4, <1>5, <1>6, <1>7, <1>8, <1>9, <1>10, <1>11, <1>12, <1>13,
        <1>14, <1>15, <1>16, <1>17, <1>18, <1>19, <1>20, <1>21, <1>22, <1>23, <1>24, <1>25,
        <1>26, <1>27, <1>28, <1>29, <1>30, <1>31, <1>32 DEF Next, WorkerStep, User, Window,
        Recorder

(* Every step keeps WorkType.                                                *)
LEMMA NextWorkType == IInv /\ [Next]_vars => WorkType'
<1> SUFFICES ASSUME IInv, [Next]_vars PROVE WorkType'
    OBVIOUS
<1> USE DEF WorkType, GuiType, Active, Attached, ENCODER_PROFILES, RunInv, disk, ffmpeg,
    workerVars, guiVars, recVars, counts, vars, OthersOfWorker, SameFiles, OthersOfGui,
    SameWorker, OthersOfRecorder, IInv, Types
<1>1. ASSUME FfWrites PROVE WorkType'
    BY <1>1 DEF FfWrites, Running
<1>2. ASSUME FfExits PROVE WorkType'
    BY <1>2 DEF FfExits, Running
<1>3. ASSUME StrayGoesOn PROVE WorkType'
    BY <1>3 DEF StrayGoesOn, Running
<1>4. ASSUME Check PROVE WorkType'
    BY <1>4 DEF Check
<1>5. ASSUME Clean PROVE WorkType'
    BY <1>5, EndsIs, UnlinkedIs DEF Clean
<1>6. ASSUME Spawn PROVE WorkType'
    BY <1>6 DEF Spawn
<1>7. ASSUME Attach PROVE WorkType'
    BY <1>7 DEF Attach
<1>8. ASSUME Read PROVE WorkType'
    BY <1>8 DEF Read, Running
<1>9. ASSUME Exited PROVE WorkType'
    BY <1>9 DEF Exited, Running
<1>10. ASSUME Stopping PROVE WorkType'
    BY <1>10 DEF Stopping, Goto, TerminateOnce
<1>11. ASSUME Waiting PROVE WorkType'
    BY <1>11 DEF Waiting, Running, Goto
<1>12. ASSUME After PROVE WorkType'
    BY <1>12, EndsIs, UnlinkedIs DEF After
<1>13. ASSUME Recheck PROVE WorkType'
    BY <1>13, EndsIs DEF Recheck
<1>14. ASSUME Emit PROVE WorkType'
    BY <1>14, EndsIs DEF Emit
<1>15. ASSUME CancelWithCleanup PROVE WorkType'
    BY <1>15, EndsIs, UnlinkedIs DEF CancelWithCleanup
<1>16. ASSUME StartClipExport PROVE WorkType'
    BY <1>16 DEF StartClipExport, Input, IsRunning
<1>17. ASSUME NEW r \in Recs, LoadData(r) PROVE WorkType'
    BY <1>17 DEF LoadData, Input
<1>18. ASSUME NEW r \in Recs, PlanDeletion(r) PROVE WorkType'
    BY <1>18 DEF PlanDeletion, Input
<1>19. ASSUME WorkerFinished PROVE WorkType'
    BY <1>19 DEF WorkerFinished, NoWorker
<1>20. ASSUME Answer PROVE WorkType'
    BY <1>20 DEF Answer, BeginsDelete
<1>21. ASSUME Cancel PROVE WorkType'
    BY <1>21 DEF Cancel, IsRunning
<1>22. ASSUME CancelTerminates PROVE WorkType'
    BY <1>22 DEF CancelTerminates, TerminateOnce
<1>23. ASSUME Wait PROVE WorkType'
    BY <1>23 DEF Wait, IsRunning, BeginsDelete
<1>24. ASSUME DeleteNext PROVE WorkType'
    BY <1>24, DeleteNextIs
<1>25. ASSUME Record PROVE WorkType'
    BY <1>25 DEF Record
<1>26. ASSUME SaveJson PROVE WorkType'
    BY <1>26 DEF SaveJson
<1>27. ASSUME SweepEnds PROVE WorkType'
    BY <1>27 DEF SweepEnds
<1>28. ASSUME SweepVideo PROVE WorkType'
    BY <1>28, SweepVideoIs
<1>29. ASSUME SweepClip PROVE WorkType'
    BY <1>29, SweepClipIs
<1>30. ASSUME SweepLog PROVE WorkType'
    BY <1>30, SweepLogIs
<1>31. ASSUME Crash PROVE WorkType'
    BY <1>31 DEF Crash, Running, NoWorker
<1>32. CASE UNCHANGED vars
    BY <1>32
<1>33. QED
    BY <1>1, <1>2, <1>3, <1>4, <1>5, <1>6, <1>7, <1>8, <1>9, <1>10, <1>11, <1>12, <1>13,
        <1>14, <1>15, <1>16, <1>17, <1>18, <1>19, <1>20, <1>21, <1>22, <1>23, <1>24, <1>25,
        <1>26, <1>27, <1>28, <1>29, <1>30, <1>31, <1>32 DEF Next, WorkerStep, User, Window,
        Recorder

(* Every step keeps GuiType.                                                 *)
LEMMA NextGuiType == IInv /\ [Next]_vars => GuiType'
<1> SUFFICES ASSUME IInv, [Next]_vars PROVE GuiType'
    OBVIOUS
<1> USE NoPlanIs DEF GuiType, WorkType, disk, ffmpeg, workerVars, guiVars, recVars, counts, vars,
    OthersOfWorker, SameFiles, OthersOfGui, SameWorker, OthersOfRecorder, IInv, Types
<1>1. ASSUME FfWrites PROVE GuiType'
    BY <1>1 DEF FfWrites, Running
<1>2. ASSUME FfExits PROVE GuiType'
    BY <1>2 DEF FfExits, Running
<1>3. ASSUME StrayGoesOn PROVE GuiType'
    BY <1>3 DEF StrayGoesOn, Running
<1>4. ASSUME Check PROVE GuiType'
    BY <1>4 DEF Check
<1>5. ASSUME Clean PROVE GuiType'
    BY <1>5, EndsIs, UnlinkedIs DEF Clean
<1>6. ASSUME Spawn PROVE GuiType'
    BY <1>6 DEF Spawn
<1>7. ASSUME Attach PROVE GuiType'
    BY <1>7 DEF Attach
<1>8. ASSUME Read PROVE GuiType'
    BY <1>8 DEF Read, Running
<1>9. ASSUME Exited PROVE GuiType'
    BY <1>9 DEF Exited, Running
<1>10. ASSUME Stopping PROVE GuiType'
    BY <1>10 DEF Stopping, Goto, TerminateOnce
<1>11. ASSUME Waiting PROVE GuiType'
    BY <1>11 DEF Waiting, Running, Goto
<1>12. ASSUME After PROVE GuiType'
    BY <1>12, EndsIs, UnlinkedIs DEF After
<1>13. ASSUME Recheck PROVE GuiType'
    BY <1>13, EndsIs DEF Recheck
<1>14. ASSUME Emit PROVE GuiType'
    BY <1>14, EndsIs DEF Emit
<1>15. ASSUME CancelWithCleanup PROVE GuiType'
    BY <1>15, EndsIs, UnlinkedIs DEF CancelWithCleanup
<1>16. ASSUME StartClipExport PROVE GuiType'
    BY <1>16 DEF StartClipExport, Input, IsRunning
<1>17. ASSUME NEW r \in Recs, LoadData(r) PROVE GuiType'
    BY <1>17 DEF LoadData, Input
<1>18. ASSUME NEW r \in Recs, PlanDeletion(r) PROVE GuiType'
  <2> DEFINE v == r \in video
             c == r \in video /\ clip[r] # "none"
  <2>1. v \in BOOLEAN /\ c \in BOOLEAN
    OBVIOUS
  <2>2. /\ plan' = [rec |-> r, video |-> v, clip |-> c] /\ gui' = "asking"
        /\ gui = "idle" /\ UNCHANGED <<current, snapshot, todo>>
    BY <1>18 DEF PlanDeletion, Input
  <2> HIDE DEF v, c
  <2> QED
    BY <2>1, <2>2
<1>19. ASSUME WorkerFinished PROVE GuiType'
    BY <1>19 DEF WorkerFinished, NoWorker
<1>20. ASSUME Answer PROVE GuiType'
  <2>1. CASE gui' = "idle" /\ plan' = NoPlan /\ UNCHANGED todo
    BY <1>20, <2>1 DEF Answer
  <2>2. CASE UNCHANGED <<plan, todo>> /\ gui' = "cancel"
    BY <1>20, <2>2 DEF Answer
  <2>3. CASE UNCHANGED plan /\ BeginsDelete
    <3>1. Paths \in Todos
      BY PathsIs
    <3> QED
      BY <1>20, <2>3, <3>1 DEF Answer, BeginsDelete
  <2> QED
    BY <1>20, <2>1, <2>2, <2>3 DEF Answer
<1>21. ASSUME Cancel PROVE GuiType'
    BY <1>21 DEF Cancel, IsRunning
<1>22. ASSUME CancelTerminates PROVE GuiType'
    BY <1>22 DEF CancelTerminates, TerminateOnce
<1>23. ASSUME Wait PROVE GuiType'
  <2>1. Paths \in Todos
    BY PathsIs
  <2>2. CASE BeginsDelete /\ current' = None
    BY <1>23, <2>1, <2>2 DEF Wait, BeginsDelete
  <2>3. CASE gui' = "idle" /\ UNCHANGED <<current, todo>>
    BY <1>23, <2>3 DEF Wait
  <2> QED
    BY <1>23, <2>2, <2>3 DEF Wait
<1>24. ASSUME DeleteNext PROVE GuiType'
  <2>1. /\ gui = "delete" /\ plan.rec \in Recs /\ UNCHANGED <<current, snapshot>>
        /\ todo' \in Todos /\ gui' \in {"idle", "delete"} /\ (gui' = "delete" <=> todo' # <<>>)
        /\ gui' = "delete" => plan' = plan
        /\ plan' \in {plan, NoPlan}
    BY <1>24, DeleteNextIs
  <2> QED
    BY <2>1
<1>25. ASSUME Record PROVE GuiType'
    BY <1>25 DEF Record
<1>26. ASSUME SaveJson PROVE GuiType'
    BY <1>26 DEF SaveJson
<1>27. ASSUME SweepEnds PROVE GuiType'
    BY <1>27 DEF SweepEnds
<1>28. ASSUME SweepVideo PROVE GuiType'
    BY <1>28, SweepVideoIs
<1>29. ASSUME SweepClip PROVE GuiType'
    BY <1>29, SweepClipIs
<1>30. ASSUME SweepLog PROVE GuiType'
    BY <1>30, SweepLogIs
<1>31. ASSUME Crash PROVE GuiType'
  <2>1. <<>> \in Todos
    BY DEF Todos
  <2> QED
    BY <1>31, <2>1 DEF Crash
<1>32. CASE UNCHANGED vars
    BY <1>32
<1>33. QED
    BY <1>1, <1>2, <1>3, <1>4, <1>5, <1>6, <1>7, <1>8, <1>9, <1>10, <1>11, <1>12, <1>13,
        <1>14, <1>15, <1>16, <1>17, <1>18, <1>19, <1>20, <1>21, <1>22, <1>23, <1>24, <1>25,
        <1>26, <1>27, <1>28, <1>29, <1>30, <1>31, <1>32 DEF Next, WorkerStep, User, Window,
        Recorder

(* Every step keeps RecType.                                                 *)
LEMMA NextRecType == IInv /\ [Next]_vars => RecType'
<1> SUFFICES ASSUME IInv, [Next]_vars PROVE RecType'
    OBVIOUS
<1> USE RecsAre DEF RecType, DiskType, OrderInv, disk, ffmpeg, workerVars, guiVars, recVars,
    counts, vars, OthersOfWorker, SameFiles, OthersOfGui, SameWorker, OthersOfRecorder, IInv,
    Types
<1>1. ASSUME FfWrites PROVE RecType'
    BY <1>1 DEF FfWrites, Running
<1>2. ASSUME FfExits PROVE RecType'
    BY <1>2 DEF FfExits, Running
<1>3. ASSUME StrayGoesOn PROVE RecType'
    BY <1>3 DEF StrayGoesOn, Running
<1>4. ASSUME Check PROVE RecType'
    BY <1>4 DEF Check
<1>5. ASSUME Clean PROVE RecType'
    BY <1>5, EndsIs, UnlinkedIs DEF Clean
<1>6. ASSUME Spawn PROVE RecType'
    BY <1>6 DEF Spawn
<1>7. ASSUME Attach PROVE RecType'
    BY <1>7 DEF Attach
<1>8. ASSUME Read PROVE RecType'
    BY <1>8 DEF Read, Running
<1>9. ASSUME Exited PROVE RecType'
    BY <1>9 DEF Exited, Running
<1>10. ASSUME Stopping PROVE RecType'
    BY <1>10 DEF Stopping, Goto, TerminateOnce
<1>11. ASSUME Waiting PROVE RecType'
    BY <1>11 DEF Waiting, Running, Goto
<1>12. ASSUME After PROVE RecType'
    BY <1>12, EndsIs, UnlinkedIs DEF After
<1>13. ASSUME Recheck PROVE RecType'
    BY <1>13, EndsIs DEF Recheck
<1>14. ASSUME Emit PROVE RecType'
    BY <1>14, EndsIs DEF Emit
<1>15. ASSUME CancelWithCleanup PROVE RecType'
    BY <1>15, EndsIs, UnlinkedIs DEF CancelWithCleanup
<1>16. ASSUME StartClipExport PROVE RecType'
    BY <1>16 DEF StartClipExport, Input, IsRunning
<1>17. ASSUME NEW r \in Recs, LoadData(r) PROVE RecType'
    BY <1>17 DEF LoadData, Input
<1>18. ASSUME NEW r \in Recs, PlanDeletion(r) PROVE RecType'
    BY <1>18 DEF PlanDeletion, Input
<1>19. ASSUME WorkerFinished PROVE RecType'
    BY <1>19 DEF WorkerFinished, NoWorker
<1>20. ASSUME Answer PROVE RecType'
    BY <1>20 DEF Answer, BeginsDelete
<1>21. ASSUME Cancel PROVE RecType'
    BY <1>21 DEF Cancel, IsRunning
<1>22. ASSUME CancelTerminates PROVE RecType'
    BY <1>22 DEF CancelTerminates, TerminateOnce
<1>23. ASSUME Wait PROVE RecType'
    BY <1>23 DEF Wait, IsRunning, BeginsDelete
<1>24. ASSUME DeleteNext PROVE RecType'
    BY <1>24, DeleteNextIs
<1>25. ASSUME Record PROVE RecType'
    BY <1>25 DEF Record
<1>26. ASSUME SaveJson PROVE RecType'
    BY <1>26 DEF SaveJson
<1>27. ASSUME SweepEnds PROVE RecType'
    BY <1>27 DEF SweepEnds
<1>28. ASSUME SweepVideo PROVE RecType'
    BY <1>28, SweepVideoIs
<1>29. ASSUME SweepClip PROVE RecType'
    BY <1>29, SweepClipIs
<1>30. ASSUME SweepLog PROVE RecType'
    BY <1>30, SweepLogIs
<1>31. ASSUME Crash PROVE RecType'
    BY <1>31 DEF Crash, Running, NoWorker
<1>32. CASE UNCHANGED vars
    BY <1>32
<1>33. QED
    BY <1>1, <1>2, <1>3, <1>4, <1>5, <1>6, <1>7, <1>8, <1>9, <1>10, <1>11, <1>12, <1>13,
        <1>14, <1>15, <1>16, <1>17, <1>18, <1>19, <1>20, <1>21, <1>22, <1>23, <1>24, <1>25,
        <1>26, <1>27, <1>28, <1>29, <1>30, <1>31, <1>32 DEF Next, WorkerStep, User, Window,
        Recorder

(* Every step keeps CountType.                                               *)
LEMMA NextCountType == IInv /\ [Next]_vars => CountType'
<1> SUFFICES ASSUME IInv, [Next]_vars PROVE CountType'
    OBVIOUS
<1> USE LibraryAssumption DEF CountType, disk, ffmpeg, workerVars, guiVars, recVars, counts, vars,
    OthersOfWorker, SameFiles, OthersOfGui, SameWorker, OthersOfRecorder, IInv, Types
<1>1. ASSUME FfWrites PROVE CountType'
    BY <1>1 DEF FfWrites, Running
<1>2. ASSUME FfExits PROVE CountType'
    BY <1>2 DEF FfExits, Running
<1>3. ASSUME StrayGoesOn PROVE CountType'
    BY <1>3 DEF StrayGoesOn, Running
<1>4. ASSUME Check PROVE CountType'
    BY <1>4 DEF Check
<1>5. ASSUME Clean PROVE CountType'
    BY <1>5, EndsIs, UnlinkedIs DEF Clean
<1>6. ASSUME Spawn PROVE CountType'
    BY <1>6 DEF Spawn
<1>7. ASSUME Attach PROVE CountType'
    BY <1>7 DEF Attach
<1>8. ASSUME Read PROVE CountType'
    BY <1>8 DEF Read, Running
<1>9. ASSUME Exited PROVE CountType'
    BY <1>9 DEF Exited, Running
<1>10. ASSUME Stopping PROVE CountType'
    BY <1>10 DEF Stopping, Goto, TerminateOnce
<1>11. ASSUME Waiting PROVE CountType'
    BY <1>11 DEF Waiting, Running, Goto
<1>12. ASSUME After PROVE CountType'
    BY <1>12, EndsIs, UnlinkedIs DEF After
<1>13. ASSUME Recheck PROVE CountType'
    BY <1>13, EndsIs DEF Recheck
<1>14. ASSUME Emit PROVE CountType'
    BY <1>14, EndsIs DEF Emit
<1>15. ASSUME CancelWithCleanup PROVE CountType'
    BY <1>15, EndsIs, UnlinkedIs DEF CancelWithCleanup
<1>16. ASSUME StartClipExport PROVE CountType'
    BY <1>16 DEF StartClipExport, Input, IsRunning
<1>17. ASSUME NEW r \in Recs, LoadData(r) PROVE CountType'
    BY <1>17 DEF LoadData, Input
<1>18. ASSUME NEW r \in Recs, PlanDeletion(r) PROVE CountType'
    BY <1>18 DEF PlanDeletion, Input
<1>19. ASSUME WorkerFinished PROVE CountType'
    BY <1>19 DEF WorkerFinished, NoWorker
<1>20. ASSUME Answer PROVE CountType'
    BY <1>20 DEF Answer, BeginsDelete
<1>21. ASSUME Cancel PROVE CountType'
    BY <1>21 DEF Cancel, IsRunning
<1>22. ASSUME CancelTerminates PROVE CountType'
    BY <1>22 DEF CancelTerminates, TerminateOnce
<1>23. ASSUME Wait PROVE CountType'
    BY <1>23 DEF Wait, IsRunning, BeginsDelete
<1>24. ASSUME DeleteNext PROVE CountType'
    BY <1>24, DeleteNextIs
<1>25. ASSUME Record PROVE CountType'
    BY <1>25 DEF Record
<1>26. ASSUME SaveJson PROVE CountType'
    BY <1>26 DEF SaveJson
<1>27. ASSUME SweepEnds PROVE CountType'
    BY <1>27 DEF SweepEnds
<1>28. ASSUME SweepVideo PROVE CountType'
    BY <1>28, SweepVideoIs
<1>29. ASSUME SweepClip PROVE CountType'
    BY <1>29, SweepClipIs
<1>30. ASSUME SweepLog PROVE CountType'
    BY <1>30, SweepLogIs
<1>31. ASSUME Crash PROVE CountType'
    BY <1>31 DEF Crash, Running, NoWorker
<1>32. CASE UNCHANGED vars
    BY <1>32
<1>33. QED
    BY <1>1, <1>2, <1>3, <1>4, <1>5, <1>6, <1>7, <1>8, <1>9, <1>10, <1>11, <1>12, <1>13,
        <1>14, <1>15, <1>16, <1>17, <1>18, <1>19, <1>20, <1>21, <1>22, <1>23, <1>24, <1>25,
        <1>26, <1>27, <1>28, <1>29, <1>30, <1>31, <1>32 DEF Next, WorkerStep, User, Window,
        Recorder

(* Every step keeps OrderInv.                                                *)
LEMMA NextOrderInv == IInv /\ [Next]_vars => OrderInv'
<1> SUFFICES ASSUME IInv, [Next]_vars PROVE OrderInv'
    OBVIOUS
<1> USE RecsAre DEF OrderInv, DiskType, RecType, GuiType, disk, ffmpeg, workerVars, guiVars,
    recVars, counts, vars, OthersOfWorker, SameFiles, OthersOfGui, SameWorker, OthersOfRecorder,
    IInv, Types
<1>1. ASSUME FfWrites PROVE OrderInv'
    BY <1>1 DEF FfWrites, Running
<1>2. ASSUME FfExits PROVE OrderInv'
    BY <1>2 DEF FfExits, Running
<1>3. ASSUME StrayGoesOn PROVE OrderInv'
    BY <1>3 DEF StrayGoesOn, Running
<1>4. ASSUME Check PROVE OrderInv'
    BY <1>4 DEF Check
<1>5. ASSUME Clean PROVE OrderInv'
    BY <1>5, EndsIs, UnlinkedIs DEF Clean
<1>6. ASSUME Spawn PROVE OrderInv'
    BY <1>6 DEF Spawn
<1>7. ASSUME Attach PROVE OrderInv'
    BY <1>7 DEF Attach
<1>8. ASSUME Read PROVE OrderInv'
    BY <1>8 DEF Read, Running
<1>9. ASSUME Exited PROVE OrderInv'
    BY <1>9 DEF Exited, Running
<1>10. ASSUME Stopping PROVE OrderInv'
    BY <1>10 DEF Stopping, Goto, TerminateOnce
<1>11. ASSUME Waiting PROVE OrderInv'
    BY <1>11 DEF Waiting, Running, Goto
<1>12. ASSUME After PROVE OrderInv'
    BY <1>12, EndsIs, UnlinkedIs DEF After
<1>13. ASSUME Recheck PROVE OrderInv'
    BY <1>13, EndsIs DEF Recheck
<1>14. ASSUME Emit PROVE OrderInv'
    BY <1>14, EndsIs DEF Emit
<1>15. ASSUME CancelWithCleanup PROVE OrderInv'
    BY <1>15, EndsIs, UnlinkedIs DEF CancelWithCleanup
<1>16. ASSUME StartClipExport PROVE OrderInv'
    BY <1>16 DEF StartClipExport, Input, IsRunning
<1>17. ASSUME NEW r \in Recs, LoadData(r) PROVE OrderInv'
    BY <1>17 DEF LoadData, Input
<1>18. ASSUME NEW r \in Recs, PlanDeletion(r) PROVE OrderInv'
    BY <1>18 DEF PlanDeletion, Input
<1>19. ASSUME WorkerFinished PROVE OrderInv'
    BY <1>19 DEF WorkerFinished, NoWorker
<1>20. ASSUME Answer PROVE OrderInv'
    BY <1>20 DEF Answer, BeginsDelete
<1>21. ASSUME Cancel PROVE OrderInv'
    BY <1>21 DEF Cancel, IsRunning
<1>22. ASSUME CancelTerminates PROVE OrderInv'
    BY <1>22 DEF CancelTerminates, TerminateOnce
<1>23. ASSUME Wait PROVE OrderInv'
    BY <1>23 DEF Wait, IsRunning, BeginsDelete
<1>24. ASSUME DeleteNext PROVE OrderInv'
  <2>1. /\ video' \subseteq video /\ log' \subseteq log /\ UNCHANGED <<recorded, rp>>
        /\ gui = "delete" /\ gui' \in {"idle", "delete"} /\ (gui' = "delete" => plan' = plan)
    BY <1>24, DeleteNextIs
  <2> QED
    BY <2>1
<1>25. ASSUME Record PROVE OrderInv'
  <2>1. /\ recorded' = recorded + 1 /\ video' = video \union {recorded + 1} /\ rp' = "save"
        /\ recorded' \in Recs /\ UNCHANGED <<log, gui, plan>>
    BY <1>25 DEF Record
  <2>2. recorded \in Nat
    BY RecsAre
  <2>3. \A r \in Nat : r <= recorded => r <= recorded + 1
    BY <2>2
  <2>4. \A r \in video' \union log' : r <= recorded'
    BY <2>1, <2>2, <2>3, RecsAre
  <2>5. gui' # "idle" => plan'.rec <= recorded'
    BY <2>1, <2>3, RecsAre
  <2> QED
    BY <2>1, <2>4, <2>5
<1>26. ASSUME SaveJson PROVE OrderInv'
    BY <1>26 DEF SaveJson
<1>27. ASSUME SweepEnds PROVE OrderInv'
    BY <1>27 DEF SweepEnds
<1>28. ASSUME SweepVideo PROVE OrderInv'
    BY <1>28, SweepVideoIs
<1>29. ASSUME SweepClip PROVE OrderInv'
    BY <1>29, SweepClipIs
<1>30. ASSUME SweepLog PROVE OrderInv'
  <2>1. /\ video' \subseteq video /\ log' \subseteq log /\ UNCHANGED <<recorded, gui, plan>>
        /\ rp' \in {"idle", "entry"}
    BY <1>30, SweepLogIs
  <2> QED
    BY <2>1
<1>31. ASSUME Crash PROVE OrderInv'
    BY <1>31 DEF Crash, Running, NoWorker
<1>32. CASE UNCHANGED vars
    BY <1>32
<1>33. QED
    BY <1>1, <1>2, <1>3, <1>4, <1>5, <1>6, <1>7, <1>8, <1>9, <1>10, <1>11, <1>12, <1>13,
        <1>14, <1>15, <1>16, <1>17, <1>18, <1>19, <1>20, <1>21, <1>22, <1>23, <1>24, <1>25,
        <1>26, <1>27, <1>28, <1>29, <1>30, <1>31, <1>32 DEF Next, WorkerStep, User, Window,
        Recorder

(* Every step keeps RunInv.                                                  *)
LEMMA NextRunInv == IInv /\ [Next]_vars => RunInv'
<1> SUFFICES ASSUME IInv, [Next]_vars PROVE RunInv'
    OBVIOUS
<1> USE DEF RunInv, DiskType, WorkType, ENCODER_PROFILES, Active, FlagType, disk, ffmpeg,
    workerVars, guiVars, recVars, counts, vars, OthersOfWorker, SameFiles, OthersOfGui,
    SameWorker, OthersOfRecorder, IInv, Types
<1>1. ASSUME FfWrites PROVE RunInv'
    BY <1>1 DEF FfWrites, Running
<1>2. ASSUME FfExits PROVE RunInv'
    BY <1>2 DEF FfExits, Running
<1>3. ASSUME StrayGoesOn PROVE RunInv'
    BY <1>3 DEF StrayGoesOn, Running
<1>4. ASSUME Check PROVE RunInv'
    BY <1>4 DEF Check
<1>5. ASSUME Clean PROVE RunInv'
    BY <1>5, EndsIs, UnlinkedIs DEF Clean
<1>6. ASSUME Spawn PROVE RunInv'
    BY <1>6 DEF Spawn
<1>7. ASSUME Attach PROVE RunInv'
    BY <1>7 DEF Attach
<1>8. ASSUME Read PROVE RunInv'
    BY <1>8 DEF Read, Running
<1>9. ASSUME Exited PROVE RunInv'
    BY <1>9 DEF Exited, Running
<1>10. ASSUME Stopping PROVE RunInv'
    BY <1>10 DEF Stopping, Goto, TerminateOnce
<1>11. ASSUME Waiting PROVE RunInv'
    BY <1>11 DEF Waiting, Running, Goto
<1>12. ASSUME After PROVE RunInv'
    BY <1>12, EndsIs, UnlinkedIs DEF After
<1>13. ASSUME Recheck PROVE RunInv'
    BY <1>13, EndsIs DEF Recheck
<1>14. ASSUME Emit PROVE RunInv'
    BY <1>14, EndsIs DEF Emit
<1>15. ASSUME CancelWithCleanup PROVE RunInv'
    BY <1>15, EndsIs, UnlinkedIs DEF CancelWithCleanup
<1>16. ASSUME StartClipExport PROVE RunInv'
    BY <1>16 DEF StartClipExport, Input, IsRunning
<1>17. ASSUME NEW r \in Recs, LoadData(r) PROVE RunInv'
    BY <1>17 DEF LoadData, Input
<1>18. ASSUME NEW r \in Recs, PlanDeletion(r) PROVE RunInv'
    BY <1>18 DEF PlanDeletion, Input
<1>19. ASSUME WorkerFinished PROVE RunInv'
    BY <1>19 DEF WorkerFinished, NoWorker
<1>20. ASSUME Answer PROVE RunInv'
    BY <1>20 DEF Answer, BeginsDelete
<1>21. ASSUME Cancel PROVE RunInv'
    BY <1>21 DEF Cancel, IsRunning
<1>22. ASSUME CancelTerminates PROVE RunInv'
    BY <1>22 DEF CancelTerminates, TerminateOnce
<1>23. ASSUME Wait PROVE RunInv'
    BY <1>23 DEF Wait, IsRunning, BeginsDelete
<1>24. ASSUME DeleteNext PROVE RunInv'
    BY <1>24, DeleteNextIs
<1>25. ASSUME Record PROVE RunInv'
    BY <1>25 DEF Record
<1>26. ASSUME SaveJson PROVE RunInv'
    BY <1>26 DEF SaveJson
<1>27. ASSUME SweepEnds PROVE RunInv'
    BY <1>27 DEF SweepEnds
<1>28. ASSUME SweepVideo PROVE RunInv'
    BY <1>28, SweepVideoIs
<1>29. ASSUME SweepClip PROVE RunInv'
    BY <1>29, SweepClipIs
<1>30. ASSUME SweepLog PROVE RunInv'
    BY <1>30, SweepLogIs
<1>31. ASSUME Crash PROVE RunInv'
    BY <1>31 DEF Crash, Running, NoWorker
<1>32. CASE UNCHANGED vars
    BY <1>32
<1>33. QED
    BY <1>1, <1>2, <1>3, <1>4, <1>5, <1>6, <1>7, <1>8, <1>9, <1>10, <1>11, <1>12, <1>13,
        <1>14, <1>15, <1>16, <1>17, <1>18, <1>19, <1>20, <1>21, <1>22, <1>23, <1>24, <1>25,
        <1>26, <1>27, <1>28, <1>29, <1>30, <1>31, <1>32 DEF Next, WorkerStep, User, Window,
        Recorder

(* Every step keeps ClipInv.                                                 *)
LEMMA NextClipInv == IInv /\ [Next]_vars => ClipInv'
<1> SUFFICES ASSUME IInv, [Next]_vars PROVE ClipInv'
    OBVIOUS
<1> USE DEF ClipInv, RunInv, DiskType, Clips, WorkType, RecType, GuiType, Active,
    ENCODER_PROFILES, disk, ffmpeg, workerVars, guiVars, recVars, counts, vars, OthersOfWorker,
    SameFiles, OthersOfGui, SameWorker, OthersOfRecorder, IInv, Types
<1>1. ASSUME FfWrites PROVE ClipInv'
    BY <1>1 DEF FfWrites, Running
<1>2. ASSUME FfExits PROVE ClipInv'
    BY <1>2 DEF FfExits, Running
<1>3. ASSUME StrayGoesOn PROVE ClipInv'
    BY <1>3 DEF StrayGoesOn, Running
<1>4. ASSUME Check PROVE ClipInv'
    BY <1>4 DEF Check
<1>5. ASSUME Clean PROVE ClipInv'
    BY <1>5, EndsIs, UnlinkedIs DEF Clean
<1>6. ASSUME Spawn PROVE ClipInv'
    BY <1>6 DEF Spawn
<1>7. ASSUME Attach PROVE ClipInv'
    BY <1>7 DEF Attach
<1>8. ASSUME Read PROVE ClipInv'
    BY <1>8 DEF Read, Running
<1>9. ASSUME Exited PROVE ClipInv'
    BY <1>9 DEF Exited, Running
<1>10. ASSUME Stopping PROVE ClipInv'
    BY <1>10 DEF Stopping, Goto, TerminateOnce
<1>11. ASSUME Waiting PROVE ClipInv'
    BY <1>11 DEF Waiting, Running, Goto
<1>12. ASSUME After PROVE ClipInv'
  <2>1. CASE ~safe
    BY <1>12, <2>1, EndsIs DEF After
  <2>2. CASE safe /\ w' = "cancelled"
    BY <1>12, <2>2 DEF After
  <2>3. CASE safe /\ w' = "recheck"
    <3>1. PICK ok \in BOOLEAN : Unlinked(ok) /\ left' = ~ok
      BY <1>12, <2>3 DEF After
    <3>2. ff[enc] = "none" /\ rec \in Recs /\ UNCHANGED <<rec, enc, ff, stray>> /\ w = "after"
      BY <1>12, <2>3 DEF After
    <3>3. ok => clip'[rec] = "none"
      BY <3>1, <3>2, UnlinkedIs
    <3> QED
      BY <2>3, <3>1, <3>2, <3>3
  <2> QED
    BY <1>12, <2>1, <2>2, <2>3 DEF After
<1>13. ASSUME Recheck PROVE ClipInv'
    BY <1>13, EndsIs DEF Recheck
<1>14. ASSUME Emit PROVE ClipInv'
    BY <1>14, EndsIs DEF Emit
<1>15. ASSUME CancelWithCleanup PROVE ClipInv'
    BY <1>15, EndsIs, UnlinkedIs DEF CancelWithCleanup
<1>16. ASSUME StartClipExport PROVE ClipInv'
    BY <1>16 DEF StartClipExport, Input, IsRunning
<1>17. ASSUME NEW r \in Recs, LoadData(r) PROVE ClipInv'
    BY <1>17 DEF LoadData, Input
<1>18. ASSUME NEW r \in Recs, PlanDeletion(r) PROVE ClipInv'
    BY <1>18 DEF PlanDeletion, Input
<1>19. ASSUME WorkerFinished PROVE ClipInv'
    BY <1>19 DEF WorkerFinished, NoWorker
<1>20. ASSUME Answer PROVE ClipInv'
    BY <1>20 DEF Answer, BeginsDelete
<1>21. ASSUME Cancel PROVE ClipInv'
    BY <1>21 DEF Cancel, IsRunning
<1>22. ASSUME CancelTerminates PROVE ClipInv'
    BY <1>22 DEF CancelTerminates, TerminateOnce
<1>23. ASSUME Wait PROVE ClipInv'
    BY <1>23 DEF Wait, IsRunning, BeginsDelete
<1>24. ASSUME DeleteNext PROVE ClipInv'
    BY <1>24, DeleteNextIs
<1>25. ASSUME Record PROVE ClipInv'
    BY <1>25 DEF Record
<1>26. ASSUME SaveJson PROVE ClipInv'
    BY <1>26 DEF SaveJson
<1>27. ASSUME SweepEnds PROVE ClipInv'
    BY <1>27 DEF SweepEnds
<1>28. ASSUME SweepVideo PROVE ClipInv'
    BY <1>28, SweepVideoIs
<1>29. ASSUME SweepClip PROVE ClipInv'
    BY <1>29, SweepClipIs
<1>30. ASSUME SweepLog PROVE ClipInv'
    BY <1>30, SweepLogIs
<1>31. ASSUME Crash PROVE ClipInv'
    BY <1>31 DEF Crash, Running, NoWorker
<1>32. CASE UNCHANGED vars
    BY <1>32
<1>33. QED
    BY <1>1, <1>2, <1>3, <1>4, <1>5, <1>6, <1>7, <1>8, <1>9, <1>10, <1>11, <1>12, <1>13,
        <1>14, <1>15, <1>16, <1>17, <1>18, <1>19, <1>20, <1>21, <1>22, <1>23, <1>24, <1>25,
        <1>26, <1>27, <1>28, <1>29, <1>30, <1>31, <1>32 DEF Next, WorkerStep, User, Window,
        Recorder

(* Every step keeps GoneInv.                                                 *)
LEMMA NextGoneInv == IInv /\ [Next]_vars => GoneInv'
<1> SUFFICES ASSUME IInv, [Next]_vars PROVE GoneInv'
    OBVIOUS
<1> USE DEF GoneInv, OrderInv, DiskType, WorkType, GuiType, RecType, NoPlan, Clips, disk, ffmpeg,
    workerVars, guiVars, recVars, counts, vars, OthersOfWorker, SameFiles, OthersOfGui,
    SameWorker, OthersOfRecorder, IInv, Types
<1>1. ASSUME FfWrites PROVE GoneInv'
    BY <1>1 DEF FfWrites, Running
<1>2. ASSUME FfExits PROVE GoneInv'
    BY <1>2 DEF FfExits, Running
<1>3. ASSUME StrayGoesOn PROVE GoneInv'
    BY <1>3 DEF StrayGoesOn, Running
<1>4. ASSUME Check PROVE GoneInv'
    BY <1>4 DEF Check
<1>5. ASSUME Clean PROVE GoneInv'
    BY <1>5, EndsIs, UnlinkedIs DEF Clean
<1>6. ASSUME Spawn PROVE GoneInv'
    BY <1>6 DEF Spawn
<1>7. ASSUME Attach PROVE GoneInv'
    BY <1>7 DEF Attach
<1>8. ASSUME Read PROVE GoneInv'
    BY <1>8 DEF Read, Running
<1>9. ASSUME Exited PROVE GoneInv'
    BY <1>9 DEF Exited, Running
<1>10. ASSUME Stopping PROVE GoneInv'
    BY <1>10 DEF Stopping, Goto, TerminateOnce
<1>11. ASSUME Waiting PROVE GoneInv'
    BY <1>11 DEF Waiting, Running, Goto
<1>12. ASSUME After PROVE GoneInv'
    BY <1>12, EndsIs, UnlinkedIs DEF After
<1>13. ASSUME Recheck PROVE GoneInv'
    BY <1>13, EndsIs DEF Recheck
<1>14. ASSUME Emit PROVE GoneInv'
    BY <1>14, EndsIs DEF Emit
<1>15. ASSUME CancelWithCleanup PROVE GoneInv'
    BY <1>15, EndsIs, UnlinkedIs DEF CancelWithCleanup
<1>16. ASSUME StartClipExport PROVE GoneInv'
    BY <1>16 DEF StartClipExport, Input, IsRunning
<1>17. ASSUME NEW r \in Recs, LoadData(r) PROVE GoneInv'
    BY <1>17 DEF LoadData, Input
<1>18. ASSUME NEW r \in Recs, PlanDeletion(r) PROVE GoneInv'
    BY <1>18 DEF PlanDeletion, Input
<1>19. ASSUME WorkerFinished PROVE GoneInv'
    BY <1>19 DEF WorkerFinished, NoWorker
<1>20. ASSUME Answer PROVE GoneInv'
  <2>1. CASE gui' = "delete"
    <3>1. UNCHANGED <<plan, video, clip>> /\ todo' = Paths
      BY <1>20, <2>1 DEF Answer, BeginsDelete
    <3> QED
      BY <3>1, PathsIs
  <2>2. CASE gui' # "delete"
    BY <2>2
  <2> QED
    BY <2>1, <2>2
<1>21. ASSUME Cancel PROVE GoneInv'
    BY <1>21 DEF Cancel, IsRunning
<1>22. ASSUME CancelTerminates PROVE GoneInv'
    BY <1>22 DEF CancelTerminates, TerminateOnce
<1>23. ASSUME Wait PROVE GoneInv'
  <2>1. CASE gui' = "delete"
    <3>1. UNCHANGED <<plan, video, clip>> /\ todo' = Paths
      BY <1>23, <2>1 DEF Wait, BeginsDelete
    <3> QED
      BY <3>1, PathsIs
  <2>2. CASE gui' # "delete"
    BY <2>2
  <2> QED
    BY <2>1, <2>2
<1>24. ASSUME DeleteNext PROVE GoneInv'
    BY <1>24, DeleteNextIs
<1>25. ASSUME Record PROVE GoneInv'
    BY <1>25 DEF Record
<1>26. ASSUME SaveJson PROVE GoneInv'
    BY <1>26 DEF SaveJson
<1>27. ASSUME SweepEnds PROVE GoneInv'
    BY <1>27 DEF SweepEnds
<1>28. ASSUME SweepVideo PROVE GoneInv'
    BY <1>28, SweepVideoIs
<1>29. ASSUME SweepClip PROVE GoneInv'
    BY <1>29, SweepClipIs
<1>30. ASSUME SweepLog PROVE GoneInv'
    BY <1>30, SweepLogIs
<1>31. ASSUME Crash PROVE GoneInv'
    BY <1>31 DEF Crash, Running, NoWorker
<1>32. CASE UNCHANGED vars
    BY <1>32
<1>33. QED
    BY <1>1, <1>2, <1>3, <1>4, <1>5, <1>6, <1>7, <1>8, <1>9, <1>10, <1>11, <1>12, <1>13,
        <1>14, <1>15, <1>16, <1>17, <1>18, <1>19, <1>20, <1>21, <1>22, <1>23, <1>24, <1>25,
        <1>26, <1>27, <1>28, <1>29, <1>30, <1>31, <1>32 DEF Next, WorkerStep, User, Window,
        Recorder

(* Every step keeps IdleInv.                                                 *)
LEMMA NextIdleInv == IInv /\ [Next]_vars => IdleInv'
<1> SUFFICES ASSUME IInv, [Next]_vars PROVE IdleInv'
    OBVIOUS
<1> USE DEF IdleInv, FlagType, WorkType, disk, ffmpeg, workerVars, guiVars, recVars, counts, vars,
    OthersOfWorker, SameFiles, OthersOfGui, SameWorker, OthersOfRecorder, IInv, Types
<1>1. ASSUME FfWrites PROVE IdleInv'
    BY <1>1 DEF FfWrites, Running
<1>2. ASSUME FfExits PROVE IdleInv'
    BY <1>2 DEF FfExits, Running
<1>3. ASSUME StrayGoesOn PROVE IdleInv'
    BY <1>3 DEF StrayGoesOn, Running
<1>4. ASSUME Check PROVE IdleInv'
    BY <1>4 DEF Check
<1>5. ASSUME Clean PROVE IdleInv'
    BY <1>5, EndsIs, UnlinkedIs DEF Clean
<1>6. ASSUME Spawn PROVE IdleInv'
    BY <1>6 DEF Spawn
<1>7. ASSUME Attach PROVE IdleInv'
    BY <1>7 DEF Attach
<1>8. ASSUME Read PROVE IdleInv'
    BY <1>8 DEF Read, Running
<1>9. ASSUME Exited PROVE IdleInv'
    BY <1>9 DEF Exited, Running
<1>10. ASSUME Stopping PROVE IdleInv'
    BY <1>10 DEF Stopping, Goto, TerminateOnce
<1>11. ASSUME Waiting PROVE IdleInv'
    BY <1>11 DEF Waiting, Running, Goto
<1>12. ASSUME After PROVE IdleInv'
    BY <1>12, EndsIs, UnlinkedIs DEF After
<1>13. ASSUME Recheck PROVE IdleInv'
    BY <1>13, EndsIs DEF Recheck
<1>14. ASSUME Emit PROVE IdleInv'
    BY <1>14, EndsIs DEF Emit
<1>15. ASSUME CancelWithCleanup PROVE IdleInv'
    BY <1>15, EndsIs, UnlinkedIs DEF CancelWithCleanup
<1>16. ASSUME StartClipExport PROVE IdleInv'
    BY <1>16 DEF StartClipExport, Input, IsRunning
<1>17. ASSUME NEW r \in Recs, LoadData(r) PROVE IdleInv'
    BY <1>17 DEF LoadData, Input
<1>18. ASSUME NEW r \in Recs, PlanDeletion(r) PROVE IdleInv'
    BY <1>18 DEF PlanDeletion, Input
<1>19. ASSUME WorkerFinished PROVE IdleInv'
    BY <1>19 DEF WorkerFinished, NoWorker
<1>20. ASSUME Answer PROVE IdleInv'
    BY <1>20 DEF Answer, BeginsDelete
<1>21. ASSUME Cancel PROVE IdleInv'
    BY <1>21 DEF Cancel, IsRunning
<1>22. ASSUME CancelTerminates PROVE IdleInv'
    BY <1>22 DEF CancelTerminates, TerminateOnce
<1>23. ASSUME Wait PROVE IdleInv'
    BY <1>23 DEF Wait, IsRunning, BeginsDelete
<1>24. ASSUME DeleteNext PROVE IdleInv'
    BY <1>24, DeleteNextIs
<1>25. ASSUME Record PROVE IdleInv'
    BY <1>25 DEF Record
<1>26. ASSUME SaveJson PROVE IdleInv'
    BY <1>26 DEF SaveJson
<1>27. ASSUME SweepEnds PROVE IdleInv'
    BY <1>27 DEF SweepEnds
<1>28. ASSUME SweepVideo PROVE IdleInv'
    BY <1>28, SweepVideoIs
<1>29. ASSUME SweepClip PROVE IdleInv'
    BY <1>29, SweepClipIs
<1>30. ASSUME SweepLog PROVE IdleInv'
    BY <1>30, SweepLogIs
<1>31. ASSUME Crash PROVE IdleInv'
    BY <1>31 DEF Crash, Running, NoWorker
<1>32. CASE UNCHANGED vars
    BY <1>32
<1>33. QED
    BY <1>1, <1>2, <1>3, <1>4, <1>5, <1>6, <1>7, <1>8, <1>9, <1>10, <1>11, <1>12, <1>13,
        <1>14, <1>15, <1>16, <1>17, <1>18, <1>19, <1>20, <1>21, <1>22, <1>23, <1>24, <1>25,
        <1>26, <1>27, <1>28, <1>29, <1>30, <1>31, <1>32 DEF Next, WorkerStep, User, Window,
        Recorder

(* Every step keeps SweepInv.                                                *)
LEMMA NextSweepInv == IInv /\ [Next]_vars => SweepInv'
<1> SUFFICES ASSUME IInv, [Next]_vars PROVE SweepInv'
    OBVIOUS
<1> USE DEF SweepInv, RecType, DiskType, OrderInv, disk, ffmpeg, workerVars, guiVars, recVars,
    counts, vars, OthersOfWorker, SameFiles, OthersOfGui, SameWorker, OthersOfRecorder, IInv,
    Types
<1>1. ASSUME FfWrites PROVE SweepInv'
    BY <1>1 DEF FfWrites, Running
<1>2. ASSUME FfExits PROVE SweepInv'
    BY <1>2 DEF FfExits, Running
<1>3. ASSUME StrayGoesOn PROVE SweepInv'
    BY <1>3 DEF StrayGoesOn, Running
<1>4. ASSUME Check PROVE SweepInv'
    BY <1>4 DEF Check
<1>5. ASSUME Clean PROVE SweepInv'
    BY <1>5, EndsIs, UnlinkedIs DEF Clean
<1>6. ASSUME Spawn PROVE SweepInv'
    BY <1>6 DEF Spawn
<1>7. ASSUME Attach PROVE SweepInv'
    BY <1>7 DEF Attach
<1>8. ASSUME Read PROVE SweepInv'
    BY <1>8 DEF Read, Running
<1>9. ASSUME Exited PROVE SweepInv'
    BY <1>9 DEF Exited, Running
<1>10. ASSUME Stopping PROVE SweepInv'
    BY <1>10 DEF Stopping, Goto, TerminateOnce
<1>11. ASSUME Waiting PROVE SweepInv'
    BY <1>11 DEF Waiting, Running, Goto
<1>12. ASSUME After PROVE SweepInv'
    BY <1>12, EndsIs, UnlinkedIs DEF After
<1>13. ASSUME Recheck PROVE SweepInv'
    BY <1>13, EndsIs DEF Recheck
<1>14. ASSUME Emit PROVE SweepInv'
    BY <1>14, EndsIs DEF Emit
<1>15. ASSUME CancelWithCleanup PROVE SweepInv'
    BY <1>15, EndsIs, UnlinkedIs DEF CancelWithCleanup
<1>16. ASSUME StartClipExport PROVE SweepInv'
    BY <1>16 DEF StartClipExport, Input, IsRunning
<1>17. ASSUME NEW r \in Recs, LoadData(r) PROVE SweepInv'
    BY <1>17 DEF LoadData, Input
<1>18. ASSUME NEW r \in Recs, PlanDeletion(r) PROVE SweepInv'
    BY <1>18 DEF PlanDeletion, Input
<1>19. ASSUME WorkerFinished PROVE SweepInv'
    BY <1>19 DEF WorkerFinished, NoWorker
<1>20. ASSUME Answer PROVE SweepInv'
    BY <1>20 DEF Answer, BeginsDelete
<1>21. ASSUME Cancel PROVE SweepInv'
    BY <1>21 DEF Cancel, IsRunning
<1>22. ASSUME CancelTerminates PROVE SweepInv'
    BY <1>22 DEF CancelTerminates, TerminateOnce
<1>23. ASSUME Wait PROVE SweepInv'
    BY <1>23 DEF Wait, IsRunning, BeginsDelete
<1>24. ASSUME DeleteNext PROVE SweepInv'
    BY <1>24, DeleteNextIs
<1>25. ASSUME Record PROVE SweepInv'
    BY <1>25 DEF Record
<1>26. ASSUME SaveJson PROVE SweepInv'
    BY <1>26 DEF SaveJson
<1>27. ASSUME SweepEnds PROVE SweepInv'
    BY <1>27 DEF SweepEnds
<1>28. ASSUME SweepVideo PROVE SweepInv'
  <2>1. /\ rp = "entry" /\ log' = log /\ UNCHANGED <<recorded, stuck>>
        /\ entry' \in sweep /\ sweep' = sweep \ {entry'}
    BY <1>28, SweepVideoIs
  <2>2. None \notin log /\ entry = None
    BY <2>1, RecsAre DEF None
  <2> QED
    BY <2>1, <2>2
<1>29. ASSUME SweepClip PROVE SweepInv'
    BY <1>29, SweepClipIs
<1>30. ASSUME SweepLog PROVE SweepInv'
    BY <1>30, SweepLogIs
<1>31. ASSUME Crash PROVE SweepInv'
    BY <1>31 DEF Crash, Running, NoWorker
<1>32. CASE UNCHANGED vars
    BY <1>32
<1>33. QED
    BY <1>1, <1>2, <1>3, <1>4, <1>5, <1>6, <1>7, <1>8, <1>9, <1>10, <1>11, <1>12, <1>13,
        <1>14, <1>15, <1>16, <1>17, <1>18, <1>19, <1>20, <1>21, <1>22, <1>23, <1>24, <1>25,
        <1>26, <1>27, <1>28, <1>29, <1>30, <1>31, <1>32 DEF Next, WorkerStep, User, Window,
        Recorder

(* The library as the application finds it satisfies the invariant.          *)
LEMMA InitIInv == Init => IInv
<1> SUFFICES ASSUME Init PROVE IInv
    OBVIOUS
<1>1. Types
  <2>1. FlagType /\ DiskType
    BY RecsAre DEF Init, FlagType, DiskType, Clips
  <2>2. WorkType
    BY DEF Init, WorkType, ENCODER_PROFILES
  <2>3. GuiType
    BY NoPlanIs DEF Init, GuiType, Todos
  <2>4. RecType
    <3>1. Old = 0 \/ Old \in 1..Old
      BY RecsAre
    <3> QED
      BY <3>1, RecsAre DEF Init, RecType
  <2>5. CountType
    BY LibraryAssumption DEF Init, CountType
  <2> QED
    BY <2>1, <2>2, <2>3, <2>4, <2>5 DEF Types
<1>2. OrderInv
    BY RecsAre DEF Init, OrderInv
<1>3. RunInv /\ ClipInv /\ GoneInv /\ SweepInv /\ IdleInv
    BY RecsAre DEF Init, RunInv, ClipInv, GoneInv, SweepInv, IdleInv
<1> QED
    BY <1>1, <1>2, <1>3 DEF IInv

(* The invariant holds throughout.                                           *)
LEMMA Invariance == Spec => []IInv
<1>1. IInv /\ [Next]_vars => IInv'
    BY NextFlagType, NextDiskType, NextWorkType, NextGuiType, NextRecType, NextCountType,
       NextOrderInv, NextRunInv, NextClipInv, NextGoneInv, NextSweepInv, NextIdleInv DEF
           IInv, Types
<1> QED
    BY InitIInv, <1>1, PTL DEF Spec

-----------------------------------------------------------------------------
(* The types of the specification hold, and no attempt of an export leaves   *)
(* its process attached to the next (ClipExportWorker._detach_process).      *)
THEOREM LibraryTypes == Spec => []TypeOK
<1>1. IInv => TypeOK
  <2> SUFFICES ASSUME IInv PROVE TypeOK
    OBVIOUS
  <2>1. cancel \in BOOLEAN /\ term \in BOOLEAN /\ safe \in BOOLEAN /\ left \in BOOLEAN
    BY DEF IInv, Types, FlagType
  <2>2. /\ video \subseteq Recs /\ log \subseteq Recs
        /\ clip \in [Recs -> {"none", "partial", "whole"}]
        /\ ff \in [ENCODER_PROFILES -> {"none", "live", "ok", "bad"}]
        /\ stray \in [Recs -> {"none", "live", "gone"}]
    BY DEF IInv, Types, DiskType, Clips
  <2>3. /\ w \in {"off", "check", "clean", "spawn", "attach", "read", "exited", "stopping",
                  "waiting", "after", "recheck", "emit", "cancelled", "done"}
        /\ rec \in Recs \union {None} /\ enc \in ENCODER_PROFILES
        /\ process \in {None, enc} /\ asked \in {None} \union ENCODER_PROFILES
        /\ verdict \in {"none", "finished", "failed"}
    BY DEF IInv, Types, WorkType, Active
  <2>4. /\ gui \in {"idle", "asking", "cancel", "terminate", "wait", "delete"}
        /\ current \in Recs \union {None} /\ snapshot \in {None} \union ENCODER_PROFILES
        /\ plan \in [rec : Recs \union {None}, video : BOOLEAN, clip : BOOLEAN]
    BY DEF IInv, Types, GuiType
  <2>5. Len(todo) <= 3 /\ \A i \in DOMAIN todo : todo[i] \in {"video", "clip", "log"}
    <3>1. todo \in Todos
      BY DEF IInv, Types, GuiType
    <3>2. CASE todo \in {<<>>, <<"video">>, <<"clip">>, <<"log">>}
      BY <3>2
    <3>3. CASE todo = <<"video", "clip">>
      BY <3>3
    <3>5. CASE todo = <<"video", "log">>
      BY <3>5
    <3>6. CASE todo = <<"clip", "log">>
      BY <3>6
    <3>4. CASE todo = <<"video", "clip", "log">>
      BY <3>4
    <3> QED
      BY <3>1, <3>2, <3>3, <3>4, <3>5, <3>6 DEF Todos
  <2>6. /\ rp \in {"idle", "save", "entry", "clip", "log"} /\ recorded \in Recs \union {0}
        /\ sweep \subseteq Recs /\ entry \in Recs \union {None} /\ stuck \subseteq Recs
    BY DEF IInv, Types, RecType
  <2>7. exports \in 0..MaxExports /\ deletions \in 0..MaxDeletions
    BY DEF IInv, Types, CountType
  <2> QED
    BY <2>1, <2>2, <2>3, <2>4, <2>5, <2>6, <2>7 DEF TypeOK
<1> QED
    BY <1>1, Invariance, PTL

(* Two encoders never write the same clip at a time (retry_safe), however    *)
(* badly an FFmpeg reacts to its termination.                                *)
THEOREM EncodersAlone == Spec => []FallbackAlone
<1>1. IInv => FallbackAlone
    BY DEF IInv, RunInv, FallbackAlone, Running
<1> QED
    BY <1>1, Invariance, PTL

(* The verdict of an export tells what it has left on the disk, for any      *)
(* interleaving of cancels, failures, deletions and clean-ups.               *)
THEOREM VerdictIsTrue == Spec => VerdictTellsTheFile
<1> DEFINE Told ==
      verdict' # verdict /\ rec # None /\ rec' = rec /\ stray'[rec] = "none" =>
          /\ verdict' = "finished" => ~cancel /\ clip'[rec] \in {"whole", "none"}
          /\ verdict' = "failed" /\ ~left' => clip'[rec] = "none"
<1>1. IInv /\ [Next]_vars => Told
  <2> SUFFICES ASSUME IInv, [Next]_vars PROVE Told
      OBVIOUS
  <2> USE DEF ClipInv, WorkType, DiskType, Clips, FlagType, disk, ffmpeg, workerVars, guiVars,
      recVars, counts, vars, OthersOfWorker, SameFiles, OthersOfGui, SameWorker,
      OthersOfRecorder, IInv, Types
  <2>1. ASSUME FfWrites PROVE Told
      BY <2>1 DEF FfWrites, Running
  <2>2. ASSUME FfExits PROVE Told
      BY <2>2 DEF FfExits, Running
  <2>3. ASSUME StrayGoesOn PROVE Told
      BY <2>3 DEF StrayGoesOn, Running
  <2>4. ASSUME Check PROVE Told
      BY <2>4 DEF Check
  <2>5. ASSUME Clean PROVE Told
    <3>1. CASE UNCHANGED verdict
      BY <3>1
    <3>2. CASE Ends("failed") /\ left' = TRUE
      BY <2>5, <3>2, EndsIs DEF Clean
    <3> QED
      BY <2>5, <3>1, <3>2 DEF Clean
  <2>6. ASSUME Spawn PROVE Told
      BY <2>6 DEF Spawn
  <2>7. ASSUME Attach PROVE Told
      BY <2>7 DEF Attach
  <2>8. ASSUME Read PROVE Told
      BY <2>8 DEF Read, Running
  <2>9. ASSUME Exited PROVE Told
      BY <2>9 DEF Exited, Running
  <2>10. ASSUME Stopping PROVE Told
      BY <2>10 DEF Stopping, Goto, TerminateOnce
  <2>11. ASSUME Waiting PROVE Told
      BY <2>11 DEF Waiting, Running, Goto
  <2>12. ASSUME After PROVE Told
      BY <2>12, EndsIs, UnlinkedIs DEF After
  <2>13. ASSUME Recheck PROVE Told
      BY <2>13, EndsIs DEF Recheck
  <2>14. ASSUME Emit PROVE Told
      BY <2>14, EndsIs DEF Emit
  <2>15. ASSUME CancelWithCleanup PROVE Told
    <3>1. PICK ok \in BOOLEAN : Unlinked(ok) /\ left' = ~ok
      BY <2>15 DEF CancelWithCleanup
    <3>2. rec \in Recs /\ verdict' = "failed"
      BY <2>15, EndsIs DEF CancelWithCleanup
    <3>3. ok => clip'[rec] = "none"
      BY <3>1, <3>2, UnlinkedIs
    <3> QED
      BY <3>1, <3>2, <3>3
  <2>16. ASSUME StartClipExport PROVE Told
      BY <2>16 DEF StartClipExport, Input, IsRunning
  <2>17. ASSUME NEW r \in Recs, LoadData(r) PROVE Told
      BY <2>17 DEF LoadData, Input
  <2>18. ASSUME NEW r \in Recs, PlanDeletion(r) PROVE Told
      BY <2>18 DEF PlanDeletion, Input
  <2>19. ASSUME WorkerFinished PROVE Told
      BY <2>19 DEF WorkerFinished, NoWorker
  <2>20. ASSUME Answer PROVE Told
      BY <2>20 DEF Answer, BeginsDelete
  <2>21. ASSUME Cancel PROVE Told
      BY <2>21 DEF Cancel, IsRunning
  <2>22. ASSUME CancelTerminates PROVE Told
      BY <2>22 DEF CancelTerminates, TerminateOnce
  <2>23. ASSUME Wait PROVE Told
      BY <2>23 DEF Wait, IsRunning, BeginsDelete
  <2>24. ASSUME DeleteNext PROVE Told
      BY <2>24, DeleteNextIs
  <2>25. ASSUME Record PROVE Told
      BY <2>25 DEF Record
  <2>26. ASSUME SaveJson PROVE Told
      BY <2>26 DEF SaveJson
  <2>27. ASSUME SweepEnds PROVE Told
      BY <2>27 DEF SweepEnds
  <2>28. ASSUME SweepVideo PROVE Told
      BY <2>28, SweepVideoIs
  <2>29. ASSUME SweepClip PROVE Told
      BY <2>29, SweepClipIs
  <2>30. ASSUME SweepLog PROVE Told
      BY <2>30, SweepLogIs
  <2>31. ASSUME Crash PROVE Told
      BY <2>31 DEF Crash, Running, NoWorker
  <2>32. CASE UNCHANGED vars
      BY <2>32
  <2>33. QED
      BY <2>1, <2>2, <2>3, <2>4, <2>5, <2>6, <2>7, <2>8, <2>9, <2>10, <2>11, <2>12, <2>13,
          <2>14, <2>15, <2>16, <2>17, <2>18, <2>19, <2>20, <2>21, <2>22, <2>23, <2>24,
          <2>25, <2>26, <2>27, <2>28, <2>29, <2>30, <2>31, <2>32 DEF Next, WorkerStep, User,
          Window, Recorder
<1> QED
    BY <1>1, Invariance, PTL DEF Spec, VerdictTellsTheFile

(* The user's deletion takes the log of a recording after its files, with    *)
(* the clean-up of the recorder and exports under way beside it.             *)
THEOREM LogLast == Spec => LogOutlivesFiles
<1> DEFINE Last ==
      gui = "delete" /\ plan.rec \in log \ log' /\ rp' = rp =>
          /\ plan.video => plan.rec \notin video
          /\ plan.clip /\ rec # plan.rec /\ stray[plan.rec] = "none" => clip[plan.rec] = "none"
<1>1. IInv /\ [Next]_vars => Last
  <2> SUFFICES ASSUME IInv, [Next]_vars PROVE Last
      OBVIOUS
  <2> USE DEF GoneInv, GuiType, disk, ffmpeg, workerVars, guiVars, recVars, counts, vars,
      OthersOfWorker, SameFiles, OthersOfGui, SameWorker, OthersOfRecorder, IInv, Types
  <2>1. ASSUME FfWrites PROVE Last
      BY <2>1 DEF FfWrites, Running
  <2>2. ASSUME FfExits PROVE Last
      BY <2>2 DEF FfExits, Running
  <2>3. ASSUME StrayGoesOn PROVE Last
      BY <2>3 DEF StrayGoesOn, Running
  <2>4. ASSUME Check PROVE Last
      BY <2>4 DEF Check
  <2>5. ASSUME Clean PROVE Last
      BY <2>5, EndsIs, UnlinkedIs DEF Clean
  <2>6. ASSUME Spawn PROVE Last
      BY <2>6 DEF Spawn
  <2>7. ASSUME Attach PROVE Last
      BY <2>7 DEF Attach
  <2>8. ASSUME Read PROVE Last
      BY <2>8 DEF Read, Running
  <2>9. ASSUME Exited PROVE Last
      BY <2>9 DEF Exited, Running
  <2>10. ASSUME Stopping PROVE Last
      BY <2>10 DEF Stopping, Goto, TerminateOnce
  <2>11. ASSUME Waiting PROVE Last
      BY <2>11 DEF Waiting, Running, Goto
  <2>12. ASSUME After PROVE Last
      BY <2>12, EndsIs, UnlinkedIs DEF After
  <2>13. ASSUME Recheck PROVE Last
      BY <2>13, EndsIs DEF Recheck
  <2>14. ASSUME Emit PROVE Last
      BY <2>14, EndsIs DEF Emit
  <2>15. ASSUME CancelWithCleanup PROVE Last
      BY <2>15, EndsIs, UnlinkedIs DEF CancelWithCleanup
  <2>16. ASSUME StartClipExport PROVE Last
      BY <2>16 DEF StartClipExport, Input, IsRunning
  <2>17. ASSUME NEW r \in Recs, LoadData(r) PROVE Last
      BY <2>17 DEF LoadData, Input
  <2>18. ASSUME NEW r \in Recs, PlanDeletion(r) PROVE Last
      BY <2>18 DEF PlanDeletion, Input
  <2>19. ASSUME WorkerFinished PROVE Last
      BY <2>19 DEF WorkerFinished, NoWorker
  <2>20. ASSUME Answer PROVE Last
      BY <2>20 DEF Answer, BeginsDelete
  <2>21. ASSUME Cancel PROVE Last
      BY <2>21 DEF Cancel, IsRunning
  <2>22. ASSUME CancelTerminates PROVE Last
      BY <2>22 DEF CancelTerminates, TerminateOnce
  <2>23. ASSUME Wait PROVE Last
      BY <2>23 DEF Wait, IsRunning, BeginsDelete
  <2>24. ASSUME DeleteNext PROVE Last
      BY <2>24, DeleteNextIs
  <2>25. ASSUME Record PROVE Last
      BY <2>25 DEF Record
  <2>26. ASSUME SaveJson PROVE Last
      BY <2>26 DEF SaveJson
  <2>27. ASSUME SweepEnds PROVE Last
      BY <2>27 DEF SweepEnds
  <2>28. ASSUME SweepVideo PROVE Last
      BY <2>28, SweepVideoIs
  <2>29. ASSUME SweepClip PROVE Last
      BY <2>29, SweepClipIs
  <2>30. ASSUME SweepLog PROVE Last
      BY <2>30, SweepLogIs
  <2>31. ASSUME Crash PROVE Last
      BY <2>31 DEF Crash, Running, NoWorker
  <2>32. CASE UNCHANGED vars
      BY <2>32
  <2>33. QED
      BY <2>1, <2>2, <2>3, <2>4, <2>5, <2>6, <2>7, <2>8, <2>9, <2>10, <2>11, <2>12, <2>13,
          <2>14, <2>15, <2>16, <2>17, <2>18, <2>19, <2>20, <2>21, <2>22, <2>23, <2>24,
          <2>25, <2>26, <2>27, <2>28, <2>29, <2>30, <2>31, <2>32 DEF Next, WorkerStep, User,
          Window, Recorder
<1> QED
    BY <1>1, Invariance, PTL DEF Spec, LogOutlivesFiles

(* A cancelled export has at most eight steps left, whatever FFmpeg and the  *)
(* window do: this is the half of CancelEnds that needs no fairness.         *)
THEOREM CancelIsCounted == Spec => CancelCountsDown
<1> DEFINE Fewer ==
      cancel => \/ StepsLeft' < StepsLeft /\ (cancel' \/ w' = "off")
                \/ UNCHANGED <<w, enc, cancel>>
<1>1. IInv /\ [Next]_vars => Fewer
  <2> SUFFICES ASSUME IInv, [Next]_vars PROVE Fewer
      OBVIOUS
  <2> USE DEF IdleInv, FlagType, WorkType, Active, StepsLeft, disk, ffmpeg, workerVars, guiVars,
      recVars, counts, vars, OthersOfWorker, SameFiles, OthersOfGui, SameWorker,
      OthersOfRecorder, IInv, Types
  <2>1. ASSUME FfWrites PROVE Fewer
      BY <2>1 DEF FfWrites, Running
  <2>2. ASSUME FfExits PROVE Fewer
      BY <2>2 DEF FfExits, Running
  <2>3. ASSUME StrayGoesOn PROVE Fewer
      BY <2>3 DEF StrayGoesOn, Running
  <2>4. ASSUME Check PROVE Fewer
      BY <2>4 DEF Check
  <2>5. ASSUME Clean PROVE Fewer
    <3>1. w = "clean" /\ w' \in {"spawn", "done"} /\ cancel' = cancel
      BY <2>5, EndsIs DEF Clean
    <3> QED
      BY <3>1
  <2>6. ASSUME Spawn PROVE Fewer
      BY <2>6 DEF Spawn
  <2>7. ASSUME Attach PROVE Fewer
      BY <2>7 DEF Attach
  <2>8. ASSUME Read PROVE Fewer
      BY <2>8 DEF Read, Running
  <2>9. ASSUME Exited PROVE Fewer
      BY <2>9 DEF Exited, Running
  <2>10. ASSUME Stopping PROVE Fewer
      BY <2>10 DEF Stopping, Goto, TerminateOnce
  <2>11. ASSUME Waiting PROVE Fewer
      BY <2>11 DEF Waiting, Running, Goto
  <2>12. ASSUME After PROVE Fewer
      BY <2>12, EndsIs, UnlinkedIs DEF After
  <2>13. ASSUME Recheck PROVE Fewer
      BY <2>13, EndsIs DEF Recheck
  <2>14. ASSUME Emit PROVE Fewer
      BY <2>14, EndsIs DEF Emit
  <2>15. ASSUME CancelWithCleanup PROVE Fewer
      BY <2>15, EndsIs, UnlinkedIs DEF CancelWithCleanup
  <2>16. ASSUME StartClipExport PROVE Fewer
      BY <2>16 DEF StartClipExport, Input, IsRunning
  <2>17. ASSUME NEW r \in Recs, LoadData(r) PROVE Fewer
      BY <2>17 DEF LoadData, Input
  <2>18. ASSUME NEW r \in Recs, PlanDeletion(r) PROVE Fewer
      BY <2>18 DEF PlanDeletion, Input
  <2>19. ASSUME WorkerFinished PROVE Fewer
      BY <2>19 DEF WorkerFinished, NoWorker
  <2>20. ASSUME Answer PROVE Fewer
      BY <2>20 DEF Answer, BeginsDelete
  <2>21. ASSUME Cancel PROVE Fewer
      BY <2>21 DEF Cancel, IsRunning
  <2>22. ASSUME CancelTerminates PROVE Fewer
      BY <2>22 DEF CancelTerminates, TerminateOnce
  <2>23. ASSUME Wait PROVE Fewer
      BY <2>23 DEF Wait, IsRunning, BeginsDelete
  <2>24. ASSUME DeleteNext PROVE Fewer
      BY <2>24, DeleteNextIs
  <2>25. ASSUME Record PROVE Fewer
      BY <2>25 DEF Record
  <2>26. ASSUME SaveJson PROVE Fewer
      BY <2>26 DEF SaveJson
  <2>27. ASSUME SweepEnds PROVE Fewer
      BY <2>27 DEF SweepEnds
  <2>28. ASSUME SweepVideo PROVE Fewer
      BY <2>28, SweepVideoIs
  <2>29. ASSUME SweepClip PROVE Fewer
      BY <2>29, SweepClipIs
  <2>30. ASSUME SweepLog PROVE Fewer
      BY <2>30, SweepLogIs
  <2>31. ASSUME Crash PROVE Fewer
    <3>1. w' = "off"
      BY <2>31 DEF Crash, NoWorker
    <3>2. cancel => w # "off"
      OBVIOUS
    <3>3. w \in {"attach", "read", "exited", "stopping", "waiting", "after", "check", "clean",
                  "spawn", "recheck", "emit", "cancelled", "done"} => StepsLeft' < StepsLeft
      BY <3>1
    <3> QED
      BY <3>1, <3>2, <3>3
  <2>32. CASE UNCHANGED vars
      BY <2>32
  <2>33. QED
      BY <2>1, <2>2, <2>3, <2>4, <2>5, <2>6, <2>7, <2>8, <2>9, <2>10, <2>11, <2>12, <2>13,
          <2>14, <2>15, <2>16, <2>17, <2>18, <2>19, <2>20, <2>21, <2>22, <2>23, <2>24,
          <2>25, <2>26, <2>27, <2>28, <2>29, <2>30, <2>31, <2>32 DEF Next, WorkerStep, User,
          Window, Recorder
<1> QED
    BY <1>1, Invariance, PTL DEF Spec, CancelCountsDown

(* The clean-up ends when the limit holds or when there is no recording left *)
(* that it has not tried, whatever could not be removed                      *)
(* (enforce_storage_limit).                                                  *)
THEOREM SweepPersists == Spec => SweepGoesOn
<1> DEFINE Ended ==
      (SweepEnds \/ SweepLog) /\ rp' = "idle" =>
          Total' <= Limit \/ log' \subseteq stuck' \union {recorded}
<1>1. IInv => Ended
  <2> SUFFICES ASSUME IInv, rp' = "idle" PROVE Ended
    OBVIOUS
  <2>1. ASSUME SweepEnds PROVE log' \subseteq stuck' \union {recorded}
    <3>1. /\ rp = "entry" /\ sweep \subseteq {recorded} /\ UNCHANGED <<log, stuck>>
      BY <2>1 DEF SweepEnds, disk
    <3>2. entry = None /\ None \notin log /\ log \subseteq sweep \union stuck \union {entry,
        recorded}
      BY <3>1, RecsAre DEF IInv, Types, RecType, DiskType, SweepInv, None
    <3> QED
      BY <3>1, <3>2
  <2>2. ASSUME SweepLog PROVE Total' <= Limit
    BY <2>2, SweepLogIs DEF IInv
  <2> QED
    BY <2>1, <2>2
<1> QED
    BY <1>1, Invariance, PTL DEF Spec, SweepGoesOn

=============================================================================
