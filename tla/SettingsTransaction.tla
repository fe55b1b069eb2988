------------------------ MODULE SettingsTransaction ------------------------
(* The settings transaction of obs_bootstrap.py: a plan for several OBS      *)
(* configuration files is committed through a journal with the phases        *)
(* preparing, committing and committed, rollback backups and durable         *)
(* temporaries, and is recovered by the next holder of the lock after a      *)
(* crash at any point.                                                       *)
(*                                                                           *)
(* The interprocess lock admits one process, so one is modelled; a crash     *)
(* drops the lock and leaves the disk.  A file is known by its contents:     *)
(* identities and digests tell apart no more than that here.  The files of a *)
(* plan are written in any order (the code has one).  A step is one durable  *)
(* change of the disk, with the validation directly before it.               *)
EXTENDS Naturals, FiniteSets

CONSTANTS
    Files,       \* the configuration files
    Contents,    \* what a file can hold
    Absent,      \* the file does not exist
    Partial,     \* a temporary that was not written to its end
    Gone,        \* there is no such temporary
    MaxWrites,   \* bound: writes by OBS or by others
    MaxFaults,   \* bound: exceptions of the file system
    MaxCrashes   \* bound: crashes

ASSUME ContentsAssumption ==
    Absent \in Contents /\ Partial \notin Contents /\ Gone \notin Contents /\ Gone # Partial
ASSUME BoundsAssumption ==
    MaxWrites \in Nat /\ MaxFaults \in Nat /\ MaxCrashes \in Nat

VARIABLES
    \* the disk
    disk,        \* the configuration files
    marker,      \* phase in the journal, "none" without one
    journal,     \* its entries: for each file the original and the desired contents
    jtemp,       \* a temporary of the journal was left behind
    backup,      \* the rollback backups
    desired,     \* the desired temporaries
    \* the process
    pc,          \* where it stands, "idle" without the lock
    cause,       \* why recovery runs: enter, finish, failure, conflict
    snapshot,    \* the contents the plan, or the recovery, was validated with
    todo,        \* files the present loop has still to treat
    plan,        \* the changed writes of the plan
    replanned,   \* the plan is the second one of this update
    postStop,    \* what was seen after the stop that made a second plan necessary
    \* the environment
    obs,         \* OBS is running
    writes, faults, crashes,
    \* history
    late         \* somebody wrote a file after the last look at it, and the journal is still there

diskVars == <<disk, marker, journal, jtemp, backup, desired>>
procVars == <<pc, cause, snapshot, todo, plan, replanned, postStop>>
envVars  == <<obs, writes, faults, crashes, late>>
vars == <<diskVars, procVars, envVars>>

NoEntries == <<>>
Entries(W, before, after) == [f \in W |-> [original |-> before[f], new |-> after[f]]]
Temporaries == Contents \union {Partial, Gone}
None == [f \in Files |-> Gone]
Unread == [f \in Files |-> Absent]
NoTemporaries == backup = None /\ desired = None

PCs == {"idle", "enter", "inspect", "stopForRecovery", "recover", "deleteMarker", "deleteTemp",
        "plan", "noop", "preparing", "temporaries", "stop", "committing", "replace", "committed",
        "failing"}

Init ==
    /\ disk \in [Files -> Contents] /\ marker = "none" /\ journal = NoEntries
    /\ jtemp = FALSE /\ backup = None /\ desired = None
    /\ pc = "idle" /\ cause = "enter" /\ snapshot = Unread /\ todo = {} /\ plan = NoEntries
    /\ replanned = FALSE /\ postStop = Unread
    /\ obs \in BOOLEAN /\ writes = 0 /\ faults = 0 /\ crashes = 0 /\ late = FALSE

Goto(from, to) == pc = from /\ pc' = to
Same == UNCHANGED <<cause, snapshot, todo, plan, replanned, postStop>>
Quiet == UNCHANGED envVars

(* The variables of a call that is over are gone: they get one fixed value.  *)
Drop == snapshot' = Unread /\ todo' = {} /\ plan' = NoEntries
Leave == /\ pc' = "idle" /\ cause' = "enter" /\ replanned' = FALSE /\ postStop' = Unread
         /\ Drop

(* An exception of the file system; what it leads to is up to the handler.   *)
Fault == faults < MaxFaults /\ faults' = faults + 1 /\ UNCHANGED <<obs, writes, crashes, late>>

-----------------------------------------------------------------------------
(* OBS and the disk.  OBS writes its settings while it runs and when it is   *)
(* closed.  The code stops OBS but cannot keep a user from starting it       *)
(* again at any point.                                                       *)

(* Nothing looks at the file again before the journal says committed, or the *)
(* one of a rollback is gone: the transaction cannot know of a write there.  *)
Unseen(f) == \/ pc = "committed"
             \/ /\ marker = "committing" /\ pc \in {"recover", "deleteMarker"}
                /\ f \in DOMAIN journal \ todo

Write == /\ writes < MaxWrites /\ writes' = writes + 1
         /\ \E f \in Files, c \in Contents \ {Absent} :
              disk' = [disk EXCEPT ![f] = c] /\ late' = (late \/ Unseen(f))

ObsWrites ==
    /\ obs /\ Write
    /\ UNCHANGED <<marker, journal, jtemp, backup, desired, procVars, obs, faults, crashes>>

ObsStarts ==
    /\ ~obs /\ obs' = TRUE
    /\ UNCHANGED <<diskVars, procVars, writes, faults, crashes, late>>

ObsExits ==
    /\ obs /\ obs' = FALSE
    /\ UNCHANGED <<diskVars, procVars, writes, faults, crashes, late>>

(* A stop of OBS, which may flush its settings a last time.                  *)
Stop(flush) ==
    /\ obs' = FALSE /\ UNCHANGED <<faults, crashes>>
    /\ IF flush THEN obs /\ Write /\ disk' # disk ELSE UNCHANGED <<disk, writes, late>>

(* The temporaries of a file: a backup of an existing original, then the     *)
(* desired contents.                                                         *)
NeedsBackup(f) == backup[f] = Gone /\ plan[f].original # Absent
PutTemporary(f, c) ==
    IF NeedsBackup(f) THEN backup' = [backup EXCEPT ![f] = c] /\ UNCHANGED desired
                      ELSE desired' = [desired EXCEPT ![f] = c] /\ UNCHANGED backup

(* The process is killed, or power is lost: a temporary being written stays  *)
(* partial.                                                                  *)
Crash ==
    /\ pc # "idle" /\ crashes < MaxCrashes /\ crashes' = crashes + 1
    /\ Leave
    /\ \/ UNCHANGED <<backup, desired>>
       \/ pc = "temporaries" /\ \E f \in todo : PutTemporary(f, Partial)
    /\ jtemp' \in IF pc \in {"preparing", "committing", "committed"} THEN {jtemp, TRUE} ELSE {jtemp}
    /\ UNCHANGED <<disk, marker, journal, obs, writes, faults, late>>

-----------------------------------------------------------------------------
(* The mutation guard, and recover_obs_settings_transaction.                 *)

BeginUpdate ==
    /\ Goto("idle", "enter")
    /\ UNCHANGED diskVars /\ Same /\ Quiet

(* Without a journal only one journal temporary may be left.                 *)
EnterClean ==
    /\ pc = "enter" /\ marker = "none" /\ NoTemporaries
    /\ pc' = "plan" /\ jtemp' = FALSE
    /\ UNCHANGED <<disk, marker, journal, backup, desired>> /\ Same /\ Quiet

EnterPending ==
    /\ pc = "enter" /\ marker # "none" /\ pc' = "inspect"
    /\ UNCHANGED diskVars /\ Same /\ Quiet

(* _preflight_settings_recovery_targets: can this file be recovered?         *)
Original(f) == disk[f] = journal[f].original
Desired(f) == disk[f] = journal[f].new
Recoverable(f) ==
    CASE marker = "preparing"  -> TRUE
      [] marker = "committed"  -> Desired(f)
      [] marker = "committing" ->
           \/ Original(f)
           \/ Desired(f) /\ (journal[f].original # Absent => backup[f] = journal[f].original)

(* A recovery that raises ends the update; the one that cleans up after a    *)
(* commit is tried once more by the handler of the transaction.              *)
Raise == /\ \/ cause # "finish" /\ Leave
            \/ /\ cause = "finish" /\ pc' = "failing" /\ cause' = "failure" /\ Drop
               /\ UNCHANGED <<replanned, postStop>>
         /\ UNCHANGED diskVars

(* Recovery is proved feasible before OBS is stopped; the handlers of the    *)
(* transaction do not stop it again.                                         *)
Inspect ==
    /\ pc = "inspect" /\ \A f \in DOMAIN journal : Recoverable(f)
    /\ pc' = IF marker = "preparing" \/ cause # "enter" THEN "recover" ELSE "stopForRecovery"
    /\ todo' = DOMAIN journal /\ snapshot' = IF pc' = "recover" THEN Unread ELSE disk
    /\ UNCHANGED <<diskVars, cause, plan, replanned, postStop>> /\ Quiet

InspectRefused ==
    /\ pc = "inspect" /\ \E f \in DOMAIN journal : ~Recoverable(f)
    /\ Raise /\ Quiet

(* before_recovery stops OBS, and the files are validated once more ...      *)
StopForRecovery ==
    /\ pc = "stopForRecovery"
    /\ \E flush \in BOOLEAN :
         /\ Stop(flush)
         /\ \/ /\ \A f \in DOMAIN journal : disk'[f] = snapshot[f]
               /\ pc' = "recover" /\ snapshot' = Unread
               /\ UNCHANGED <<cause, todo, plan, replanned, postStop>>
            \/ (\E f \in DOMAIN journal : disk'[f] # snapshot[f]) /\ Leave
    /\ UNCHANGED <<marker, journal, jtemp, backup, desired>>

(* ... or a caller without it only checks that OBS is gone.                  *)
RunningObsRefused ==
    /\ obs /\ pc = "stopForRecovery" /\ Leave
    /\ UNCHANGED diskVars /\ Quiet

(* Mutant: a file that was not there before is not rolled back.              *)
MustRollBackReplaced(f) == marker = "committing" /\ ~Original(f) /\ journal[f].original # Absent

(* _recover_settings_journal_locked, one file: the rollback ...              *)
MustRollBack(f) == marker = "committing" /\ ~Original(f)

(* Mutant: the backup goes before the file is rolled back.                   *)
RollBackLast(f) ==
    /\ pc = "recover" /\ f \in todo /\ MustRollBack(f) /\ Recoverable(f)
    /\ backup' = [backup EXCEPT ![f] = Gone]
    /\ disk' = IF backup[f] = Gone THEN [disk EXCEPT ![f] = journal[f].original] ELSE disk
    /\ UNCHANGED <<marker, journal, jtemp, desired, pc>> /\ Same /\ Quiet

RollBack(f) ==
    /\ pc = "recover" /\ f \in todo /\ MustRollBack(f) /\ Recoverable(f)
    /\ disk' = [disk EXCEPT ![f] = journal[f].original]
    /\ backup' = [backup EXCEPT ![f] = Gone]
    /\ UNCHANGED <<marker, journal, jtemp, desired, pc>> /\ Same /\ Quiet

(* ... and its temporaries, one deletion a step.                             *)
DeleteTemporary(f) ==
    /\ pc = "recover" /\ f \in todo /\ ~MustRollBack(f) /\ Recoverable(f)
    /\ IF backup[f] # Gone
       THEN backup' = [backup EXCEPT ![f] = Gone] /\ UNCHANGED <<desired, todo>>
       ELSE desired' = [desired EXCEPT ![f] = Gone] /\ todo' = todo \ {f} /\ UNCHANGED backup
    /\ UNCHANGED <<disk, marker, journal, jtemp, pc, cause, snapshot, plan, replanned,
                   postStop>> /\ Quiet

(* Mutant: the journal stays after the recovery.                             *)
RecoveredForgetting == /\ Goto("recover", "deleteTemp") /\ todo = {}
                       /\ UNCHANGED diskVars /\ Same /\ Quiet

Recovered == /\ Goto("recover", "deleteMarker") /\ todo = {}
             /\ UNCHANGED diskVars /\ Same /\ Quiet

(* The journal goes last but for its own interrupted update.                 *)
DeleteMarker ==
    /\ Goto("deleteMarker", "deleteTemp") /\ marker' = "none" /\ journal' = NoEntries
    /\ late' = FALSE
    /\ UNCHANGED <<disk, jtemp, backup, desired, obs, writes, faults, crashes>> /\ Same

(* A conflict with a flush of OBS leads to the one second plan.              *)
DeleteTemp ==
    /\ pc = "deleteTemp" /\ jtemp' = FALSE
    /\ \/ cause \in {"enter", "conflict"} /\ pc' = "plan" /\ replanned' = (cause = "conflict")
          /\ UNCHANGED <<cause, snapshot, todo, plan, postStop>>
       \/ cause \notin {"enter", "conflict"} /\ Leave
    /\ UNCHANGED <<disk, marker, journal, backup, desired>> /\ Quiet

(* A file was changed meanwhile, or any step raises: the next holder of the  *)
(* lock resumes.                                                             *)
RecoveryRaises ==
    \/ pc = "recover" /\ (\E f \in todo : ~Recoverable(f)) /\ Raise /\ Quiet
    \/ /\ pc \in {"enter", "inspect", "stopForRecovery", "recover", "deleteMarker", "deleteTemp"}
       /\ Fault /\ Raise

-----------------------------------------------------------------------------
(* execute_obs_config_transaction.                                           *)

(* prepare_plan reads every file; the changed ones are the transaction.  No  *)
(* plan removes a file.                                                      *)
MakePlan ==
    /\ pc = "plan" /\ snapshot' = disk
    /\ \E after \in [Files -> Contents] :
         LET W == {f \in Files : after[f] # disk[f]} IN
         /\ \A f \in W : after[f] # Absent
         /\ plan' = Entries(W, disk, after)
         /\ pc' = IF W = {} THEN "noop" ELSE "preparing"
    /\ UNCHANGED <<diskVars, cause, todo, replanned, postStop>> /\ Quiet

Unchanged == \A f \in Files : disk[f] = snapshot[f]

(* Only a flush of a running OBS into files that all exist is a conflict     *)
(* that a second plan may solve, and only once.                              *)
MayReplan == /\ ~replanned /\ obs
             /\ \A f \in Files : snapshot[f] # Absent

(* Nothing is to change; OBS is stopped all the same by the first plan.      *)
NothingToDo ==
    /\ pc = "noop" /\ UNCHANGED <<marker, journal, jtemp, backup, desired>>
    /\ \/ Leave /\ UNCHANGED disk /\ Quiet
       \/ Leave /\ ~replanned /\ Unchanged /\ \E flush \in BOOLEAN : Stop(flush)
       \/ /\ MayReplan /\ Unchanged /\ Stop(TRUE)
          /\ pc' = "plan" /\ replanned' = TRUE /\ postStop' = disk' /\ Drop /\ UNCHANGED cause

Fail(reason) == pc' = "failing" /\ cause' = reason /\ Drop /\ UNCHANGED replanned

WriteMarker(phase) == marker' = phase /\ journal' = plan

(* A write of the journal that raises: it may have taken effect, and its     *)
(* temporary may be left.                                                    *)
UncertainMarker(phase) ==
    /\ Fault /\ jtemp' \in {jtemp, TRUE}
    /\ WriteMarker(phase) \/ UNCHANGED <<marker, journal>>

(* The journal of phase preparing; its failure is not recovered here.        *)
BeginPreparing ==
    /\ pc = "preparing"
    /\ \/ /\ Unchanged /\ pc' = "temporaries" /\ todo' = DOMAIN plan /\ WriteMarker("preparing")
          /\ UNCHANGED <<jtemp, cause, snapshot, plan, replanned, postStop>> /\ Quiet
       \/ ~Unchanged /\ Leave /\ UNCHANGED <<marker, journal, jtemp>> /\ Quiet
       \/ Unchanged /\ UncertainMarker("preparing") /\ Leave
    /\ UNCHANGED <<disk, backup, desired>>

(* A temporary is written whole or, by a failure nobody reported, is not.    *)
WriteTemporary(f) ==
    /\ pc = "temporaries" /\ f \in todo
    /\ \/ PutTemporary(f, IF NeedsBackup(f) THEN plan[f].original ELSE plan[f].new) /\ Quiet
       \/ PutTemporary(f, Partial) /\ Fault
    /\ todo' = IF NeedsBackup(f) THEN todo ELSE todo \ {f}
    /\ UNCHANGED <<disk, marker, journal, jtemp, pc, cause, snapshot, plan, replanned, postStop>>

TemporaryRaises ==
    /\ pc = "temporaries" /\ Fault /\ Fail("failure")
    /\ \E f \in todo : PutTemporary(f, Partial)
    /\ UNCHANGED <<disk, marker, journal, jtemp, postStop>>

(* Mutant: the backups are not read back.                                    *)
NewPrepared == \A f \in DOMAIN plan : desired[f] = plan[f].new

(* Every temporary is read back before a healthy OBS is stopped.             *)
WellPrepared == \A f \in DOMAIN plan : /\ desired[f] = plan[f].new
                                       /\ plan[f].original # Absent => backup[f] = plan[f].original

Verify ==
    /\ pc = "temporaries" /\ todo = {}
    /\ IF WellPrepared /\ Unchanged THEN pc' = "stop" /\ Same
                                    ELSE Fail("failure") /\ UNCHANGED postStop
    /\ UNCHANGED diskVars /\ Quiet

(* before_commit of the first plan: a flush of OBS ends in a second plan or  *)
(* in failure, for reasons (its paths, its security) not told apart here.    *)
StopObs ==
    /\ pc = "stop" /\ ~replanned /\ Unchanged
    /\ \/ Stop(FALSE) /\ pc' = "committing" /\ Same
       \/ Stop(TRUE) /\ Fail("failure") /\ UNCHANGED postStop
       \/ MayReplan /\ Stop(TRUE) /\ Fail("conflict") /\ postStop' = disk'
    /\ UNCHANGED <<marker, journal, jtemp, backup, desired>>

(* before_commit of the second plan asks only that OBS is gone and that      *)
(* everything is as it was seen after the stop.                              *)
AsAfterStop == snapshot = postStop
ConfirmStopped ==
    /\ pc = "stop" /\ replanned /\ ~obs /\ Unchanged /\ AsAfterStop
    /\ pc' = "committing"
    /\ UNCHANGED diskVars /\ Same /\ Quiet

StopRefused ==
    /\ pc = "stop" /\ Fail("failure")
    /\ \/ (~Unchanged \/ (replanned /\ (obs \/ ~AsAfterStop))) /\ Quiet
       \/ Fault
    /\ UNCHANGED <<diskVars, postStop>>

(* The journal of phase committing.                                          *)
BeginCommitting ==
    /\ pc = "committing"
    /\ \/ /\ Unchanged /\ WriteMarker("committing") /\ pc' = "replace" /\ todo' = DOMAIN plan
          /\ UNCHANGED <<jtemp, cause, snapshot, plan, replanned>> /\ Quiet
       \/ ~Unchanged /\ Fail("failure") /\ UNCHANGED <<marker, journal, jtemp>> /\ Quiet
       \/ Unchanged /\ UncertainMarker("committing") /\ Fail("failure")
    /\ UNCHANGED <<disk, backup, desired, postStop>>

(* Mutant: the target is not compared again.                                 *)
ReplaceableUnread(f) == desired[f] = plan[f].new

(* _replace_settings_temporary: the target must still be what it was.        *)
Replaceable(f) == disk[f] = snapshot[f] /\ desired[f] = plan[f].new
PutDesired(f) == /\ disk' = [disk EXCEPT ![f] = plan[f].new]
                 /\ desired' = [desired EXCEPT ![f] = Gone]

Replace(f) ==
    /\ pc = "replace" /\ f \in todo /\ Replaceable(f) /\ PutDesired(f)
    /\ todo' = todo \ {f}
    /\ UNCHANGED <<marker, journal, jtemp, backup, pc, cause, snapshot, plan, replanned,
                   postStop>> /\ Quiet

ReplaceRaises ==
    /\ pc = "replace" /\ Fail("failure")
    /\ \/ Fault /\ (\E f \in todo : Replaceable(f) /\ PutDesired(f))
       \/ Fault /\ UNCHANGED <<disk, desired>>
       \/ /\ (todo = DOMAIN plan /\ ~Unchanged) \/ \E f \in todo : ~Replaceable(f)
          /\ UNCHANGED <<disk, desired>> /\ Quiet
    /\ UNCHANGED <<marker, journal, jtemp, backup, postStop>>

(* _validate_desired_settings_targets.                                       *)
AllDesired == \A f \in Files : disk[f] = IF f \in DOMAIN plan THEN plan[f].new ELSE snapshot[f]

ValidateTargets ==
    /\ pc = "replace" /\ todo = {}
    /\ IF AllDesired THEN pc' = "committed" /\ Same ELSE Fail("failure") /\ UNCHANGED postStop
    /\ UNCHANGED diskVars /\ Quiet

(* The journal of phase committed; when its durability is unknown nothing is *)
(* cleaned up here.                                                          *)
Committed ==
    /\ pc = "committed"
    /\ \/ /\ WriteMarker("committed") /\ pc' = "inspect" /\ cause' = "finish" /\ Drop
          /\ UNCHANGED <<jtemp, replanned, postStop>> /\ Quiet
       \/ UncertainMarker("committed") /\ Leave
    /\ UNCHANGED <<disk, backup, desired>>

(* The handlers of the transaction recover at once, OBS being stopped or     *)
(* nothing being replaced yet.                                               *)
HandleFailure ==
    /\ pc = "failing" /\ pc' = IF marker = "none" THEN "deleteTemp" ELSE "inspect"
    /\ UNCHANGED diskVars /\ Same /\ Quiet

-----------------------------------------------------------------------------
Recover == EnterClean \/ EnterPending \/ Inspect \/ InspectRefused \/ StopForRecovery
             \/ Recovered \/ DeleteMarker \/ DeleteTemp
             \/ \E f \in Files : RollBack(f) \/ DeleteTemporary(f)

Transact == MakePlan \/ NothingToDo \/ BeginPreparing \/ Verify \/ StopObs \/ ConfirmStopped
              \/ StopRefused \/ BeginCommitting \/ ValidateTargets \/ Committed \/ HandleFailure
              \/ \E f \in Files : WriteTemporary(f) \/ Replace(f)

Exceptions == RecoveryRaises \/ RunningObsRefused \/ TemporaryRaises \/ ReplaceRaises

Next == Recover \/ Transact \/ Exceptions \/ BeginUpdate \/ Crash
          \/ ObsWrites \/ ObsStarts \/ ObsExits

Spec == Init /\ [][Next]_vars

(* The process runs on, the application is used again, and some of its       *)
(* launches stop OBS for the recovery (the start-up bootstrap does).         *)
Fairness == /\ WF_vars(Recover) /\ WF_vars(Transact \/ ReplaceRaises) /\ WF_vars(BeginUpdate)
            /\ SF_vars(StopForRecovery)
FairSpec == Spec /\ Fairness

-----------------------------------------------------------------------------
(* The disk, the journal and the process hold what they are meant to hold; a *)
(* plan changes every file it names.                                         *)
EntryType == [original : Contents, new : Contents \ {Absent}]
IsPlan(p) == /\ DOMAIN p \subseteq Files
             /\ \A f \in DOMAIN p : p[f] \in EntryType /\ p[f].new # p[f].original

BoolType == jtemp \in BOOLEAN /\ replanned \in BOOLEAN /\ obs \in BOOLEAN /\ late \in BOOLEAN

DataType ==
    /\ disk \in [Files -> Contents] /\ snapshot \in [Files -> Contents]
    /\ postStop \in [Files -> Contents]
    /\ backup \in [Files -> Temporaries] /\ desired \in [Files -> Temporaries]
    /\ marker \in {"none", "preparing", "committing", "committed"}
    /\ IsPlan(journal) /\ IsPlan(plan)
    /\ pc \in PCs /\ cause \in {"enter", "finish", "failure", "conflict"}
    /\ todo \subseteq Files
    /\ writes \in 0..MaxWrites /\ faults \in 0..MaxFaults /\ crashes \in 0..MaxCrashes

(* Every variable has its type; the two halves are proved apart.             *)
TypeOK == BoolType /\ DataType

(* Without a journal no backup and no desired temporary is left, or every    *)
(* later update would be refused for them                                    *)
(* (_recover_orphaned_settings_journal_temporary).                           *)
NoOrphans == marker = "none" => NoTemporaries

(* Whatever crashed or raised, and however often, a pending journal can be   *)
(* recovered as long as nobody but the transaction wrote a file              *)
(* (_preflight_settings_recovery_targets never refuses).                     *)
Recoverability == marker # "none" /\ writes = 0 => \A f \in DOMAIN journal : Recoverable(f)

(* Only a transaction whose backups and desired contents are all durable and *)
(* exact gets as far as the stop of a healthy OBS                            *)
(* (the read-back before before_commit).                                     *)
StopOnlyPrepared ==
    pc \in {"stop", "committing"} =>
        /\ marker = "preparing"
        /\ \A f \in DOMAIN journal :
              /\ desired[f] = journal[f].new
              /\ journal[f].original # Absent => backup[f] = journal[f].original

(* What somebody else wrote is never overwritten: the transaction replaces   *)
(* the original it read or, back again, what it put there itself.            *)
ForeignContentsKept ==
    [][\A f \in Files : disk'[f] # disk[f] /\ writes' = writes
         => /\ f \in DOMAIN journal
            /\ disk[f] \in {journal[f].original, journal[f].new}
            /\ disk'[f] \in {journal[f].original, journal[f].new}]_vars

(* The files change together or not at all, through every crash, and never   *)
(* over a change the plan did not see: a half committed update counts as not *)
(* made, since it is rolled back.  The only change it may not see is a late  *)
(* one, by an OBS started by hand after its stop.                            *)
Logical == [f \in Files |->
    IF marker = "committing" /\ f \in DOMAIN journal /\ Desired(f) THEN journal[f].original
                                                                   ELSE disk[f]]
InProgress == pc \in {"preparing", "temporaries", "stop", "committing", "replace", "committed"}
Atomic == INSTANCE AtomicSettings WITH
    value <- Logical,
    plan  <- IF InProgress THEN [base |-> snapshot, new |-> [f \in DOMAIN plan |-> plan[f].new]]
                           ELSE NoEntries
ImplementsAtomic == Atomic!Spec

(* A pending journal is resolved in the end, or somebody else wrote to the   *)
(* files.                                                                    *)
PendingResolved == marker # "none" ~> (marker = "none" \/ writes > 0)

(* What a recovery has still to do: its way to the end, and in the files the *)
(* rollbacks and the temporaries to delete.                                  *)
Recovering == {"enter", "inspect", "stopForRecovery", "recover", "deleteMarker", "deleteTemp"}
StepsLeft == CASE pc = "enter" -> 6 [] pc = "inspect" -> 5 [] pc = "stopForRecovery" -> 4
               [] pc = "recover" -> 3 [] pc = "deleteMarker" -> 2 [] pc = "deleteTemp" -> 1
               [] OTHER -> 0
FilesLeft == ({"rollback"} \X {f \in todo : MustRollBack(f)})
               \union ({"backup"} \X {f \in todo : backup[f] # Gone})
               \union ({"desired"} \X todo)
Nearer == \/ StepsLeft' < StepsLeft
          \/ StepsLeft' = StepsLeft /\ FilesLeft' \subseteq FilesLeft /\ FilesLeft' # FilesLeft

(* As long as nobody else wrote a file, a recovery that is neither killed    *)
(* nor failed by the file system only goes forward, and ends only when no    *)
(* journal is left, however far the interrupted update and the recoveries    *)
(* before it had come.  A running OBS that the caller does not stop is the   *)
(* one thing that puts it off.                                               *)
RecoveryGoesForward ==
    [][writes' = 0 /\ pc \in Recovering /\ UNCHANGED <<faults, crashes>> =>
          \/ Nearer /\ (pc' \in Recovering \/ marker' = "none")
          \/ RunningObsRefused
          \/ UNCHANGED <<diskVars, procVars>>]_vars

=============================================================================
