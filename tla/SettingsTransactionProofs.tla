--------------------- MODULE SettingsTransactionProofs ----------------------
(* Proofs about SettingsTransaction for every set of files and contents and  *)
(* all bounds, whenever somebody starts OBS.                                 *)
EXTENDS SettingsTransaction, TLAPS

(* The inductive invariant, in named parts.                                  *)

Planning  == {"plan", "noop", "preparing"}
Preparing == {"temporaries", "stop", "committing"}
Replacing == {"replace", "committed"}
Pending   == {"inspect", "stopForRecovery", "recover", "deleteMarker"}

(* Which journal is on the disk at each point of the process.                *)
JournalInv ==
    /\ marker = "none" => NoTemporaries /\ journal = NoEntries
    /\ pc \in Planning \union {"deleteTemp"} => marker = "none"
    /\ pc \in Preparing => marker = "preparing" /\ journal = plan
    /\ pc \in Replacing => marker = "committing" /\ journal = plan
    /\ pc \in Pending => marker # "none"

(* The temporaries belong to the files of the journal; the recovery has      *)
(* deleted those of the files it is done with.                               *)
TemporariesInv ==
    /\ \A f \in Files \ DOMAIN journal : backup[f] = Gone /\ desired[f] = Gone
    /\ \A f \in DOMAIN journal : journal[f].original = Absent => backup[f] = Gone
    /\ pc \in {"temporaries", "replace", "recover"} => todo \subseteq DOMAIN journal
    /\ pc = "stopForRecovery" => todo = DOMAIN journal
    /\ pc = "recover" => \A f \in DOMAIN journal \ todo : backup[f] = Gone /\ desired[f] = Gone
    /\ pc = "deleteMarker" => NoTemporaries

(* The backups are whole from the verification on.                           *)
BackedUp == \A f \in DOMAIN journal :
               journal[f].original # Absent => backup[f] = journal[f].original
BackupInv ==
    /\ pc \in {"stop", "committing"} \union Replacing => BackedUp
    /\ pc \in {"stop", "committing"} => \A f \in DOMAIN journal : desired[f] = journal[f].new

(* The plan was made from the snapshot, which the files still agree with as  *)
(* long as nobody wrote them and nothing is replaced.                        *)
SnapshotInv ==
    /\ pc \in {"preparing"} \union Preparing \union Replacing =>
         \A f \in DOMAIN plan : plan[f].original = snapshot[f]
    /\ pc \in {"preparing"} \union Preparing /\ writes = 0 =>
         \A f \in Files : disk[f] = snapshot[f]
    /\ pc = "committed" /\ writes = 0 => \A f \in DOMAIN journal : Desired(f)

IInv == TypeOK /\ JournalInv /\ TemporariesInv /\ BackupInv /\ SnapshotInv /\ Recoverability

-----------------------------------------------------------------------------
(* The types, in parts that are proved apart.                                *)
FileType ==
    /\ disk \in [Files -> Contents] /\ snapshot \in [Files -> Contents]
    /\ postStop \in [Files -> Contents]
TemporaryType == backup \in [Files -> Temporaries] /\ desired \in [Files -> Temporaries]
PlanType == IsPlan(journal) /\ IsPlan(plan)
ControlType ==
    /\ marker \in {"none", "preparing", "committing", "committed"}
    /\ pc \in PCs /\ cause \in {"enter", "finish", "failure", "conflict"}
    /\ todo \subseteq Files
CountType == writes \in 0..MaxWrites /\ faults \in 0..MaxFaults /\ crashes \in 0..MaxCrashes

(* The type of the data is the conjunction of its parts.                     *)
LEMMA DataParts == DataType <=> (FileType /\ TemporaryType /\ PlanType /\ ControlType /\ CountType)
BY DEF DataType, FileType, TemporaryType, PlanType, ControlType, CountType

(* The same of the next state.                                               *)
LEMMA DataPartsPrimed ==
    DataType' <=> (FileType' /\ TemporaryType' /\ PlanType' /\ ControlType' /\ CountType')
BY DEF DataType, FileType, TemporaryType, PlanType, ControlType, CountType

(* The empty plan is a plan, and has no file.                                *)
LEMMA EmptyPlan == IsPlan(NoEntries) /\ DOMAIN NoEntries = {}
BY DEF IsPlan, NoEntries

(* What a plan says of one of its files.                                     *)
LEMMA PlanEntry ==
    ASSUME NEW p, IsPlan(p), NEW f \in DOMAIN p
    PROVE  /\ f \in Files /\ p[f].original \in Contents
           /\ p[f].new \in Contents \ {Absent} /\ p[f].new # p[f].original
BY DEF IsPlan, EntryType

(* A plan names configuration files only.                                    *)
LEMMA PlanDomain == ASSUME NEW p, IsPlan(p) PROVE DOMAIN p \subseteq Files
BY DEF IsPlan

(* The step property ForeignContentsKept, and what its proof needs of types. *)
Kept == \A f \in Files : disk'[f] # disk[f] /\ writes' = writes
          => /\ f \in DOMAIN journal
             /\ disk[f] \in {journal[f].original, journal[f].new}
             /\ disk'[f] \in {journal[f].original, journal[f].new}

(* The types that the step property needs.                                   *)
LEMMA FileFacts ==
    ASSUME DataType
    PROVE  disk \in [Files -> Contents] /\ writes \in Nat
BY BoundsAssumption DEF DataType


(* The flags stay Boolean.                                                   *)
LEMMA BoolStep ==
    ASSUME BoolType, [Next]_vars
    PROVE  BoolType'
<1> USE DEF diskVars, procVars, envVars, vars, Same, Quiet, Leave, Drop,
            Unread, BoolType
<1>1. ASSUME EnterClean PROVE BoolType'
    BY <1>1 DEF EnterClean
<1>2. ASSUME EnterPending PROVE BoolType'
    BY <1>2 DEF EnterPending
<1>3. ASSUME Inspect PROVE BoolType'
    BY <1>3 DEF Inspect
<1>4. ASSUME InspectRefused PROVE BoolType'
    BY <1>4 DEF InspectRefused, Raise
<1>5. ASSUME StopForRecovery PROVE BoolType'
    BY <1>5 DEF StopForRecovery, Stop, Write
<1>6. ASSUME Recovered PROVE BoolType'
    BY <1>6 DEF Recovered, Goto
<1>7. ASSUME DeleteMarker PROVE BoolType'
    BY <1>7 DEF DeleteMarker, Goto
<1>8. ASSUME DeleteTemp PROVE BoolType'
    BY <1>8 DEF DeleteTemp
<1>9. ASSUME NEW f \in Files, RollBack(f) PROVE BoolType'
    BY <1>9 DEF RollBack, MustRollBack
<1>10. ASSUME NEW f \in Files, DeleteTemporary(f) PROVE BoolType'
    BY <1>10 DEF DeleteTemporary, MustRollBack
<1>11. ASSUME MakePlan PROVE BoolType'
    BY <1>11 DEF MakePlan, Entries
<1>12. ASSUME NothingToDo PROVE BoolType'
    BY <1>12 DEF NothingToDo, Unchanged, MayReplan, Stop, Write
<1>13. ASSUME BeginPreparing PROVE BoolType'
    BY <1>13 DEF BeginPreparing, Unchanged, WriteMarker, UncertainMarker, Fault
<1>14. ASSUME Verify PROVE BoolType'
    BY <1>14 DEF Verify, WellPrepared, Unchanged, Fail
<1>15. ASSUME StopObs PROVE BoolType'
    BY <1>15 DEF StopObs, Unchanged, MayReplan, Stop, Write, Fail
<1>16. ASSUME ConfirmStopped PROVE BoolType'
    BY <1>16 DEF ConfirmStopped, Unchanged, AsAfterStop
<1>17. ASSUME StopRefused PROVE BoolType'
    BY <1>17 DEF StopRefused, Fail, Unchanged, AsAfterStop, Fault
<1>18. ASSUME BeginCommitting PROVE BoolType'
    BY <1>18
    DEF BeginCommitting, Unchanged, WriteMarker, UncertainMarker, Fault, Fail
<1>19. ASSUME ValidateTargets PROVE BoolType'
    BY <1>19 DEF ValidateTargets, AllDesired, Fail
<1>20. ASSUME Committed PROVE BoolType'
    BY <1>20 DEF Committed, WriteMarker, UncertainMarker, Fault
<1>21. ASSUME HandleFailure PROVE BoolType'
    BY <1>21 DEF HandleFailure
<1>22. ASSUME NEW f \in Files, WriteTemporary(f) PROVE BoolType'
    BY <1>22 DEF WriteTemporary, PutTemporary, NeedsBackup, Fault
<1>23. ASSUME NEW f \in Files, Replace(f) PROVE BoolType'
    BY <1>23 DEF Replace, Replaceable, PutDesired
<1>24. ASSUME RecoveryRaises PROVE BoolType'
    BY <1>24 DEF RecoveryRaises, Raise, Fault
<1>25. ASSUME RunningObsRefused PROVE BoolType'
    BY <1>25 DEF RunningObsRefused
<1>26. ASSUME TemporaryRaises PROVE BoolType'
    BY <1>26 DEF TemporaryRaises, Fault, Fail, PutTemporary, NeedsBackup
<1>27. ASSUME ReplaceRaises PROVE BoolType'
    BY <1>27 DEF ReplaceRaises, Fault, Fail, Replaceable, PutDesired, Unchanged
<1>28. ASSUME BeginUpdate PROVE BoolType'
    BY <1>28 DEF BeginUpdate, Goto
<1>29. ASSUME Crash PROVE BoolType'
    BY <1>29 DEF Crash, PutTemporary, NeedsBackup
<1>30. ASSUME ObsWrites PROVE BoolType'
    BY <1>30 DEF ObsWrites, Write
<1>31. ASSUME ObsStarts PROVE BoolType'
    BY <1>31 DEF ObsStarts
<1>32. ASSUME ObsExits PROVE BoolType'
    BY <1>32 DEF ObsExits
<1>33. ASSUME UNCHANGED vars PROVE BoolType'
    BY <1>33
<1> QED
    BY <1>1, <1>2, <1>3, <1>4, <1>5, <1>6, <1>7, <1>8, <1>9, <1>10, <1>11,
       <1>12, <1>13, <1>14, <1>15, <1>16, <1>17, <1>18, <1>19, <1>20, <1>21,
       <1>22, <1>23, <1>24, <1>25, <1>26, <1>27, <1>28, <1>29, <1>30, <1>31,
       <1>32, <1>33
    DEF Next, Recover, Transact, Exceptions

(* The files and what was read of them keep their type.                      *)
LEMMA FileStep ==
    ASSUME FileType, PlanType, JournalInv, TemporariesInv, [Next]_vars
    PROVE  FileType'
<1> USE DEF diskVars, procVars, envVars, vars, Same, Quiet, Leave, Drop,
            Unread, FileType
<1>1. ASSUME EnterClean PROVE FileType'
    BY <1>1, ContentsAssumption, PlanEntry DEF EnterClean
<1>2. ASSUME EnterPending PROVE FileType'
    BY <1>2, ContentsAssumption, PlanEntry DEF EnterPending
<1>3. ASSUME Inspect PROVE FileType'
    BY <1>3, ContentsAssumption, PlanEntry DEF Inspect
<1>4. ASSUME InspectRefused PROVE FileType'
    BY <1>4, ContentsAssumption, PlanEntry DEF InspectRefused, Raise
<1>5. ASSUME StopForRecovery PROVE FileType'
    BY <1>5, ContentsAssumption, PlanEntry DEF StopForRecovery, Stop, Write
<1>6. ASSUME Recovered PROVE FileType'
    BY <1>6, ContentsAssumption, PlanEntry DEF Recovered, Goto
<1>7. ASSUME DeleteMarker PROVE FileType'
    BY <1>7, ContentsAssumption, PlanEntry DEF DeleteMarker, Goto
<1>8. ASSUME DeleteTemp PROVE FileType'
    BY <1>8, ContentsAssumption, PlanEntry DEF DeleteTemp
<1>9. ASSUME NEW f \in Files, RollBack(f) PROVE FileType'
    <2>1. f \in DOMAIN journal
        BY <1>9 DEF RollBack, TemporariesInv
    <2>2. journal[f].original \in Contents
        BY <2>1, PlanEntry DEF PlanType
    <2> QED
        BY <1>9, <2>2 DEF RollBack
<1>10. ASSUME NEW f \in Files, DeleteTemporary(f) PROVE FileType'
    BY <1>10, ContentsAssumption, PlanEntry DEF DeleteTemporary, MustRollBack
<1>11. ASSUME MakePlan PROVE FileType'
    BY <1>11, ContentsAssumption, PlanEntry DEF MakePlan, Entries
<1>12. ASSUME NothingToDo PROVE FileType'
    BY <1>12, ContentsAssumption, PlanEntry
    DEF NothingToDo, Unchanged, MayReplan, Stop, Write
<1>13. ASSUME BeginPreparing PROVE FileType'
    BY <1>13, ContentsAssumption, PlanEntry
    DEF BeginPreparing, Unchanged, WriteMarker, UncertainMarker, Fault
<1>14. ASSUME Verify PROVE FileType'
    BY <1>14, ContentsAssumption, PlanEntry
    DEF Verify, WellPrepared, Unchanged, Fail
<1>15. ASSUME StopObs PROVE FileType'
    BY <1>15, ContentsAssumption, PlanEntry
    DEF StopObs, Unchanged, MayReplan, Stop, Write, Fail
<1>16. ASSUME ConfirmStopped PROVE FileType'
    BY <1>16, ContentsAssumption, PlanEntry
    DEF ConfirmStopped, Unchanged, AsAfterStop
<1>17. ASSUME StopRefused PROVE FileType'
    BY <1>17, ContentsAssumption, PlanEntry
    DEF StopRefused, Fail, Unchanged, AsAfterStop, Fault
<1>18. ASSUME BeginCommitting PROVE FileType'
    BY <1>18, ContentsAssumption, PlanEntry
    DEF BeginCommitting, Unchanged, WriteMarker, UncertainMarker, Fault, Fail
<1>19. ASSUME ValidateTargets PROVE FileType'
    BY <1>19, ContentsAssumption, PlanEntry
    DEF ValidateTargets, AllDesired, Fail
<1>20. ASSUME Committed PROVE FileType'
    BY <1>20, ContentsAssumption, PlanEntry
    DEF Committed, WriteMarker, UncertainMarker, Fault
<1>21. ASSUME HandleFailure PROVE FileType'
    BY <1>21, ContentsAssumption, PlanEntry DEF HandleFailure
<1>22. ASSUME NEW f \in Files, WriteTemporary(f) PROVE FileType'
    BY <1>22, ContentsAssumption, PlanEntry
    DEF WriteTemporary, PutTemporary, NeedsBackup, Fault
<1>23. ASSUME NEW f \in Files, Replace(f) PROVE FileType'
    <2>1. f \in DOMAIN plan
        BY <1>23 DEF Replace, TemporariesInv, JournalInv, Replacing
    <2>2. plan[f].new \in Contents
        BY <2>1, PlanEntry DEF PlanType
    <2> QED
        BY <1>23, <2>2 DEF Replace, PutDesired
<1>24. ASSUME RecoveryRaises PROVE FileType'
    BY <1>24, ContentsAssumption, PlanEntry DEF RecoveryRaises, Raise, Fault
<1>25. ASSUME RunningObsRefused PROVE FileType'
    BY <1>25, ContentsAssumption, PlanEntry DEF RunningObsRefused
<1>26. ASSUME TemporaryRaises PROVE FileType'
    BY <1>26, ContentsAssumption, PlanEntry
    DEF TemporaryRaises, Fault, Fail, PutTemporary, NeedsBackup
<1>27. ASSUME ReplaceRaises PROVE FileType'
    <2>1. \A f \in todo : f \in DOMAIN plan
        BY <1>27 DEF ReplaceRaises, TemporariesInv, JournalInv, Replacing
    <2>2. \A f \in todo : plan[f].new \in Contents
        BY <2>1, PlanEntry DEF PlanType
    <2> QED
        BY <1>27, <2>2, ContentsAssumption
        DEF ReplaceRaises, Fault, Fail, PutDesired
<1>28. ASSUME BeginUpdate PROVE FileType'
    BY <1>28, ContentsAssumption, PlanEntry DEF BeginUpdate, Goto
<1>29. ASSUME Crash PROVE FileType'
    BY <1>29, ContentsAssumption, PlanEntry
    DEF Crash, PutTemporary, NeedsBackup
<1>30. ASSUME ObsWrites PROVE FileType'
    BY <1>30, ContentsAssumption, PlanEntry DEF ObsWrites, Write
<1>31. ASSUME ObsStarts PROVE FileType'
    BY <1>31, ContentsAssumption, PlanEntry DEF ObsStarts
<1>32. ASSUME ObsExits PROVE FileType'
    BY <1>32, ContentsAssumption, PlanEntry DEF ObsExits
<1>33. ASSUME UNCHANGED vars PROVE FileType'
    BY <1>33, ContentsAssumption, PlanEntry
<1> QED
    BY <1>1, <1>2, <1>3, <1>4, <1>5, <1>6, <1>7, <1>8, <1>9, <1>10, <1>11,
       <1>12, <1>13, <1>14, <1>15, <1>16, <1>17, <1>18, <1>19, <1>20, <1>21,
       <1>22, <1>23, <1>24, <1>25, <1>26, <1>27, <1>28, <1>29, <1>30, <1>31,
       <1>32, <1>33
    DEF Next, Recover, Transact, Exceptions

(* So do the temporaries ...                                                 *)
LEMMA TempStep ==
    ASSUME FileType, TemporaryType, PlanType, JournalInv, TemporariesInv,
           [Next]_vars
    PROVE  TemporaryType'
<1> USE DEF diskVars, procVars, envVars, vars, Same, Quiet, Leave, Drop,
            Unread, TemporaryType, Temporaries
<1>1. ASSUME EnterClean PROVE TemporaryType'
    BY <1>1, ContentsAssumption, PlanEntry DEF EnterClean
<1>2. ASSUME EnterPending PROVE TemporaryType'
    BY <1>2, ContentsAssumption, PlanEntry DEF EnterPending
<1>3. ASSUME Inspect PROVE TemporaryType'
    BY <1>3, ContentsAssumption, PlanEntry DEF Inspect
<1>4. ASSUME InspectRefused PROVE TemporaryType'
    BY <1>4, ContentsAssumption, PlanEntry DEF InspectRefused, Raise
<1>5. ASSUME StopForRecovery PROVE TemporaryType'
    BY <1>5, ContentsAssumption, PlanEntry DEF StopForRecovery, Stop, Write
<1>6. ASSUME Recovered PROVE TemporaryType'
    BY <1>6, ContentsAssumption, PlanEntry DEF Recovered, Goto
<1>7. ASSUME DeleteMarker PROVE TemporaryType'
    BY <1>7, ContentsAssumption, PlanEntry DEF DeleteMarker, Goto
<1>8. ASSUME DeleteTemp PROVE TemporaryType'
    BY <1>8, ContentsAssumption, PlanEntry DEF DeleteTemp
<1>9. ASSUME NEW f \in Files, RollBack(f) PROVE TemporaryType'
    BY <1>9, ContentsAssumption, PlanEntry DEF RollBack, MustRollBack
<1>10. ASSUME NEW f \in Files, DeleteTemporary(f) PROVE TemporaryType'
    BY <1>10, ContentsAssumption, PlanEntry DEF DeleteTemporary, MustRollBack
<1>11. ASSUME MakePlan PROVE TemporaryType'
    BY <1>11, ContentsAssumption, PlanEntry DEF MakePlan, Entries
<1>12. ASSUME NothingToDo PROVE TemporaryType'
    BY <1>12, ContentsAssumption, PlanEntry
    DEF NothingToDo, Unchanged, MayReplan, Stop, Write
<1>13. ASSUME BeginPreparing PROVE TemporaryType'
    BY <1>13, ContentsAssumption, PlanEntry
    DEF BeginPreparing, Unchanged, WriteMarker, UncertainMarker, Fault
<1>14. ASSUME Verify PROVE TemporaryType'
    BY <1>14, ContentsAssumption, PlanEntry
    DEF Verify, WellPrepared, Unchanged, Fail
<1>15. ASSUME StopObs PROVE TemporaryType'
    BY <1>15, ContentsAssumption, PlanEntry
    DEF StopObs, Unchanged, MayReplan, Stop, Write, Fail
<1>16. ASSUME ConfirmStopped PROVE TemporaryType'
    BY <1>16, ContentsAssumption, PlanEntry
    DEF ConfirmStopped, Unchanged, AsAfterStop
<1>17. ASSUME StopRefused PROVE TemporaryType'
    BY <1>17, ContentsAssumption, PlanEntry
    DEF StopRefused, Fail, Unchanged, AsAfterStop, Fault
<1>18. ASSUME BeginCommitting PROVE TemporaryType'
    BY <1>18, ContentsAssumption, PlanEntry
    DEF BeginCommitting, Unchanged, WriteMarker, UncertainMarker, Fault, Fail
<1>19. ASSUME ValidateTargets PROVE TemporaryType'
    BY <1>19, ContentsAssumption, PlanEntry
    DEF ValidateTargets, AllDesired, Fail
<1>20. ASSUME Committed PROVE TemporaryType'
    BY <1>20, ContentsAssumption, PlanEntry
    DEF Committed, WriteMarker, UncertainMarker, Fault
<1>21. ASSUME HandleFailure PROVE TemporaryType'
    BY <1>21, ContentsAssumption, PlanEntry DEF HandleFailure
<1>22. ASSUME NEW f \in Files, WriteTemporary(f) PROVE TemporaryType'
    <2>1. f \in DOMAIN plan
        BY <1>22 DEF WriteTemporary, JournalInv, TemporariesInv, Preparing
    <2>2. plan[f].original \in Contents /\ plan[f].new \in Contents
        BY <2>1, PlanEntry DEF PlanType
    <2>3. \E c \in Contents \union {Partial} : PutTemporary(f, c)
        BY <1>22, <2>2 DEF WriteTemporary
    <2> QED
        BY <2>3 DEF PutTemporary
<1>23. ASSUME NEW f \in Files, Replace(f) PROVE TemporaryType'
    BY <1>23, ContentsAssumption, PlanEntry
    DEF Replace, Replaceable, PutDesired
<1>24. ASSUME RecoveryRaises PROVE TemporaryType'
    BY <1>24, ContentsAssumption, PlanEntry DEF RecoveryRaises, Raise, Fault
<1>25. ASSUME RunningObsRefused PROVE TemporaryType'
    BY <1>25, ContentsAssumption, PlanEntry DEF RunningObsRefused
<1>26. ASSUME TemporaryRaises PROVE TemporaryType'
    BY <1>26, ContentsAssumption, PlanEntry
    DEF TemporaryRaises, Fault, Fail, PutTemporary, NeedsBackup
<1>27. ASSUME ReplaceRaises PROVE TemporaryType'
    BY <1>27, ContentsAssumption, PlanEntry
    DEF ReplaceRaises, Fault, Fail, Replaceable, PutDesired, Unchanged
<1>28. ASSUME BeginUpdate PROVE TemporaryType'
    BY <1>28, ContentsAssumption, PlanEntry DEF BeginUpdate, Goto
<1>29. ASSUME Crash PROVE TemporaryType'
    BY <1>29, ContentsAssumption, PlanEntry
    DEF Crash, PutTemporary, NeedsBackup
<1>30. ASSUME ObsWrites PROVE TemporaryType'
    BY <1>30, ContentsAssumption, PlanEntry DEF ObsWrites, Write
<1>31. ASSUME ObsStarts PROVE TemporaryType'
    BY <1>31, ContentsAssumption, PlanEntry DEF ObsStarts
<1>32. ASSUME ObsExits PROVE TemporaryType'
    BY <1>32, ContentsAssumption, PlanEntry DEF ObsExits
<1>33. ASSUME UNCHANGED vars PROVE TemporaryType'
    BY <1>33, ContentsAssumption, PlanEntry
<1> QED
    BY <1>1, <1>2, <1>3, <1>4, <1>5, <1>6, <1>7, <1>8, <1>9, <1>10, <1>11,
       <1>12, <1>13, <1>14, <1>15, <1>16, <1>17, <1>18, <1>19, <1>20, <1>21,
       <1>22, <1>23, <1>24, <1>25, <1>26, <1>27, <1>28, <1>29, <1>30, <1>31,
       <1>32, <1>33
    DEF Next, Recover, Transact, Exceptions

(* ... the plan and the journal ...                                          *)
LEMMA PlanStep ==
    ASSUME FileType, PlanType, [Next]_vars
    PROVE  PlanType'
<1> USE DEF diskVars, procVars, envVars, vars, Same, Quiet, Leave, Drop,
            Unread, PlanType
<1>1. ASSUME EnterClean PROVE PlanType'
    BY <1>1, EmptyPlan DEF EnterClean
<1>2. ASSUME EnterPending PROVE PlanType'
    BY <1>2, EmptyPlan DEF EnterPending
<1>3. ASSUME Inspect PROVE PlanType'
    BY <1>3, EmptyPlan DEF Inspect
<1>4. ASSUME InspectRefused PROVE PlanType'
    BY <1>4, EmptyPlan DEF InspectRefused, Raise
<1>5. ASSUME StopForRecovery PROVE PlanType'
    BY <1>5, EmptyPlan DEF StopForRecovery, Stop, Write
<1>6. ASSUME Recovered PROVE PlanType'
    BY <1>6, EmptyPlan DEF Recovered, Goto
<1>7. ASSUME DeleteMarker PROVE PlanType'
    BY <1>7, EmptyPlan DEF DeleteMarker, Goto
<1>8. ASSUME DeleteTemp PROVE PlanType'
    BY <1>8, EmptyPlan DEF DeleteTemp
<1>9. ASSUME NEW f \in Files, RollBack(f) PROVE PlanType'
    BY <1>9, EmptyPlan DEF RollBack, MustRollBack
<1>10. ASSUME NEW f \in Files, DeleteTemporary(f) PROVE PlanType'
    BY <1>10, EmptyPlan DEF DeleteTemporary, MustRollBack
<1>11. ASSUME MakePlan PROVE PlanType'
    <2>1. PICK after \in [Files -> Contents] :
              LET W == {f \in Files : after[f] # disk[f]} IN
              (\A f \in W : after[f] # Absent) /\ plan' = Entries(W, disk, after)
        BY <1>11 DEF MakePlan
    <2>2. IsPlan(plan')
        BY <2>1 DEF IsPlan, EntryType, Entries, FileType
    <2> QED
        BY <1>11, <2>2 DEF MakePlan
<1>12. ASSUME NothingToDo PROVE PlanType'
    BY <1>12, EmptyPlan DEF NothingToDo, Unchanged, MayReplan, Stop, Write
<1>13. ASSUME BeginPreparing PROVE PlanType'
    BY <1>13, EmptyPlan
    DEF BeginPreparing, Unchanged, WriteMarker, UncertainMarker, Fault
<1>14. ASSUME Verify PROVE PlanType'
    BY <1>14, EmptyPlan DEF Verify, WellPrepared, Unchanged, Fail
<1>15. ASSUME StopObs PROVE PlanType'
    BY <1>15, EmptyPlan DEF StopObs, Unchanged, MayReplan, Stop, Write, Fail
<1>16. ASSUME ConfirmStopped PROVE PlanType'
    BY <1>16, EmptyPlan DEF ConfirmStopped, Unchanged, AsAfterStop
<1>17. ASSUME StopRefused PROVE PlanType'
    BY <1>17, EmptyPlan DEF StopRefused, Fail, Unchanged, AsAfterStop, Fault
<1>18. ASSUME BeginCommitting PROVE PlanType'
    BY <1>18, EmptyPlan
    DEF BeginCommitting, Unchanged, WriteMarker, UncertainMarker, Fault, Fail
<1>19. ASSUME ValidateTargets PROVE PlanType'
    BY <1>19, EmptyPlan DEF ValidateTargets, AllDesired, Fail
<1>20. ASSUME Committed PROVE PlanType'
    BY <1>20, EmptyPlan DEF Committed, WriteMarker, UncertainMarker, Fault
<1>21. ASSUME HandleFailure PROVE PlanType'
    BY <1>21, EmptyPlan DEF HandleFailure
<1>22. ASSUME NEW f \in Files, WriteTemporary(f) PROVE PlanType'
    BY <1>22, EmptyPlan DEF WriteTemporary, PutTemporary, NeedsBackup, Fault
<1>23. ASSUME NEW f \in Files, Replace(f) PROVE PlanType'
    BY <1>23, EmptyPlan DEF Replace, Replaceable, PutDesired
<1>24. ASSUME RecoveryRaises PROVE PlanType'
    BY <1>24, EmptyPlan DEF RecoveryRaises, Raise, Fault
<1>25. ASSUME RunningObsRefused PROVE PlanType'
    BY <1>25, EmptyPlan DEF RunningObsRefused
<1>26. ASSUME TemporaryRaises PROVE PlanType'
    BY <1>26, EmptyPlan
    DEF TemporaryRaises, Fault, Fail, PutTemporary, NeedsBackup
<1>27. ASSUME ReplaceRaises PROVE PlanType'
    BY <1>27, EmptyPlan
    DEF ReplaceRaises, Fault, Fail, Replaceable, PutDesired, Unchanged
<1>28. ASSUME BeginUpdate PROVE PlanType'
    BY <1>28, EmptyPlan DEF BeginUpdate, Goto
<1>29. ASSUME Crash PROVE PlanType'
    BY <1>29, EmptyPlan DEF Crash, PutTemporary, NeedsBackup
<1>30. ASSUME ObsWrites PROVE PlanType'
    BY <1>30, EmptyPlan DEF ObsWrites, Write
<1>31. ASSUME ObsStarts PROVE PlanType'
    BY <1>31, EmptyPlan DEF ObsStarts
<1>32. ASSUME ObsExits PROVE PlanType'
    BY <1>32, EmptyPlan DEF ObsExits
<1>33. ASSUME UNCHANGED vars PROVE PlanType'
    BY <1>33, EmptyPlan
<1> QED
    BY <1>1, <1>2, <1>3, <1>4, <1>5, <1>6, <1>7, <1>8, <1>9, <1>10, <1>11,
       <1>12, <1>13, <1>14, <1>15, <1>16, <1>17, <1>18, <1>19, <1>20, <1>21,
       <1>22, <1>23, <1>24, <1>25, <1>26, <1>27, <1>28, <1>29, <1>30, <1>31,
       <1>32, <1>33
    DEF Next, Recover, Transact, Exceptions

(* ... the control ...                                                       *)
LEMMA ControlStep ==
    ASSUME ControlType, PlanType, [Next]_vars
    PROVE  ControlType'
<1> USE DEF diskVars, procVars, envVars, vars, Same, Quiet, Leave, Drop,
            Unread, ControlType, PCs
<1>1. ASSUME EnterClean PROVE ControlType'
    BY <1>1, PlanDomain DEF EnterClean
<1>2. ASSUME EnterPending PROVE ControlType'
    BY <1>2, PlanDomain DEF EnterPending
<1>3. ASSUME Inspect PROVE ControlType'
    <2>1. /\ marker' = marker /\ cause' = cause /\ todo' = DOMAIN journal
          /\ pc' \in {"recover", "stopForRecovery"}
        BY <1>3 DEF Inspect
    <2> QED
        BY <2>1, PlanDomain DEF PlanType
<1>4. ASSUME InspectRefused PROVE ControlType'
    BY <1>4, PlanDomain DEF InspectRefused, Raise
<1>5. ASSUME StopForRecovery PROVE ControlType'
    BY <1>5, PlanDomain DEF StopForRecovery, Stop, Write
<1>6. ASSUME Recovered PROVE ControlType'
    BY <1>6, PlanDomain DEF Recovered, Goto
<1>7. ASSUME DeleteMarker PROVE ControlType'
    BY <1>7, PlanDomain DEF DeleteMarker, Goto
<1>8. ASSUME DeleteTemp PROVE ControlType'
    BY <1>8, PlanDomain DEF DeleteTemp
<1>9. ASSUME NEW f \in Files, RollBack(f) PROVE ControlType'
    BY <1>9, PlanDomain DEF RollBack, MustRollBack
<1>10. ASSUME NEW f \in Files, DeleteTemporary(f) PROVE ControlType'
    BY <1>10, PlanDomain DEF DeleteTemporary, MustRollBack
<1>11. ASSUME MakePlan PROVE ControlType'
    BY <1>11, PlanDomain DEF MakePlan, Entries
<1>12. ASSUME NothingToDo PROVE ControlType'
    BY <1>12, PlanDomain DEF NothingToDo, Unchanged, MayReplan, Stop, Write
<1>13. ASSUME BeginPreparing PROVE ControlType'
    <2>1. marker' \in {marker, "preparing"} /\ pc' \in {"temporaries", "idle"}
        BY <1>13 DEF BeginPreparing, WriteMarker, UncertainMarker
    <2>2. cause' \in {cause, "enter"} /\ todo' \in {DOMAIN plan, {}}
        BY <1>13 DEF BeginPreparing
    <2> QED
        BY <2>1, <2>2, PlanDomain DEF PlanType
<1>14. ASSUME Verify PROVE ControlType'
    BY <1>14, PlanDomain DEF Verify, WellPrepared, Unchanged, Fail
<1>15. ASSUME StopObs PROVE ControlType'
    BY <1>15, PlanDomain DEF StopObs, Unchanged, MayReplan, Stop, Write, Fail
<1>16. ASSUME ConfirmStopped PROVE ControlType'
    BY <1>16, PlanDomain DEF ConfirmStopped, Unchanged, AsAfterStop
<1>17. ASSUME StopRefused PROVE ControlType'
    BY <1>17, PlanDomain DEF StopRefused, Fail, Unchanged, AsAfterStop, Fault
<1>18. ASSUME BeginCommitting PROVE ControlType'
    <2>1. marker' \in {marker, "committing"} /\ pc' \in {"replace", "failing"}
        BY <1>18 DEF BeginCommitting, WriteMarker, UncertainMarker, Fail
    <2>2. cause' \in {cause, "failure"} /\ todo' \in {DOMAIN plan, {}}
        BY <1>18 DEF BeginCommitting, Fail
    <2> QED
        BY <2>1, <2>2, PlanDomain DEF PlanType
<1>19. ASSUME ValidateTargets PROVE ControlType'
    BY <1>19, PlanDomain DEF ValidateTargets, AllDesired, Fail
<1>20. ASSUME Committed PROVE ControlType'
    BY <1>20, PlanDomain DEF Committed, WriteMarker, UncertainMarker, Fault
<1>21. ASSUME HandleFailure PROVE ControlType'
    BY <1>21, PlanDomain DEF HandleFailure
<1>22. ASSUME NEW f \in Files, WriteTemporary(f) PROVE ControlType'
    BY <1>22, PlanDomain DEF WriteTemporary, PutTemporary, NeedsBackup, Fault
<1>23. ASSUME NEW f \in Files, Replace(f) PROVE ControlType'
    BY <1>23, PlanDomain DEF Replace, Replaceable, PutDesired
<1>24. ASSUME RecoveryRaises PROVE ControlType'
    BY <1>24, PlanDomain DEF RecoveryRaises, Raise, Fault
<1>25. ASSUME RunningObsRefused PROVE ControlType'
    BY <1>25, PlanDomain DEF RunningObsRefused
<1>26. ASSUME TemporaryRaises PROVE ControlType'
    BY <1>26, PlanDomain
    DEF TemporaryRaises, Fault, Fail, PutTemporary, NeedsBackup
<1>27. ASSUME ReplaceRaises PROVE ControlType'
    BY <1>27, PlanDomain
    DEF ReplaceRaises, Fault, Fail, Replaceable, PutDesired, Unchanged
<1>28. ASSUME BeginUpdate PROVE ControlType'
    BY <1>28, PlanDomain DEF BeginUpdate, Goto
<1>29. ASSUME Crash PROVE ControlType'
    BY <1>29, PlanDomain DEF Crash, PutTemporary, NeedsBackup
<1>30. ASSUME ObsWrites PROVE ControlType'
    BY <1>30, PlanDomain DEF ObsWrites, Write
<1>31. ASSUME ObsStarts PROVE ControlType'
    BY <1>31, PlanDomain DEF ObsStarts
<1>32. ASSUME ObsExits PROVE ControlType'
    BY <1>32, PlanDomain DEF ObsExits
<1>33. ASSUME UNCHANGED vars PROVE ControlType'
    BY <1>33, PlanDomain
<1> QED
    BY <1>1, <1>2, <1>3, <1>4, <1>5, <1>6, <1>7, <1>8, <1>9, <1>10, <1>11,
       <1>12, <1>13, <1>14, <1>15, <1>16, <1>17, <1>18, <1>19, <1>20, <1>21,
       <1>22, <1>23, <1>24, <1>25, <1>26, <1>27, <1>28, <1>29, <1>30, <1>31,
       <1>32, <1>33
    DEF Next, Recover, Transact, Exceptions

(* ... and the counters.                                                     *)
LEMMA CountStep ==
    ASSUME CountType, [Next]_vars
    PROVE  CountType'
<1> USE DEF diskVars, procVars, envVars, vars, Same, Quiet, Leave, Drop,
            Unread, CountType
<1>1. ASSUME EnterClean PROVE CountType'
    BY <1>1, BoundsAssumption DEF EnterClean
<1>2. ASSUME EnterPending PROVE CountType'
    BY <1>2, BoundsAssumption DEF EnterPending
<1>3. ASSUME Inspect PROVE CountType'
    BY <1>3, BoundsAssumption DEF Inspect
<1>4. ASSUME InspectRefused PROVE CountType'
    BY <1>4, BoundsAssumption DEF InspectRefused, Raise
<1>5. ASSUME StopForRecovery PROVE CountType'
    BY <1>5, BoundsAssumption DEF StopForRecovery, Stop, Write
<1>6. ASSUME Recovered PROVE CountType'
    BY <1>6, BoundsAssumption DEF Recovered, Goto
<1>7. ASSUME DeleteMarker PROVE CountType'
    BY <1>7, BoundsAssumption DEF DeleteMarker, Goto
<1>8. ASSUME DeleteTemp PROVE CountType'
    BY <1>8, BoundsAssumption DEF DeleteTemp
<1>9. ASSUME NEW f \in Files, RollBack(f) PROVE CountType'
    BY <1>9, BoundsAssumption DEF RollBack, MustRollBack
<1>10. ASSUME NEW f \in Files, DeleteTemporary(f) PROVE CountType'
    BY <1>10, BoundsAssumption DEF DeleteTemporary, MustRollBack
<1>11. ASSUME MakePlan PROVE CountType'
    BY <1>11, BoundsAssumption DEF MakePlan, Entries
<1>12. ASSUME NothingToDo PROVE CountType'
    BY <1>12, BoundsAssumption
    DEF NothingToDo, Unchanged, MayReplan, Stop, Write
<1>13. ASSUME BeginPreparing PROVE CountType'
    <2>1. /\ writes' = writes /\ crashes' = crashes
          /\ faults' = faults \/ (faults < MaxFaults /\ faults' = faults + 1)
        BY <1>13 DEF BeginPreparing, UncertainMarker, Fault
    <2> QED
        BY <2>1, BoundsAssumption
<1>14. ASSUME Verify PROVE CountType'
    BY <1>14, BoundsAssumption DEF Verify, WellPrepared, Unchanged, Fail
<1>15. ASSUME StopObs PROVE CountType'
    BY <1>15, BoundsAssumption
    DEF StopObs, Unchanged, MayReplan, Stop, Write, Fail
<1>16. ASSUME ConfirmStopped PROVE CountType'
    BY <1>16, BoundsAssumption DEF ConfirmStopped, Unchanged, AsAfterStop
<1>17. ASSUME StopRefused PROVE CountType'
    BY <1>17, BoundsAssumption
    DEF StopRefused, Fail, Unchanged, AsAfterStop, Fault
<1>18. ASSUME BeginCommitting PROVE CountType'
    <2>1. /\ writes' = writes /\ crashes' = crashes
          /\ faults' = faults \/ (faults < MaxFaults /\ faults' = faults + 1)
        BY <1>18 DEF BeginCommitting, UncertainMarker, Fault
    <2> QED
        BY <2>1, BoundsAssumption
<1>19. ASSUME ValidateTargets PROVE CountType'
    BY <1>19, BoundsAssumption DEF ValidateTargets, AllDesired, Fail
<1>20. ASSUME Committed PROVE CountType'
    <2>1. /\ writes' = writes /\ crashes' = crashes
          /\ faults' = faults \/ (faults < MaxFaults /\ faults' = faults + 1)
        BY <1>20 DEF Committed, UncertainMarker, Fault
    <2> QED
        BY <2>1, BoundsAssumption
<1>21. ASSUME HandleFailure PROVE CountType'
    BY <1>21, BoundsAssumption DEF HandleFailure
<1>22. ASSUME NEW f \in Files, WriteTemporary(f) PROVE CountType'
    BY <1>22, BoundsAssumption
    DEF WriteTemporary, PutTemporary, NeedsBackup, Fault
<1>23. ASSUME NEW f \in Files, Replace(f) PROVE CountType'
    BY <1>23, BoundsAssumption DEF Replace, Replaceable, PutDesired
<1>24. ASSUME RecoveryRaises PROVE CountType'
    BY <1>24, BoundsAssumption DEF RecoveryRaises, Raise, Fault
<1>25. ASSUME RunningObsRefused PROVE CountType'
    BY <1>25, BoundsAssumption DEF RunningObsRefused
<1>26. ASSUME TemporaryRaises PROVE CountType'
    BY <1>26, BoundsAssumption
    DEF TemporaryRaises, Fault, Fail, PutTemporary, NeedsBackup
<1>27. ASSUME ReplaceRaises PROVE CountType'
    BY <1>27, BoundsAssumption
    DEF ReplaceRaises, Fault, Fail, Replaceable, PutDesired, Unchanged
<1>28. ASSUME BeginUpdate PROVE CountType'
    BY <1>28, BoundsAssumption DEF BeginUpdate, Goto
<1>29. ASSUME Crash PROVE CountType'
    BY <1>29, BoundsAssumption DEF Crash, PutTemporary, NeedsBackup
<1>30. ASSUME ObsWrites PROVE CountType'
    BY <1>30, BoundsAssumption DEF ObsWrites, Write
<1>31. ASSUME ObsStarts PROVE CountType'
    BY <1>31, BoundsAssumption DEF ObsStarts
<1>32. ASSUME ObsExits PROVE CountType'
    BY <1>32, BoundsAssumption DEF ObsExits
<1>33. ASSUME UNCHANGED vars PROVE CountType'
    BY <1>33, BoundsAssumption
<1> QED
    BY <1>1, <1>2, <1>3, <1>4, <1>5, <1>6, <1>7, <1>8, <1>9, <1>10, <1>11,
       <1>12, <1>13, <1>14, <1>15, <1>16, <1>17, <1>18, <1>19, <1>20, <1>21,
       <1>22, <1>23, <1>24, <1>25, <1>26, <1>27, <1>28, <1>29, <1>30, <1>31,
       <1>32, <1>33
    DEF Next, Recover, Transact, Exceptions

(* All data keep their types.                                                *)
LEMMA DataStep ==
    ASSUME DataType, JournalInv, TemporariesInv, [Next]_vars
    PROVE  DataType'
BY DataParts, FileStep, TempStep, PlanStep, ControlStep, CountStep,
   DataPartsPrimed

(* The journal on the disk fits the point where the process stands.          *)
LEMMA JournalStep ==
    ASSUME DataType, JournalInv, TemporariesInv, [Next]_vars
    PROVE  JournalInv'
<1> USE DEF diskVars, procVars, envVars, vars, Same, Quiet, Leave, Drop,
            Unread, JournalInv, TemporariesInv, NoTemporaries, None, Planning,
            Preparing, Replacing, Pending
<1>1. ASSUME EnterClean PROVE JournalInv'
    BY <1>1 DEF EnterClean
<1>2. ASSUME EnterPending PROVE JournalInv'
    BY <1>2 DEF EnterPending
<1>3. ASSUME Inspect PROVE JournalInv'
    BY <1>3 DEF Inspect
<1>4. ASSUME InspectRefused PROVE JournalInv'
    BY <1>4 DEF InspectRefused, Raise
<1>5. ASSUME StopForRecovery PROVE JournalInv'
    BY <1>5 DEF StopForRecovery, Stop, Write
<1>6. ASSUME Recovered PROVE JournalInv'
    BY <1>6 DEF Recovered, Goto
<1>7. ASSUME DeleteMarker PROVE JournalInv'
    BY <1>7 DEF DeleteMarker, Goto
<1>8. ASSUME DeleteTemp PROVE JournalInv'
    BY <1>8 DEF DeleteTemp
<1>9. ASSUME NEW f \in Files, RollBack(f) PROVE JournalInv'
    BY <1>9 DEF RollBack, MustRollBack
<1>10. ASSUME NEW f \in Files, DeleteTemporary(f) PROVE JournalInv'
    BY <1>10 DEF DeleteTemporary, MustRollBack
<1>11. ASSUME MakePlan PROVE JournalInv'
    BY <1>11 DEF MakePlan, Entries
<1>12. ASSUME NothingToDo PROVE JournalInv'
    BY <1>12 DEF NothingToDo, Unchanged, MayReplan, Stop, Write
<1>13. ASSUME BeginPreparing PROVE JournalInv'
    BY <1>13 DEF BeginPreparing, Unchanged, WriteMarker, UncertainMarker, Fault
<1>14. ASSUME Verify PROVE JournalInv'
    BY <1>14 DEF Verify, WellPrepared, Unchanged, Fail
<1>15. ASSUME StopObs PROVE JournalInv'
    BY <1>15 DEF StopObs, Unchanged, MayReplan, Stop, Write, Fail
<1>16. ASSUME ConfirmStopped PROVE JournalInv'
    BY <1>16 DEF ConfirmStopped, Unchanged, AsAfterStop
<1>17. ASSUME StopRefused PROVE JournalInv'
    BY <1>17 DEF StopRefused, Fail, Unchanged, AsAfterStop, Fault
<1>18. ASSUME BeginCommitting PROVE JournalInv'
    BY <1>18
    DEF BeginCommitting, Unchanged, WriteMarker, UncertainMarker, Fault, Fail
<1>19. ASSUME ValidateTargets PROVE JournalInv'
    BY <1>19 DEF ValidateTargets, AllDesired, Fail
<1>20. ASSUME Committed PROVE JournalInv'
    BY <1>20 DEF Committed, WriteMarker, UncertainMarker, Fault
<1>21. ASSUME HandleFailure PROVE JournalInv'
    BY <1>21 DEF HandleFailure
<1>22. ASSUME NEW f \in Files, WriteTemporary(f) PROVE JournalInv'
    BY <1>22 DEF WriteTemporary, PutTemporary, NeedsBackup, Fault
<1>23. ASSUME NEW f \in Files, Replace(f) PROVE JournalInv'
    BY <1>23 DEF Replace, Replaceable, PutDesired
<1>24. ASSUME RecoveryRaises PROVE JournalInv'
    BY <1>24 DEF RecoveryRaises, Raise, Fault
<1>25. ASSUME RunningObsRefused PROVE JournalInv'
    BY <1>25 DEF RunningObsRefused
<1>26. ASSUME TemporaryRaises PROVE JournalInv'
    BY <1>26 DEF TemporaryRaises, Fault, Fail, PutTemporary, NeedsBackup
<1>27. ASSUME ReplaceRaises PROVE JournalInv'
    BY <1>27 DEF ReplaceRaises, Fault, Fail, Replaceable, PutDesired, Unchanged
<1>28. ASSUME BeginUpdate PROVE JournalInv'
    BY <1>28 DEF BeginUpdate, Goto
<1>29. ASSUME Crash PROVE JournalInv'
    BY <1>29 DEF Crash, PutTemporary, NeedsBackup
<1>30. ASSUME ObsWrites PROVE JournalInv'
    BY <1>30 DEF ObsWrites, Write
<1>31. ASSUME ObsStarts PROVE JournalInv'
    BY <1>31 DEF ObsStarts
<1>32. ASSUME ObsExits PROVE JournalInv'
    BY <1>32 DEF ObsExits
<1>33. ASSUME UNCHANGED vars PROVE JournalInv'
    BY <1>33
<1> QED
    BY <1>1, <1>2, <1>3, <1>4, <1>5, <1>6, <1>7, <1>8, <1>9, <1>10, <1>11,
       <1>12, <1>13, <1>14, <1>15, <1>16, <1>17, <1>18, <1>19, <1>20, <1>21,
       <1>22, <1>23, <1>24, <1>25, <1>26, <1>27, <1>28, <1>29, <1>30, <1>31,
       <1>32, <1>33
    DEF Next, Recover, Transact, Exceptions

(* The temporaries belong to the journal.                                    *)
LEMMA TemporariesStep ==
    ASSUME DataType, JournalInv, TemporariesInv, [Next]_vars
    PROVE  TemporariesInv'
<1> USE DEF diskVars, procVars, envVars, vars, Same, Quiet, Leave, Drop,
            Unread, JournalInv, TemporariesInv, NoTemporaries, None, Planning,
            Preparing, Replacing, Pending, DataType, IsPlan, Temporaries
<1>1. ASSUME EnterClean PROVE TemporariesInv'
    BY <1>1, ContentsAssumption, BoundsAssumption DEF EnterClean
<1>2. ASSUME EnterPending PROVE TemporariesInv'
    BY <1>2, ContentsAssumption, BoundsAssumption DEF EnterPending
<1>3. ASSUME Inspect PROVE TemporariesInv'
    BY <1>3, ContentsAssumption, BoundsAssumption DEF Inspect
<1>4. ASSUME InspectRefused PROVE TemporariesInv'
    BY <1>4, ContentsAssumption, BoundsAssumption DEF InspectRefused, Raise
<1>5. ASSUME StopForRecovery PROVE TemporariesInv'
    <2>1. /\ pc = "stopForRecovery" /\ UNCHANGED <<marker, journal, backup, desired>>
          /\ \/ pc' = "recover" /\ UNCHANGED todo
             \/ pc' = "idle"
        BY <1>5 DEF StopForRecovery
    <2> QED
        BY <2>1
<1>6. ASSUME Recovered PROVE TemporariesInv'
    BY <1>6, ContentsAssumption, BoundsAssumption DEF Recovered, Goto
<1>7. ASSUME DeleteMarker PROVE TemporariesInv'
    <2>1. NoTemporaries /\ NoTemporaries'
        BY <1>7 DEF DeleteMarker, Goto
    <2>2. journal' = NoEntries /\ pc' = "deleteTemp"
        BY <1>7 DEF DeleteMarker, Goto
    <2> QED
        BY <2>1, <2>2, EmptyPlan
<1>8. ASSUME DeleteTemp PROVE TemporariesInv'
    BY <1>8, ContentsAssumption, BoundsAssumption DEF DeleteTemp
<1>9. ASSUME NEW f \in Files, RollBack(f) PROVE TemporariesInv'
    BY <1>9, ContentsAssumption, BoundsAssumption DEF RollBack, MustRollBack
<1>10. ASSUME NEW f \in Files, DeleteTemporary(f) PROVE TemporariesInv'
    BY <1>10, ContentsAssumption, BoundsAssumption
    DEF DeleteTemporary, MustRollBack
<1>11. ASSUME MakePlan PROVE TemporariesInv'
    BY <1>11, ContentsAssumption, BoundsAssumption DEF MakePlan, Entries
<1>12. ASSUME NothingToDo PROVE TemporariesInv'
    BY <1>12, ContentsAssumption, BoundsAssumption
    DEF NothingToDo, Unchanged, MayReplan, Stop, Write
<1>13. ASSUME BeginPreparing PROVE TemporariesInv'
    BY <1>13, ContentsAssumption, BoundsAssumption
    DEF BeginPreparing, Unchanged, WriteMarker, UncertainMarker, Fault
<1>14. ASSUME Verify PROVE TemporariesInv'
    BY <1>14, ContentsAssumption, BoundsAssumption
    DEF Verify, WellPrepared, Unchanged, Fail
<1>15. ASSUME StopObs PROVE TemporariesInv'
    BY <1>15, ContentsAssumption, BoundsAssumption
    DEF StopObs, Unchanged, MayReplan, Stop, Write, Fail
<1>16. ASSUME ConfirmStopped PROVE TemporariesInv'
    BY <1>16, ContentsAssumption, BoundsAssumption
    DEF ConfirmStopped, Unchanged, AsAfterStop
<1>17. ASSUME StopRefused PROVE TemporariesInv'
    BY <1>17, ContentsAssumption, BoundsAssumption
    DEF StopRefused, Fail, Unchanged, AsAfterStop, Fault
<1>18. ASSUME BeginCommitting PROVE TemporariesInv'
    BY <1>18, ContentsAssumption, BoundsAssumption
    DEF BeginCommitting, Unchanged, WriteMarker, UncertainMarker, Fault, Fail
<1>19. ASSUME ValidateTargets PROVE TemporariesInv'
    BY <1>19, ContentsAssumption, BoundsAssumption
    DEF ValidateTargets, AllDesired, Fail
<1>20. ASSUME Committed PROVE TemporariesInv'
    BY <1>20, ContentsAssumption, BoundsAssumption
    DEF Committed, WriteMarker, UncertainMarker, Fault
<1>21. ASSUME HandleFailure PROVE TemporariesInv'
    BY <1>21, ContentsAssumption, BoundsAssumption DEF HandleFailure
<1>22. ASSUME NEW f \in Files, WriteTemporary(f) PROVE TemporariesInv'
    BY <1>22, ContentsAssumption, BoundsAssumption
    DEF WriteTemporary, PutTemporary, NeedsBackup, Fault
<1>23. ASSUME NEW f \in Files, Replace(f) PROVE TemporariesInv'
    BY <1>23, ContentsAssumption, BoundsAssumption
    DEF Replace, Replaceable, PutDesired
<1>24. ASSUME RecoveryRaises PROVE TemporariesInv'
    BY <1>24, ContentsAssumption, BoundsAssumption
    DEF RecoveryRaises, Raise, Fault
<1>25. ASSUME RunningObsRefused PROVE TemporariesInv'
    BY <1>25, ContentsAssumption, BoundsAssumption DEF RunningObsRefused
<1>26. ASSUME TemporaryRaises PROVE TemporariesInv'
    BY <1>26, ContentsAssumption, BoundsAssumption
    DEF TemporaryRaises, Fault, Fail, PutTemporary, NeedsBackup
<1>27. ASSUME ReplaceRaises PROVE TemporariesInv'
    BY <1>27, ContentsAssumption, BoundsAssumption
    DEF ReplaceRaises, Fault, Fail, Replaceable, PutDesired, Unchanged
<1>28. ASSUME BeginUpdate PROVE TemporariesInv'
    BY <1>28, ContentsAssumption, BoundsAssumption DEF BeginUpdate, Goto
<1>29. ASSUME Crash PROVE TemporariesInv'
    BY <1>29, ContentsAssumption, BoundsAssumption
    DEF Crash, PutTemporary, NeedsBackup
<1>30. ASSUME ObsWrites PROVE TemporariesInv'
    BY <1>30, ContentsAssumption, BoundsAssumption DEF ObsWrites, Write
<1>31. ASSUME ObsStarts PROVE TemporariesInv'
    BY <1>31, ContentsAssumption, BoundsAssumption DEF ObsStarts
<1>32. ASSUME ObsExits PROVE TemporariesInv'
    BY <1>32, ContentsAssumption, BoundsAssumption DEF ObsExits
<1>33. ASSUME UNCHANGED vars PROVE TemporariesInv'
    BY <1>33, ContentsAssumption, BoundsAssumption
<1> QED
    BY <1>1, <1>2, <1>3, <1>4, <1>5, <1>6, <1>7, <1>8, <1>9, <1>10, <1>11,
       <1>12, <1>13, <1>14, <1>15, <1>16, <1>17, <1>18, <1>19, <1>20, <1>21,
       <1>22, <1>23, <1>24, <1>25, <1>26, <1>27, <1>28, <1>29, <1>30, <1>31,
       <1>32, <1>33
    DEF Next, Recover, Transact, Exceptions

(* The backups stay whole while the files are replaced.                      *)
LEMMA BackupStep ==
    ASSUME DataType, JournalInv, BackupInv, [Next]_vars
    PROVE  BackupInv'
<1> USE DEF diskVars, procVars, envVars, vars, Same, Quiet, Leave, Drop,
            Unread, JournalInv, BackupInv, BackedUp, Planning, Preparing,
            Replacing, Pending, DataType, IsPlan, Temporaries
<1>1. ASSUME EnterClean PROVE BackupInv'
    BY <1>1, ContentsAssumption, BoundsAssumption DEF EnterClean
<1>2. ASSUME EnterPending PROVE BackupInv'
    BY <1>2, ContentsAssumption, BoundsAssumption DEF EnterPending
<1>3. ASSUME Inspect PROVE BackupInv'
    BY <1>3, ContentsAssumption, BoundsAssumption DEF Inspect
<1>4. ASSUME InspectRefused PROVE BackupInv'
    BY <1>4, ContentsAssumption, BoundsAssumption DEF InspectRefused, Raise
<1>5. ASSUME StopForRecovery PROVE BackupInv'
    BY <1>5, ContentsAssumption, BoundsAssumption
    DEF StopForRecovery, Stop, Write
<1>6. ASSUME Recovered PROVE BackupInv'
    BY <1>6, ContentsAssumption, BoundsAssumption DEF Recovered, Goto
<1>7. ASSUME DeleteMarker PROVE BackupInv'
    BY <1>7, ContentsAssumption, BoundsAssumption DEF DeleteMarker, Goto
<1>8. ASSUME DeleteTemp PROVE BackupInv'
    BY <1>8, ContentsAssumption, BoundsAssumption DEF DeleteTemp
<1>9. ASSUME NEW f \in Files, RollBack(f) PROVE BackupInv'
    BY <1>9, ContentsAssumption, BoundsAssumption DEF RollBack, MustRollBack
<1>10. ASSUME NEW f \in Files, DeleteTemporary(f) PROVE BackupInv'
    BY <1>10, ContentsAssumption, BoundsAssumption
    DEF DeleteTemporary, MustRollBack
<1>11. ASSUME MakePlan PROVE BackupInv'
    BY <1>11, ContentsAssumption, BoundsAssumption DEF MakePlan, Entries
<1>12. ASSUME NothingToDo PROVE BackupInv'
    BY <1>12, ContentsAssumption, BoundsAssumption
    DEF NothingToDo, Unchanged, MayReplan, Stop, Write
<1>13. ASSUME BeginPreparing PROVE BackupInv'
    BY <1>13, ContentsAssumption, BoundsAssumption
    DEF BeginPreparing, Unchanged, WriteMarker, UncertainMarker, Fault
<1>14. ASSUME Verify PROVE BackupInv'
    BY <1>14, ContentsAssumption, BoundsAssumption
    DEF Verify, WellPrepared, Unchanged, Fail
<1>15. ASSUME StopObs PROVE BackupInv'
    BY <1>15, ContentsAssumption, BoundsAssumption
    DEF StopObs, Unchanged, MayReplan, Stop, Write, Fail
<1>16. ASSUME ConfirmStopped PROVE BackupInv'
    BY <1>16, ContentsAssumption, BoundsAssumption
    DEF ConfirmStopped, Unchanged, AsAfterStop
<1>17. ASSUME StopRefused PROVE BackupInv'
    BY <1>17, ContentsAssumption, BoundsAssumption
    DEF StopRefused, Fail, Unchanged, AsAfterStop, Fault
<1>18. ASSUME BeginCommitting PROVE BackupInv'
    BY <1>18, ContentsAssumption, BoundsAssumption
    DEF BeginCommitting, Unchanged, WriteMarker, UncertainMarker, Fault, Fail
<1>19. ASSUME ValidateTargets PROVE BackupInv'
    BY <1>19, ContentsAssumption, BoundsAssumption
    DEF ValidateTargets, AllDesired, Fail
<1>20. ASSUME Committed PROVE BackupInv'
    BY <1>20, ContentsAssumption, BoundsAssumption
    DEF Committed, WriteMarker, UncertainMarker, Fault
<1>21. ASSUME HandleFailure PROVE BackupInv'
    BY <1>21, ContentsAssumption, BoundsAssumption DEF HandleFailure
<1>22. ASSUME NEW f \in Files, WriteTemporary(f) PROVE BackupInv'
    BY <1>22, ContentsAssumption, BoundsAssumption
    DEF WriteTemporary, PutTemporary, NeedsBackup, Fault
<1>23. ASSUME NEW f \in Files, Replace(f) PROVE BackupInv'
    BY <1>23, ContentsAssumption, BoundsAssumption
    DEF Replace, Replaceable, PutDesired
<1>24. ASSUME RecoveryRaises PROVE BackupInv'
    BY <1>24, ContentsAssumption, BoundsAssumption
    DEF RecoveryRaises, Raise, Fault
<1>25. ASSUME RunningObsRefused PROVE BackupInv'
    BY <1>25, ContentsAssumption, BoundsAssumption DEF RunningObsRefused
<1>26. ASSUME TemporaryRaises PROVE BackupInv'
    BY <1>26, ContentsAssumption, BoundsAssumption
    DEF TemporaryRaises, Fault, Fail, PutTemporary, NeedsBackup
<1>27. ASSUME ReplaceRaises PROVE BackupInv'
    BY <1>27, ContentsAssumption, BoundsAssumption
    DEF ReplaceRaises, Fault, Fail, Replaceable, PutDesired, Unchanged
<1>28. ASSUME BeginUpdate PROVE BackupInv'
    BY <1>28, ContentsAssumption, BoundsAssumption DEF BeginUpdate, Goto
<1>29. ASSUME Crash PROVE BackupInv'
    BY <1>29, ContentsAssumption, BoundsAssumption
    DEF Crash, PutTemporary, NeedsBackup
<1>30. ASSUME ObsWrites PROVE BackupInv'
    BY <1>30, ContentsAssumption, BoundsAssumption DEF ObsWrites, Write
<1>31. ASSUME ObsStarts PROVE BackupInv'
    BY <1>31, ContentsAssumption, BoundsAssumption DEF ObsStarts
<1>32. ASSUME ObsExits PROVE BackupInv'
    BY <1>32, ContentsAssumption, BoundsAssumption DEF ObsExits
<1>33. ASSUME UNCHANGED vars PROVE BackupInv'
    BY <1>33, ContentsAssumption, BoundsAssumption
<1> QED
    BY <1>1, <1>2, <1>3, <1>4, <1>5, <1>6, <1>7, <1>8, <1>9, <1>10, <1>11,
       <1>12, <1>13, <1>14, <1>15, <1>16, <1>17, <1>18, <1>19, <1>20, <1>21,
       <1>22, <1>23, <1>24, <1>25, <1>26, <1>27, <1>28, <1>29, <1>30, <1>31,
       <1>32, <1>33
    DEF Next, Recover, Transact, Exceptions

(* The plan and the files agree with the snapshot.                           *)
LEMMA SnapshotStep ==
    ASSUME DataType, JournalInv, SnapshotInv, [Next]_vars
    PROVE  SnapshotInv'
<1> USE DEF diskVars, procVars, envVars, vars, Same, Quiet, Leave, Drop,
            Unread, JournalInv, SnapshotInv, Planning, Preparing, Replacing,
            Pending, DataType, IsPlan, EntryType, Original, Desired
<1>1. ASSUME EnterClean PROVE SnapshotInv'
    BY <1>1, ContentsAssumption, BoundsAssumption DEF EnterClean
<1>2. ASSUME EnterPending PROVE SnapshotInv'
    BY <1>2, ContentsAssumption, BoundsAssumption DEF EnterPending
<1>3. ASSUME Inspect PROVE SnapshotInv'
    BY <1>3, ContentsAssumption, BoundsAssumption DEF Inspect
<1>4. ASSUME InspectRefused PROVE SnapshotInv'
    BY <1>4, ContentsAssumption, BoundsAssumption DEF InspectRefused, Raise
<1>5. ASSUME StopForRecovery PROVE SnapshotInv'
    BY <1>5, ContentsAssumption, BoundsAssumption
    DEF StopForRecovery, Stop, Write
<1>6. ASSUME Recovered PROVE SnapshotInv'
    BY <1>6, ContentsAssumption, BoundsAssumption DEF Recovered, Goto
<1>7. ASSUME DeleteMarker PROVE SnapshotInv'
    BY <1>7, ContentsAssumption, BoundsAssumption DEF DeleteMarker, Goto
<1>8. ASSUME DeleteTemp PROVE SnapshotInv'
    BY <1>8, ContentsAssumption, BoundsAssumption DEF DeleteTemp
<1>9. ASSUME NEW f \in Files, RollBack(f) PROVE SnapshotInv'
    BY <1>9, ContentsAssumption, BoundsAssumption DEF RollBack, MustRollBack
<1>10. ASSUME NEW f \in Files, DeleteTemporary(f) PROVE SnapshotInv'
    BY <1>10, ContentsAssumption, BoundsAssumption
    DEF DeleteTemporary, MustRollBack
<1>11. ASSUME MakePlan PROVE SnapshotInv'
    BY <1>11, ContentsAssumption, BoundsAssumption DEF MakePlan, Entries
<1>12. ASSUME NothingToDo PROVE SnapshotInv'
    BY <1>12, ContentsAssumption, BoundsAssumption
    DEF NothingToDo, Unchanged, MayReplan, Stop, Write
<1>13. ASSUME BeginPreparing PROVE SnapshotInv'
    BY <1>13, ContentsAssumption, BoundsAssumption
    DEF BeginPreparing, Unchanged, WriteMarker, UncertainMarker, Fault
<1>14. ASSUME Verify PROVE SnapshotInv'
    BY <1>14, ContentsAssumption, BoundsAssumption
    DEF Verify, WellPrepared, Unchanged, Fail
<1>15. ASSUME StopObs PROVE SnapshotInv'
    BY <1>15, ContentsAssumption, BoundsAssumption
    DEF StopObs, Unchanged, MayReplan, Stop, Write, Fail
<1>16. ASSUME ConfirmStopped PROVE SnapshotInv'
    BY <1>16, ContentsAssumption, BoundsAssumption
    DEF ConfirmStopped, Unchanged, AsAfterStop
<1>17. ASSUME StopRefused PROVE SnapshotInv'
    BY <1>17, ContentsAssumption, BoundsAssumption
    DEF StopRefused, Fail, Unchanged, AsAfterStop, Fault
<1>18. ASSUME BeginCommitting PROVE SnapshotInv'
    BY <1>18, ContentsAssumption, BoundsAssumption
    DEF BeginCommitting, Unchanged, WriteMarker, UncertainMarker, Fault, Fail
<1>19. ASSUME ValidateTargets PROVE SnapshotInv'
    BY <1>19, ContentsAssumption, BoundsAssumption
    DEF ValidateTargets, AllDesired, Fail
<1>20. ASSUME Committed PROVE SnapshotInv'
    BY <1>20, ContentsAssumption, BoundsAssumption
    DEF Committed, WriteMarker, UncertainMarker, Fault
<1>21. ASSUME HandleFailure PROVE SnapshotInv'
    BY <1>21, ContentsAssumption, BoundsAssumption DEF HandleFailure
<1>22. ASSUME NEW f \in Files, WriteTemporary(f) PROVE SnapshotInv'
    BY <1>22, ContentsAssumption, BoundsAssumption
    DEF WriteTemporary, PutTemporary, NeedsBackup, Fault
<1>23. ASSUME NEW f \in Files, Replace(f) PROVE SnapshotInv'
    BY <1>23, ContentsAssumption, BoundsAssumption
    DEF Replace, Replaceable, PutDesired
<1>24. ASSUME RecoveryRaises PROVE SnapshotInv'
    BY <1>24, ContentsAssumption, BoundsAssumption
    DEF RecoveryRaises, Raise, Fault
<1>25. ASSUME RunningObsRefused PROVE SnapshotInv'
    BY <1>25, ContentsAssumption, BoundsAssumption DEF RunningObsRefused
<1>26. ASSUME TemporaryRaises PROVE SnapshotInv'
    BY <1>26, ContentsAssumption, BoundsAssumption
    DEF TemporaryRaises, Fault, Fail, PutTemporary, NeedsBackup
<1>27. ASSUME ReplaceRaises PROVE SnapshotInv'
    BY <1>27, ContentsAssumption, BoundsAssumption
    DEF ReplaceRaises, Fault, Fail, Replaceable, PutDesired, Unchanged
<1>28. ASSUME BeginUpdate PROVE SnapshotInv'
    BY <1>28, ContentsAssumption, BoundsAssumption DEF BeginUpdate, Goto
<1>29. ASSUME Crash PROVE SnapshotInv'
    BY <1>29, ContentsAssumption, BoundsAssumption
    DEF Crash, PutTemporary, NeedsBackup
<1>30. ASSUME ObsWrites PROVE SnapshotInv'
    BY <1>30, ContentsAssumption, BoundsAssumption DEF ObsWrites, Write
<1>31. ASSUME ObsStarts PROVE SnapshotInv'
    BY <1>31, ContentsAssumption, BoundsAssumption DEF ObsStarts
<1>32. ASSUME ObsExits PROVE SnapshotInv'
    BY <1>32, ContentsAssumption, BoundsAssumption DEF ObsExits
<1>33. ASSUME UNCHANGED vars PROVE SnapshotInv'
    BY <1>33, ContentsAssumption, BoundsAssumption
<1> QED
    BY <1>1, <1>2, <1>3, <1>4, <1>5, <1>6, <1>7, <1>8, <1>9, <1>10, <1>11,
       <1>12, <1>13, <1>14, <1>15, <1>16, <1>17, <1>18, <1>19, <1>20, <1>21,
       <1>22, <1>23, <1>24, <1>25, <1>26, <1>27, <1>28, <1>29, <1>30, <1>31,
       <1>32, <1>33
    DEF Next, Recover, Transact, Exceptions

(* Every step keeps a pending journal recoverable.                           *)
LEMMA RecoverStep ==
    ASSUME DataType, JournalInv, BackupInv, SnapshotInv, Recoverability,
           [Next]_vars
    PROVE  Recoverability'
<1> USE DEF diskVars, procVars, envVars, vars, Same, Quiet, Leave, Drop,
            Unread, JournalInv, SnapshotInv, BackupInv, BackedUp,
            Recoverability, Recoverable, Original, Desired, Planning,
            Preparing, Replacing, Pending, DataType, IsPlan, EntryType,
            Temporaries
<1>1. ASSUME EnterClean PROVE Recoverability'
    BY <1>1, ContentsAssumption, BoundsAssumption DEF EnterClean
<1>2. ASSUME EnterPending PROVE Recoverability'
    BY <1>2, ContentsAssumption, BoundsAssumption DEF EnterPending
<1>3. ASSUME Inspect PROVE Recoverability'
    BY <1>3, ContentsAssumption, BoundsAssumption DEF Inspect
<1>4. ASSUME InspectRefused PROVE Recoverability'
    BY <1>4, ContentsAssumption, BoundsAssumption DEF InspectRefused, Raise
<1>5. ASSUME StopForRecovery PROVE Recoverability'
    <2>1. UNCHANGED <<marker, journal, backup>> /\ (writes' = 0 => writes = 0 /\ disk' = disk)
        BY <1>5 DEF StopForRecovery, Stop, Write
    <2> QED
        BY <2>1
<1>6. ASSUME Recovered PROVE Recoverability'
    BY <1>6, ContentsAssumption, BoundsAssumption DEF Recovered, Goto
<1>7. ASSUME DeleteMarker PROVE Recoverability'
    BY <1>7, ContentsAssumption, BoundsAssumption DEF DeleteMarker, Goto
<1>8. ASSUME DeleteTemp PROVE Recoverability'
    BY <1>8, ContentsAssumption, BoundsAssumption DEF DeleteTemp
<1>9. ASSUME NEW f \in Files, RollBack(f) PROVE Recoverability'
    BY <1>9, ContentsAssumption, BoundsAssumption DEF RollBack, MustRollBack
<1>10. ASSUME NEW f \in Files, DeleteTemporary(f) PROVE Recoverability'
    <2>1. UNCHANGED <<disk, marker, journal, writes>> /\ ~MustRollBack(f)
        BY <1>10 DEF DeleteTemporary
    <2>2. \A g \in Files : g # f => backup'[g] = backup[g]
        BY <1>10 DEF DeleteTemporary
    <2>3. ASSUME marker = "committing" PROVE Original(f)
        BY <2>1, <2>3 DEF MustRollBack
    <2> QED
        BY <2>1, <2>2, <2>3
<1>11. ASSUME MakePlan PROVE Recoverability'
    BY <1>11, ContentsAssumption, BoundsAssumption DEF MakePlan, Entries
<1>12. ASSUME NothingToDo PROVE Recoverability'
    BY <1>12, ContentsAssumption, BoundsAssumption
    DEF NothingToDo, Unchanged, MayReplan, Stop, Write
<1>13. ASSUME BeginPreparing PROVE Recoverability'
    BY <1>13, ContentsAssumption, BoundsAssumption
    DEF BeginPreparing, Unchanged, WriteMarker, UncertainMarker, Fault
<1>14. ASSUME Verify PROVE Recoverability'
    BY <1>14, ContentsAssumption, BoundsAssumption
    DEF Verify, WellPrepared, Unchanged, Fail
<1>15. ASSUME StopObs PROVE Recoverability'
    BY <1>15, ContentsAssumption, BoundsAssumption
    DEF StopObs, Unchanged, MayReplan, Stop, Write, Fail
<1>16. ASSUME ConfirmStopped PROVE Recoverability'
    BY <1>16, ContentsAssumption, BoundsAssumption
    DEF ConfirmStopped, Unchanged, AsAfterStop
<1>17. ASSUME StopRefused PROVE Recoverability'
    BY <1>17, ContentsAssumption, BoundsAssumption
    DEF StopRefused, Fail, Unchanged, AsAfterStop, Fault
<1>18. ASSUME BeginCommitting PROVE Recoverability'
    BY <1>18, ContentsAssumption, BoundsAssumption
    DEF BeginCommitting, Unchanged, WriteMarker, UncertainMarker, Fault, Fail
<1>19. ASSUME ValidateTargets PROVE Recoverability'
    BY <1>19, ContentsAssumption, BoundsAssumption
    DEF ValidateTargets, AllDesired, Fail
<1>20. ASSUME Committed PROVE Recoverability'
    <2>1. pc = "committed" /\ UNCHANGED <<disk, backup, writes>> /\ journal = plan
        BY <1>20 DEF Committed, UncertainMarker, Fault
    <2>2. journal' = journal /\ marker' \in {marker, "committed"}
        BY <1>20, <2>1 DEF Committed, WriteMarker, UncertainMarker
    <2>3. ASSUME writes = 0 PROVE \A g \in DOMAIN journal : Desired(g)
        BY <2>1, <2>3
    <2> QED
        BY <2>1, <2>2, <2>3
<1>21. ASSUME HandleFailure PROVE Recoverability'
    BY <1>21, ContentsAssumption, BoundsAssumption DEF HandleFailure
<1>22. ASSUME NEW f \in Files, WriteTemporary(f) PROVE Recoverability'
    BY <1>22, ContentsAssumption, BoundsAssumption
    DEF WriteTemporary, PutTemporary, NeedsBackup, Fault
<1>23. ASSUME NEW f \in Files, Replace(f) PROVE Recoverability'
    BY <1>23, ContentsAssumption, BoundsAssumption
    DEF Replace, Replaceable, PutDesired
<1>24. ASSUME RecoveryRaises PROVE Recoverability'
    BY <1>24, ContentsAssumption, BoundsAssumption
    DEF RecoveryRaises, Raise, Fault
<1>25. ASSUME RunningObsRefused PROVE Recoverability'
    BY <1>25, ContentsAssumption, BoundsAssumption DEF RunningObsRefused
<1>26. ASSUME TemporaryRaises PROVE Recoverability'
    BY <1>26, ContentsAssumption, BoundsAssumption
    DEF TemporaryRaises, Fault, Fail, PutTemporary, NeedsBackup
<1>27. ASSUME ReplaceRaises PROVE Recoverability'
    BY <1>27, ContentsAssumption, BoundsAssumption
    DEF ReplaceRaises, Fault, Fail, Replaceable, PutDesired, Unchanged
<1>28. ASSUME BeginUpdate PROVE Recoverability'
    BY <1>28, ContentsAssumption, BoundsAssumption DEF BeginUpdate, Goto
<1>29. ASSUME Crash PROVE Recoverability'
    BY <1>29, ContentsAssumption, BoundsAssumption
    DEF Crash, PutTemporary, NeedsBackup
<1>30. ASSUME ObsWrites PROVE Recoverability'
    BY <1>30, ContentsAssumption, BoundsAssumption DEF ObsWrites, Write
<1>31. ASSUME ObsStarts PROVE Recoverability'
    BY <1>31, ContentsAssumption, BoundsAssumption DEF ObsStarts
<1>32. ASSUME ObsExits PROVE Recoverability'
    BY <1>32, ContentsAssumption, BoundsAssumption DEF ObsExits
<1>33. ASSUME UNCHANGED vars PROVE Recoverability'
    BY <1>33, ContentsAssumption, BoundsAssumption
<1> QED
    BY <1>1, <1>2, <1>3, <1>4, <1>5, <1>6, <1>7, <1>8, <1>9, <1>10, <1>11,
       <1>12, <1>13, <1>14, <1>15, <1>16, <1>17, <1>18, <1>19, <1>20, <1>21,
       <1>22, <1>23, <1>24, <1>25, <1>26, <1>27, <1>28, <1>29, <1>30, <1>31,
       <1>32, <1>33
    DEF Next, Recover, Transact, Exceptions

(* A step that changes a file replaces what the transaction knows.            *)
LEMMA ForeignStep ==
    ASSUME DataType, JournalInv, TemporariesInv, SnapshotInv, [Next]_vars
    PROVE  Kept
<1> USE DEF diskVars, procVars, envVars, vars, Same, Quiet, Leave, Drop,
            Unread, Kept
<1>1. ASSUME EnterClean PROVE Kept
    BY <1>1, FileFacts DEF EnterClean
<1>2. ASSUME EnterPending PROVE Kept
    BY <1>2, FileFacts DEF EnterPending
<1>3. ASSUME Inspect PROVE Kept
    BY <1>3, FileFacts DEF Inspect
<1>4. ASSUME InspectRefused PROVE Kept
    BY <1>4, FileFacts DEF InspectRefused, Raise
<1>5. ASSUME StopForRecovery PROVE Kept
    BY <1>5, FileFacts DEF StopForRecovery, Stop, Write
<1>6. ASSUME Recovered PROVE Kept
    BY <1>6, FileFacts DEF Recovered, Goto
<1>7. ASSUME DeleteMarker PROVE Kept
    BY <1>7, FileFacts DEF DeleteMarker, Goto
<1>8. ASSUME DeleteTemp PROVE Kept
    BY <1>8, FileFacts DEF DeleteTemp
<1>9. ASSUME NEW f \in Files, RollBack(f) PROVE Kept
    <2>1. f \in DOMAIN journal /\ (Original(f) \/ Desired(f))
        BY <1>9 DEF RollBack, TemporariesInv, MustRollBack, Recoverable
    <2> QED
        BY <1>9, <2>1, FileFacts DEF RollBack, Original, Desired
<1>10. ASSUME NEW f \in Files, DeleteTemporary(f) PROVE Kept
    BY <1>10, FileFacts DEF DeleteTemporary, MustRollBack
<1>11. ASSUME MakePlan PROVE Kept
    BY <1>11, FileFacts DEF MakePlan, Entries
<1>12. ASSUME NothingToDo PROVE Kept
    BY <1>12, FileFacts DEF NothingToDo, Unchanged, MayReplan, Stop, Write
<1>13. ASSUME BeginPreparing PROVE Kept
    BY <1>13, FileFacts
    DEF BeginPreparing, Unchanged, WriteMarker, UncertainMarker, Fault
<1>14. ASSUME Verify PROVE Kept
    BY <1>14, FileFacts DEF Verify, WellPrepared, Unchanged, Fail
<1>15. ASSUME StopObs PROVE Kept
    BY <1>15, FileFacts DEF StopObs, Unchanged, MayReplan, Stop, Write, Fail
<1>16. ASSUME ConfirmStopped PROVE Kept
    BY <1>16, FileFacts DEF ConfirmStopped, Unchanged, AsAfterStop
<1>17. ASSUME StopRefused PROVE Kept
    BY <1>17, FileFacts DEF StopRefused, Fail, Unchanged, AsAfterStop, Fault
<1>18. ASSUME BeginCommitting PROVE Kept
    BY <1>18, FileFacts
    DEF BeginCommitting, Unchanged, WriteMarker, UncertainMarker, Fault, Fail
<1>19. ASSUME ValidateTargets PROVE Kept
    BY <1>19, FileFacts DEF ValidateTargets, AllDesired, Fail
<1>20. ASSUME Committed PROVE Kept
    BY <1>20, FileFacts DEF Committed, WriteMarker, UncertainMarker, Fault
<1>21. ASSUME HandleFailure PROVE Kept
    BY <1>21, FileFacts DEF HandleFailure
<1>22. ASSUME NEW f \in Files, WriteTemporary(f) PROVE Kept
    BY <1>22, FileFacts DEF WriteTemporary, PutTemporary, NeedsBackup, Fault
<1>23. ASSUME NEW f \in Files, Replace(f) PROVE Kept
    <2>1. f \in DOMAIN journal /\ journal = plan /\ plan[f].original = snapshot[f]
        BY <1>23
        DEF Replace, TemporariesInv, JournalInv, SnapshotInv, Replacing
    <2> QED
        BY <1>23, <2>1, FileFacts DEF Replace, Replaceable, PutDesired
<1>24. ASSUME RecoveryRaises PROVE Kept
    BY <1>24, FileFacts DEF RecoveryRaises, Raise, Fault
<1>25. ASSUME RunningObsRefused PROVE Kept
    BY <1>25, FileFacts DEF RunningObsRefused
<1>26. ASSUME TemporaryRaises PROVE Kept
    BY <1>26, FileFacts
    DEF TemporaryRaises, Fault, Fail, PutTemporary, NeedsBackup
<1>27. ASSUME ReplaceRaises PROVE Kept
    <2>1. \A g \in todo : g \in DOMAIN journal /\ plan[g].original = snapshot[g]
        BY <1>27
        DEF ReplaceRaises, TemporariesInv, JournalInv, SnapshotInv, Replacing
    <2>2. journal = plan
        BY <1>27 DEF ReplaceRaises, JournalInv, Replacing
    <2> QED
        BY <1>27, <2>1, <2>2, FileFacts
        DEF ReplaceRaises, Replaceable, PutDesired
<1>28. ASSUME BeginUpdate PROVE Kept
    BY <1>28, FileFacts DEF BeginUpdate, Goto
<1>29. ASSUME Crash PROVE Kept
    BY <1>29, FileFacts DEF Crash, PutTemporary, NeedsBackup
<1>30. ASSUME ObsWrites PROVE Kept
    BY <1>30, FileFacts DEF ObsWrites, Write
<1>31. ASSUME ObsStarts PROVE Kept
    BY <1>31, FileFacts DEF ObsStarts
<1>32. ASSUME ObsExits PROVE Kept
    BY <1>32, FileFacts DEF ObsExits
<1>33. ASSUME UNCHANGED vars PROVE Kept
    BY <1>33, FileFacts
<1> QED
    BY <1>1, <1>2, <1>3, <1>4, <1>5, <1>6, <1>7, <1>8, <1>9, <1>10, <1>11,
       <1>12, <1>13, <1>14, <1>15, <1>16, <1>17, <1>18, <1>19, <1>20, <1>21,
       <1>22, <1>23, <1>24, <1>25, <1>26, <1>27, <1>28, <1>29, <1>30, <1>31,
       <1>32, <1>33
    DEF Next, Recover, Transact, Exceptions

-----------------------------------------------------------------------------
(* The initial states satisfy the invariant.                                 *)
LEMMA InitInv == Init => IInv
<1> SUFFICES ASSUME Init PROVE IInv
    OBVIOUS
<1> USE DEF Init
<1>1. BoolType
    BY DEF BoolType
<1>2. DataType
    BY ContentsAssumption, BoundsAssumption, EmptyPlan
    DEF DataType, Temporaries, PCs, None, Unread
<1>3. JournalInv /\ TemporariesInv
    BY DEF JournalInv, TemporariesInv, NoTemporaries, None, NoEntries,
       Planning, Preparing,
           Replacing, Pending
<1>4. BackupInv /\ SnapshotInv /\ Recoverability
    BY DEF BackupInv, SnapshotInv, Recoverability, Planning, Preparing,
       Replacing
<1> QED
    BY <1>1, <1>2, <1>3, <1>4 DEF IInv, TypeOK

(* Every step keeps it.                                                      *)
LEMMA StepInv == IInv /\ [Next]_vars => IInv'
<1> SUFFICES ASSUME IInv, [Next]_vars PROVE IInv'
    OBVIOUS
<1>1. BoolType /\ DataType
    BY DEF IInv, TypeOK
<1>2. JournalInv /\ TemporariesInv /\ BackupInv /\ SnapshotInv /\ Recoverability
    BY DEF IInv
<1>3. BoolType' /\ DataType'
    BY <1>1, <1>2, BoolStep, DataStep
<1>4. JournalInv' /\ TemporariesInv'
    BY <1>1, <1>2, JournalStep, TemporariesStep
<1>5. BackupInv' /\ SnapshotInv' /\ Recoverability'
    BY <1>1, <1>2, BackupStep, SnapshotStep, RecoverStep
<1> QED
    BY <1>3, <1>4, <1>5 DEF IInv, TypeOK

(* The inductive invariant of the settings transaction.                      *)
THEOREM Invariance == Spec => []IInv
<1>1. Init => IInv
    BY InitInv
<1>2. IInv /\ [Next]_vars => IInv'
    BY StepInv
<1> QED
    BY <1>1, <1>2, PTL DEF Spec

(* Every variable keeps its type.                                            *)
THEOREM TypeCorrect == Spec => []TypeOK
<1>1. IInv => TypeOK
    BY DEF IInv
<1> QED
    BY <1>1, Invariance, PTL

(* No temporary outlives its journal: an update is never refused for one     *)
(* (_recover_orphaned_settings_journal_temporary).                           *)
THEOREM NothingOrphaned == Spec => []NoOrphans
<1>1. IInv => NoOrphans
    BY DEF IInv, JournalInv, NoOrphans
<1> QED
    BY <1>1, Invariance, PTL

(* Unless somebody else writes a file, a pending journal can be recovered    *)
(* after any number of crashes and exceptions                                *)
(* (_preflight_settings_recovery_targets never refuses).                     *)
THEOREM AlwaysRecoverable == Spec => []Recoverability
<1>1. IInv => Recoverability
    BY DEF IInv
<1> QED
    BY <1>1, Invariance, PTL

(* What somebody else wrote is never overwritten (_replace_settings_temporary *)
(* and the rollback compare before they replace).                            *)
THEOREM ForeignKept == Spec => ForeignContentsKept
<1>1. IInv /\ [Next]_vars => Kept
    BY ForeignStep DEF IInv, TypeOK
<1>2. [][Kept]_vars => ForeignContentsKept
    BY PTL DEF ForeignContentsKept, Kept
<1> QED
    BY <1>1, <1>2, Invariance, PTL DEF Spec

(* A healthy OBS is stopped only for a transaction whose backups and desired *)
(* contents are all durable and exact (the read-back before before_commit).  *)
THEOREM StoppedOnlyPrepared == Spec => []StopOnlyPrepared
<1>1. IInv => StopOnlyPrepared
    BY DEF IInv, JournalInv, BackupInv, BackedUp, Preparing, Replacing,
       StopOnlyPrepared
<1> QED
    BY <1>1, Invariance, PTL

-----------------------------------------------------------------------------
(* SettingsTransaction implements AtomicSettings for every set of files and  *)
(* contents and any number of crashes, faults and writes of others.          *)

(* A commit reaches its last phase with every file as planned, and a         *)
(* recovery has rolled back the files it is done with, but for a late write. *)
CommitInv ==
    /\ pc = "committed" /\ ~late => AllDesired
    /\ pc = "deleteMarker" => todo = {}
    /\ pc \in {"recover", "deleteMarker"} /\ marker = "committing" /\ ~late =>
         \A f \in DOMAIN journal \ todo : Original(f)

AInv == IInv /\ CommitInv

-----------------------------------------------------------------------------

(* The commit, and the recovery, account for every file.                     *)
LEMMA CommitStep ==
    ASSUME DataType, JournalInv, TemporariesInv, CommitInv, [Next]_vars
    PROVE  CommitInv'
<1> USE DEF diskVars, procVars, envVars, vars, Same, Quiet, Leave, Drop,
            Unread, JournalInv, Planning, Preparing, Replacing, Pending,
            CommitInv, TemporariesInv, Original
<1>1. ASSUME EnterClean PROVE CommitInv'
    BY <1>1 DEF EnterClean
<1>2. ASSUME EnterPending PROVE CommitInv'
    BY <1>2 DEF EnterPending
<1>3. ASSUME Inspect PROVE CommitInv'
    BY <1>3 DEF Inspect
<1>4. ASSUME InspectRefused PROVE CommitInv'
    BY <1>4 DEF InspectRefused, Raise
<1>5. ASSUME StopForRecovery PROVE CommitInv'
    BY <1>5 DEF StopForRecovery, Stop, Write
<1>6. ASSUME Recovered PROVE CommitInv'
    BY <1>6 DEF Recovered, Goto
<1>7. ASSUME DeleteMarker PROVE CommitInv'
    BY <1>7 DEF DeleteMarker, Goto
<1>8. ASSUME DeleteTemp PROVE CommitInv'
    BY <1>8 DEF DeleteTemp
<1>9. ASSUME NEW f \in Files, RollBack(f) PROVE CommitInv'
    BY <1>9 DEF RollBack, MustRollBack
<1>10. ASSUME NEW f \in Files, DeleteTemporary(f) PROVE CommitInv'
    BY <1>10 DEF DeleteTemporary, MustRollBack
<1>11. ASSUME MakePlan PROVE CommitInv'
    BY <1>11 DEF MakePlan, Entries
<1>12. ASSUME NothingToDo PROVE CommitInv'
    BY <1>12 DEF NothingToDo, Unchanged, MayReplan, Stop, Write
<1>13. ASSUME BeginPreparing PROVE CommitInv'
    BY <1>13 DEF BeginPreparing, Unchanged, WriteMarker, UncertainMarker, Fault
<1>14. ASSUME Verify PROVE CommitInv'
    BY <1>14 DEF Verify, WellPrepared, Unchanged, Fail
<1>15. ASSUME StopObs PROVE CommitInv'
    BY <1>15 DEF StopObs, Unchanged, MayReplan, Stop, Write, Fail
<1>16. ASSUME ConfirmStopped PROVE CommitInv'
    BY <1>16 DEF ConfirmStopped, Unchanged, AsAfterStop
<1>17. ASSUME StopRefused PROVE CommitInv'
    BY <1>17 DEF StopRefused, Fail, Unchanged, AsAfterStop, Fault
<1>18. ASSUME BeginCommitting PROVE CommitInv'
    BY <1>18
    DEF BeginCommitting, Unchanged, WriteMarker, UncertainMarker, Fault, Fail
<1>19. ASSUME ValidateTargets PROVE CommitInv'
    BY <1>19 DEF ValidateTargets, AllDesired, Fail
<1>20. ASSUME Committed PROVE CommitInv'
    BY <1>20 DEF Committed, WriteMarker, UncertainMarker, Fault
<1>21. ASSUME HandleFailure PROVE CommitInv'
    BY <1>21 DEF HandleFailure
<1>22. ASSUME NEW f \in Files, WriteTemporary(f) PROVE CommitInv'
    BY <1>22 DEF WriteTemporary, PutTemporary, NeedsBackup, Fault
<1>23. ASSUME NEW f \in Files, Replace(f) PROVE CommitInv'
    BY <1>23 DEF Replace, Replaceable, PutDesired
<1>24. ASSUME RecoveryRaises PROVE CommitInv'
    BY <1>24 DEF RecoveryRaises, Raise, Fault
<1>25. ASSUME RunningObsRefused PROVE CommitInv'
    BY <1>25 DEF RunningObsRefused
<1>26. ASSUME TemporaryRaises PROVE CommitInv'
    BY <1>26 DEF TemporaryRaises, Fault, Fail, PutTemporary, NeedsBackup
<1>27. ASSUME ReplaceRaises PROVE CommitInv'
    BY <1>27 DEF ReplaceRaises, Fault, Fail, Replaceable, PutDesired, Unchanged
<1>28. ASSUME BeginUpdate PROVE CommitInv'
    BY <1>28 DEF BeginUpdate, Goto
<1>29. ASSUME Crash PROVE CommitInv'
    BY <1>29 DEF Crash, PutTemporary, NeedsBackup
<1>30. ASSUME ObsWrites PROVE CommitInv'
    <2>1. PICK f \in Files, c \in Contents :
              disk' = [disk EXCEPT ![f] = c] /\ late' = (late \/ Unseen(f))
        BY <1>30 DEF ObsWrites, Write
    <2>2. UNCHANGED <<marker, journal, procVars>>
        BY <1>30 DEF ObsWrites
    <2>3. CASE Unseen(f)
        BY <2>1, <2>2, <2>3
    <2>4. CASE ~Unseen(f)
      <3>1. pc # "committed" /\ (late' <=> late)
          BY <2>1, <2>4 DEF Unseen
      <3>2. ASSUME pc \in {"recover", "deleteMarker"}, marker = "committing",
                   NEW g \in DOMAIN journal \ todo
            PROVE  disk'[g] = disk[g]
        <4>1. g # f
            BY <2>4, <3>2 DEF Unseen
        <4> QED
            BY <2>1, <4>1 DEF DataType, IsPlan
      <3> QED
          BY <2>2, <3>1, <3>2
    <2> QED
        BY <2>3, <2>4
<1>31. ASSUME ObsStarts PROVE CommitInv'
    BY <1>31 DEF ObsStarts, AllDesired
<1>32. ASSUME ObsExits PROVE CommitInv'
    BY <1>32 DEF ObsExits, AllDesired
<1>33. ASSUME UNCHANGED vars PROVE CommitInv'
    BY <1>33 DEF AllDesired
<1> QED
    BY <1>1, <1>2, <1>3, <1>4, <1>5, <1>6, <1>7, <1>8, <1>9, <1>10, <1>11,
       <1>12, <1>13, <1>14, <1>15, <1>16, <1>17, <1>18, <1>19, <1>20, <1>21,
       <1>22, <1>23, <1>24, <1>25, <1>26, <1>27, <1>28, <1>29, <1>30, <1>31,
       <1>32, <1>33
    DEF Next, Recover, Transact, Exceptions

(* The initial states satisfy the invariant.                                 *)
LEMMA InitAInv == Init => AInv
<1>1. Init => CommitInv
    BY DEF Init, CommitInv
<1> QED
    BY <1>1, InitInv DEF AInv

(* Every step keeps it.                                                      *)
LEMMA StepAInv == AInv /\ [Next]_vars => AInv'
<1> SUFFICES ASSUME AInv, [Next]_vars PROVE AInv'
    OBVIOUS
<1>1. IInv'
    BY StepInv DEF AInv
<1>2. CommitInv'
    BY CommitStep DEF AInv, IInv, TypeOK
<1> QED
    BY <1>1, <1>2 DEF AInv

-----------------------------------------------------------------------------
(* The mapping.  Planned is the plan AtomicSettings sees, Mapped what a step *)
(* has to show.                                                              *)
Planned == IF InProgress THEN [base |-> snapshot, new |-> [f \in DOMAIN plan |-> plan[f].new]]
                         ELSE NoEntries
Steps == {"preparing", "temporaries", "stop", "committing", "replace", "committed"}
Mapped == [Atomic!Next]_<<Logical, Planned, writes, late>>
PlanKept == (InProgress' <=> InProgress) /\ UNCHANGED <<snapshot, plan>>

(* A step that leaves the value and drops or keeps the plan is allowed.      *)
LEMMA KeepOrDrop ==
    ASSUME UNCHANGED <<Logical, writes, late>>, PlanKept \/ pc' \notin Steps
    PROVE  Mapped
<1>1. CASE PlanKept
    BY <1>1 DEF Mapped, Planned, PlanKept
<1>2. CASE pc' \notin Steps
  <2>1. Planned' = NoEntries
      BY <1>2 DEF Planned, InProgress, Steps
  <2> QED
      BY <2>1
      DEF Mapped, Planned, Atomic!Next, Atomic!Abandon, Atomic!Nothing,
          NoEntries
<1> QED
    BY <1>1, <1>2

(* Neither the files nor the journal changed: nor did the value.             *)
LEMMA ValueKept ==
    ASSUME UNCHANGED <<disk, marker, journal>>
    PROVE  Logical' = Logical
BY DEF Logical, Desired

(* The only change of a file that others make is counted.                    *)
NoWrite == UNCHANGED <<writes, late>>
WriteOf(f, c) == /\ disk' = [disk EXCEPT ![f] = c]
                 /\ writes' = writes + 1 /\ late' \in {late, TRUE}
SomeWrite == \E f \in Files, c \in Contents : WriteOf(f, c)

(* OBS writes no other way.                                                  *)
LEMMA WriteIsSome ==
    ASSUME BoolType, Write
    PROVE  SomeWrite
<1>1. PICK f \in Files, c \in Contents :
          disk' = [disk EXCEPT ![f] = c] /\ late' = (late \/ Unseen(f))
    BY DEF Write
<1>2. late' \in {late, TRUE}
    BY <1>1 DEF BoolType, Unseen
<1>3. writes' = writes + 1
    BY DEF Write
<1> QED
    BY <1>1, <1>2, <1>3 DEF SomeWrite, WriteOf

(* A file was written from outside.                                          *)
LEMMA Written ==
    ASSUME DataType, UNCHANGED <<marker, journal>>,
           PlanKept \/ pc' \notin Steps,
           SomeWrite
    PROVE  Mapped
<1> PICK f \in Files, c \in Contents : WriteOf(f, c)
    BY DEF SomeWrite
<1>1. Logical' = [Logical EXCEPT ![f] = Logical'[f]]
    BY DEF DataType, Logical, Desired, WriteOf
<1>2. Logical'[f] \in Contents
  <2>1. ASSUME f \in DOMAIN journal PROVE journal[f].original \in Contents
      BY <2>1, PlanEntry DEF DataType
  <2> QED
      BY <2>1 DEF DataType, Logical, Desired, WriteOf
<1>3. Planned' \in {Planned, NoEntries}
    BY DEF Planned, PlanKept, InProgress, Steps
<1> QED
    BY <1>1, <1>2, <1>3
    DEF Mapped, Planned, Atomic!Next, Atomic!Outside, Atomic!Nothing,
        NoEntries, WriteOf

(* A plan is never mistaken for none.                                        *)
LEMMA PlanIsSomething == InProgress => Planned # NoEntries
<1>1. \A x, y : DOMAIN [base |-> x, new |-> y] # {}
    OBVIOUS
<1> QED
    BY <1>1, EmptyPlan DEF Planned

(* Every step maps to a step of AtomicSettings, or to none.                   *)
LEMMA MapStep ==
    ASSUME AInv, [Next]_vars
    PROVE  Mapped
<1> USE DEF diskVars, procVars, envVars, vars, Same, Quiet, Leave, Drop,
            Unread, PlanKept, InProgress, Steps, NoWrite
<1>1. ASSUME EnterClean PROVE Mapped
    <2>1. UNCHANGED <<disk, marker, journal>> /\ NoWrite
        BY <1>1 DEF EnterClean
    <2>2. PlanKept \/ pc' \notin Steps
        BY <1>1 DEF EnterClean
    <2> QED
        BY <2>1, <2>2, ValueKept, KeepOrDrop
<1>2. ASSUME EnterPending PROVE Mapped
    <2>1. UNCHANGED <<disk, marker, journal>> /\ NoWrite
        BY <1>2 DEF EnterPending
    <2>2. PlanKept \/ pc' \notin Steps
        BY <1>2 DEF EnterPending
    <2> QED
        BY <2>1, <2>2, ValueKept, KeepOrDrop
<1>3. ASSUME Inspect PROVE Mapped
    <2>1. UNCHANGED <<disk, marker, journal>> /\ NoWrite
        BY <1>3 DEF Inspect
    <2>2. PlanKept \/ pc' \notin Steps
        BY <1>3 DEF Inspect
    <2> QED
        BY <2>1, <2>2, ValueKept, KeepOrDrop
<1>4. ASSUME InspectRefused PROVE Mapped
    <2>1. UNCHANGED <<disk, marker, journal>> /\ NoWrite
        BY <1>4 DEF InspectRefused, Raise
    <2>2. PlanKept \/ pc' \notin Steps
        BY <1>4 DEF InspectRefused, Raise
    <2> QED
        BY <2>1, <2>2, ValueKept, KeepOrDrop
<1>5. ASSUME StopForRecovery PROVE Mapped
    <2>1. UNCHANGED <<marker, journal>>
        BY <1>5 DEF StopForRecovery
    <2>2. PlanKept \/ pc' \notin Steps
        BY <1>5 DEF StopForRecovery
    <2>3. (disk' = disk /\ NoWrite) \/ SomeWrite
        BY <1>5, WriteIsSome DEF StopForRecovery, Stop, AInv, IInv, TypeOK
    <2> QED
        BY <2>1, <2>2, <2>3, ValueKept, KeepOrDrop, Written
        DEF AInv, IInv, TypeOK
<1>6. ASSUME Recovered PROVE Mapped
    <2>1. UNCHANGED <<disk, marker, journal>> /\ NoWrite
        BY <1>6 DEF Recovered, Goto
    <2>2. PlanKept \/ pc' \notin Steps
        BY <1>6 DEF Recovered, Goto
    <2> QED
        BY <2>1, <2>2, ValueKept, KeepOrDrop
<1>7. ASSUME DeleteMarker PROVE Mapped
    <2>1. /\ pc = "deleteMarker" /\ pc' = "deleteTemp" /\ marker' = "none" /\ disk' = disk
          /\ UNCHANGED writes /\ late' = FALSE
        BY <1>7 DEF DeleteMarker, Goto
    <2>2. CASE late
      <3>1. Logical' \in [Files -> Contents]
          BY <2>1 DEF Logical, AInv, IInv, TypeOK, DataType
      <3>2. Planned' = NoEntries
          BY <2>1 DEF Planned
      <3> QED
          BY <2>1, <2>2, <3>1, <3>2
          DEF Mapped, Atomic!Next, Atomic!Overrun, Atomic!Nothing, NoEntries
    <2>3. CASE ~late
      <3>1. ASSUME marker = "committing", NEW g \in DOMAIN journal PROVE ~Desired(g)
        <4>1. disk[g] = journal[g].original
            BY <2>1, <2>3, <3>1 DEF AInv, CommitInv, Original
        <4>2. journal[g].new # journal[g].original
            BY PlanEntry DEF AInv, IInv, TypeOK, DataType
        <4> QED
            BY <4>1, <4>2 DEF Desired
      <3>2. Logical' = Logical
          BY <2>1, <3>1 DEF Logical
      <3>3. late' = late
          BY <2>1, <2>3 DEF AInv, IInv, TypeOK, BoolType
      <3> QED
          BY <2>1, <3>2, <3>3, KeepOrDrop
    <2> QED
        BY <2>2, <2>3
<1>8. ASSUME DeleteTemp PROVE Mapped
    <2>1. UNCHANGED <<disk, marker, journal>> /\ NoWrite
        BY <1>8 DEF DeleteTemp
    <2>2. PlanKept \/ pc' \notin Steps
        BY <1>8 DEF DeleteTemp
    <2> QED
        BY <2>1, <2>2, ValueKept, KeepOrDrop
<1>9. ASSUME NEW f \in Files, RollBack(f) PROVE Mapped
    <2>1. /\ f \in DOMAIN journal /\ marker = "committing" /\ Desired(f)
          /\ disk' = [disk EXCEPT ![f] = journal[f].original]
          /\ UNCHANGED <<marker, journal>> /\ PlanKept /\ NoWrite
        BY <1>9
        DEF RollBack, MustRollBack, Recoverable, AInv, IInv, TemporariesInv
    <2>2. disk \in [Files -> Contents] /\ journal[f].new # journal[f].original
        BY <2>1, PlanEntry DEF AInv, IInv, TypeOK, DataType
    <2>3. Logical' = Logical
        BY <2>1, <2>2 DEF Logical, Desired
    <2> QED
        BY <2>3, <2>1, KeepOrDrop
<1>10. ASSUME NEW f \in Files, DeleteTemporary(f) PROVE Mapped
    <2>1. UNCHANGED <<disk, marker, journal>> /\ NoWrite
        BY <1>10 DEF DeleteTemporary
    <2>2. PlanKept \/ pc' \notin Steps
        BY <1>10 DEF DeleteTemporary
    <2> QED
        BY <2>1, <2>2, ValueKept, KeepOrDrop
<1>11. ASSUME MakePlan PROVE Mapped
    <2>1. PICK after \in [Files -> Contents] :
              LET W == {f \in Files : after[f] # disk[f]} IN
              /\ \A f \in W : after[f] # Absent
              /\ plan' = Entries(W, disk, after)
              /\ pc' = IF W = {} THEN "noop" ELSE "preparing"
        BY <1>11 DEF MakePlan
    <2> DEFINE W == {f \in Files : after[f] # disk[f]}
               new == [f \in W |-> after[f]]
    <2>2. pc = "plan" /\ snapshot' = disk /\ UNCHANGED <<disk, marker, journal>> /\ NoWrite
        BY <1>11 DEF MakePlan
    <2>3. Logical' = Logical
        BY <2>2, ValueKept
    <2>4. CASE pc' = "noop"
        BY <2>2, <2>3, <2>4, KeepOrDrop
    <2>5. CASE pc' = "preparing"
      <3>1. marker = "none" /\ disk \in [Files -> Contents]
          BY <2>2 DEF AInv, IInv, TypeOK, DataType, JournalInv, Planning
      <3>2. Logical = disk
          BY <3>1 DEF Logical
      <3>3. plan' = [f \in W |-> [original |-> disk[f], new |-> after[f]]]
          BY <2>1 DEF Entries
      <3>4. [f \in DOMAIN plan' |-> plan'[f].new] = new
          BY <3>3
      <3>5. Planned = NoEntries
          BY <2>2 DEF Planned
      <3>6. Planned' = [base |-> Logical, new |-> new]
          BY <2>2, <2>5, <3>2, <3>4 DEF Planned
      <3>7. W \in SUBSET Files /\ new \in [W -> Contents]
          OBVIOUS
      <3> HIDE DEF W, new
      <3> QED
          BY <2>2, <2>3, <3>5, <3>6, <3>7
          DEF Mapped, Planned, Atomic!Next, Atomic!Begin, Atomic!Plan, Atomic!Nothing, NoEntries
    <2> QED
        BY <2>1, <2>4, <2>5
<1>12. ASSUME NothingToDo PROVE Mapped
    <2>1. UNCHANGED <<marker, journal>>
        BY <1>12 DEF NothingToDo
    <2>2. PlanKept \/ pc' \notin Steps
        BY <1>12 DEF NothingToDo
    <2>3. (disk' = disk /\ NoWrite) \/ SomeWrite
        BY <1>12, WriteIsSome DEF NothingToDo, Stop, AInv, IInv, TypeOK
    <2> QED
        BY <2>1, <2>2, <2>3, ValueKept, KeepOrDrop, Written
        DEF AInv, IInv, TypeOK
<1>13. ASSUME BeginPreparing PROVE Mapped
    <2>1. pc = "preparing" /\ disk' = disk /\ marker' \in {marker, "preparing"} /\ NoWrite
        BY <1>13 DEF BeginPreparing, WriteMarker, UncertainMarker, Fault
    <2>2. marker = "none"
        BY <2>1 DEF AInv, IInv, JournalInv, Planning
    <2>3. Logical' = Logical
        BY <2>1, <2>2 DEF Logical
    <2>4. PlanKept \/ pc' \notin Steps
        BY <1>13 DEF BeginPreparing
    <2> QED
        BY <2>1, <2>3, <2>4, KeepOrDrop
<1>14. ASSUME Verify PROVE Mapped
    <2>1. UNCHANGED <<disk, marker, journal>> /\ NoWrite
        BY <1>14 DEF Verify, Fail
    <2>2. PlanKept \/ pc' \notin Steps
        BY <1>14 DEF Verify, Fail
    <2> QED
        BY <2>1, <2>2, ValueKept, KeepOrDrop
<1>15. ASSUME StopObs PROVE Mapped
    <2>1. UNCHANGED <<marker, journal>>
        BY <1>15 DEF StopObs
    <2>2. PlanKept \/ pc' \notin Steps
        BY <1>15 DEF StopObs, Fail
    <2>3. (disk' = disk /\ NoWrite) \/ SomeWrite
        BY <1>15, WriteIsSome DEF StopObs, Stop, AInv, IInv, TypeOK
    <2> QED
        BY <2>1, <2>2, <2>3, ValueKept, KeepOrDrop, Written
        DEF AInv, IInv, TypeOK
<1>16. ASSUME ConfirmStopped PROVE Mapped
    <2>1. UNCHANGED <<disk, marker, journal>> /\ NoWrite
        BY <1>16 DEF ConfirmStopped
    <2>2. PlanKept \/ pc' \notin Steps
        BY <1>16 DEF ConfirmStopped
    <2> QED
        BY <2>1, <2>2, ValueKept, KeepOrDrop
<1>17. ASSUME StopRefused PROVE Mapped
    <2>1. UNCHANGED <<disk, marker, journal>> /\ NoWrite
        BY <1>17 DEF StopRefused, Fail, Fault
    <2>2. PlanKept \/ pc' \notin Steps
        BY <1>17 DEF StopRefused, Fail
    <2> QED
        BY <2>1, <2>2, ValueKept, KeepOrDrop
<1>18. ASSUME BeginCommitting PROVE Mapped
    <2>1. pc = "committing" /\ disk' = disk /\ NoWrite
        BY <1>18 DEF BeginCommitting, UncertainMarker, Fault
    <2>2. \/ UNCHANGED <<marker, journal>>
          \/ marker' = "committing" /\ journal' = plan /\ Unchanged
        BY <1>18 DEF BeginCommitting, WriteMarker, UncertainMarker
    <2>3. marker = "preparing"
        BY <2>1 DEF AInv, IInv, JournalInv, Preparing
    <2>4. ASSUME Unchanged, NEW g \in DOMAIN plan PROVE disk[g] # plan[g].new
      <3>1. g \in Files /\ plan[g].new # plan[g].original
          BY PlanEntry DEF AInv, IInv, TypeOK, DataType
      <3>2. plan[g].original = snapshot[g]
          BY <2>1 DEF AInv, IInv, SnapshotInv, Preparing
      <3> QED
          BY <3>1, <3>2, <2>4 DEF Unchanged
    <2>5. Logical' = Logical
        BY <2>1, <2>2, <2>3, <2>4 DEF Logical, Desired
    <2>6. PlanKept \/ pc' \notin Steps
        BY <1>18 DEF BeginCommitting, Fail
    <2> QED
        BY <2>1, <2>5, <2>6, KeepOrDrop
<1>19. ASSUME ValidateTargets PROVE Mapped
    <2>1. UNCHANGED <<disk, marker, journal>> /\ NoWrite
        BY <1>19 DEF ValidateTargets, Fail
    <2>2. PlanKept \/ pc' \notin Steps
        BY <1>19 DEF ValidateTargets, Fail
    <2> QED
        BY <2>1, <2>2, ValueKept, KeepOrDrop
<1>20. ASSUME Committed PROVE Mapped
    <2>1. /\ pc = "committed" /\ pc' \in {"inspect", "idle"} /\ disk' = disk /\ NoWrite
          /\ \/ UNCHANGED <<marker, journal>>
             \/ marker' = "committed" /\ journal' = plan
        BY <1>20 DEF Committed, WriteMarker, UncertainMarker, Fault
    <2>2. CASE UNCHANGED <<marker, journal>>
        BY <2>1, <2>2, ValueKept, KeepOrDrop
    <2>3. CASE marker' = "committed" /\ journal' = plan /\ late
      <3>1. Logical' \in [Files -> Contents]
          BY <2>1, <2>3 DEF Logical, AInv, IInv, TypeOK, DataType
      <3>2. Planned' = NoEntries
          BY <2>1 DEF Planned
      <3>3. late' \in BOOLEAN
          BY <2>1, <2>3
      <3> QED
          BY <2>1, <2>3, <3>1, <3>2, <3>3
          DEF Mapped, Atomic!Next, Atomic!Overrun, Atomic!Nothing, NoEntries
    <2>4. CASE marker' = "committed" /\ journal' = plan /\ ~late
      <3>1. marker = "committing" /\ journal = plan /\ disk \in [Files -> Contents]
            /\ snapshot \in [Files -> Contents] /\ AllDesired
          BY <2>1, <2>4
          DEF AInv, IInv, TypeOK, DataType, JournalInv, Replacing, CommitInv
      <3>2. \A g \in DOMAIN plan : plan[g].original = snapshot[g]
          BY <2>1 DEF AInv, IInv, SnapshotInv, Replacing
      <3>3. Logical = snapshot
          BY <3>1, <3>2 DEF Logical, Desired, AllDesired
      <3> DEFINE new == [f \in DOMAIN plan |-> plan[f].new]
      <3>4. Logical' = [f \in Files |-> IF f \in DOMAIN new THEN new[f] ELSE Logical[f]]
          BY <2>1, <2>4, <3>1, <3>3 DEF Logical, AllDesired
      <3>5. Planned = [base |-> snapshot, new |-> new]
          BY <2>1 DEF Planned
      <3>6. Planned.base = Logical /\ Planned.new = new
          BY <3>3, <3>5
      <3>7. Planned # NoEntries /\ Planned' = NoEntries
          BY <2>1, PlanIsSomething DEF Planned
      <3> HIDE DEF new
      <3> QED
          BY <2>1, <3>4, <3>6, <3>7
          DEF Mapped, Planned, Atomic!Next, Atomic!Commit, Atomic!Nothing, NoEntries
    <2> QED
        BY <2>1, <2>2, <2>3, <2>4
<1>21. ASSUME HandleFailure PROVE Mapped
    <2>1. UNCHANGED <<disk, marker, journal>> /\ NoWrite
        BY <1>21 DEF HandleFailure
    <2>2. PlanKept \/ pc' \notin Steps
        BY <1>21 DEF HandleFailure
    <2> QED
        BY <2>1, <2>2, ValueKept, KeepOrDrop
<1>22. ASSUME NEW f \in Files, WriteTemporary(f) PROVE Mapped
    <2>1. UNCHANGED <<disk, marker, journal>> /\ NoWrite
        BY <1>22 DEF WriteTemporary, Fault
    <2>2. PlanKept \/ pc' \notin Steps
        BY <1>22 DEF WriteTemporary
    <2> QED
        BY <2>1, <2>2, ValueKept, KeepOrDrop
<1>23. ASSUME NEW f \in Files, Replace(f) PROVE Mapped
    <2>1. /\ pc = "replace" /\ marker = "committing" /\ journal = plan /\ marker' = "committing"
          /\ journal' = journal /\ todo \subseteq DOMAIN journal /\ NoWrite
        BY <1>23 DEF Replace, AInv, IInv, JournalInv, TemporariesInv, Replacing
    <2>2. disk' = disk \/ \E g \in todo : Replaceable(g) /\ PutDesired(g)
        BY <1>23 DEF Replace
    <2>3. ASSUME NEW g \in todo, Replaceable(g), PutDesired(g) PROVE Logical' = Logical
      <3>1. g \in DOMAIN plan /\ disk[g] = plan[g].original
          BY <2>1, <2>3 DEF Replaceable, AInv, IInv, SnapshotInv, Replacing
      <3>2. plan[g].new # plan[g].original /\ g \in Files
          BY <3>1, PlanEntry DEF AInv, IInv, TypeOK, DataType
      <3>3. disk \in [Files -> Contents] /\ disk' = [disk EXCEPT ![g] = plan[g].new]
          BY <2>3 DEF PutDesired, AInv, IInv, TypeOK, DataType
      <3> QED
          BY <2>1, <3>1, <3>2, <3>3 DEF Logical, Desired
    <2>4. Logical' = Logical
        BY <2>1, <2>2, <2>3, ValueKept
    <2>5. PlanKept \/ pc' \notin Steps
        BY <1>23 DEF Replace, Fail
    <2> QED
        BY <2>1, <2>4, <2>5, KeepOrDrop
<1>24. ASSUME RecoveryRaises PROVE Mapped
    <2>1. UNCHANGED <<disk, marker, journal>> /\ NoWrite
        BY <1>24 DEF RecoveryRaises, Raise, Fault
    <2>2. PlanKept \/ pc' \notin Steps
        BY <1>24 DEF RecoveryRaises, Raise
    <2> QED
        BY <2>1, <2>2, ValueKept, KeepOrDrop
<1>25. ASSUME RunningObsRefused PROVE Mapped
    <2>1. UNCHANGED <<disk, marker, journal>> /\ NoWrite
        BY <1>25 DEF RunningObsRefused
    <2>2. PlanKept \/ pc' \notin Steps
        BY <1>25 DEF RunningObsRefused
    <2> QED
        BY <2>1, <2>2, ValueKept, KeepOrDrop
<1>26. ASSUME TemporaryRaises PROVE Mapped
    <2>1. UNCHANGED <<disk, marker, journal>> /\ NoWrite
        BY <1>26 DEF TemporaryRaises, Fail, Fault
    <2>2. PlanKept \/ pc' \notin Steps
        BY <1>26 DEF TemporaryRaises, Fail
    <2> QED
        BY <2>1, <2>2, ValueKept, KeepOrDrop
<1>27. ASSUME ReplaceRaises PROVE Mapped
    <2>1. /\ pc = "replace" /\ marker = "committing" /\ journal = plan /\ marker' = "committing"
          /\ journal' = journal /\ todo \subseteq DOMAIN journal /\ NoWrite
        BY <1>27
        DEF ReplaceRaises, Fault, AInv, IInv, JournalInv, TemporariesInv, Replacing
    <2>2. disk' = disk \/ \E g \in todo : Replaceable(g) /\ PutDesired(g)
        BY <1>27 DEF ReplaceRaises
    <2>3. ASSUME NEW g \in todo, Replaceable(g), PutDesired(g) PROVE Logical' = Logical
      <3>1. g \in DOMAIN plan /\ disk[g] = plan[g].original
          BY <2>1, <2>3 DEF Replaceable, AInv, IInv, SnapshotInv, Replacing
      <3>2. plan[g].new # plan[g].original /\ g \in Files
          BY <3>1, PlanEntry DEF AInv, IInv, TypeOK, DataType
      <3>3. disk \in [Files -> Contents] /\ disk' = [disk EXCEPT ![g] = plan[g].new]
          BY <2>3 DEF PutDesired, AInv, IInv, TypeOK, DataType
      <3> QED
          BY <2>1, <3>1, <3>2, <3>3 DEF Logical, Desired
    <2>4. Logical' = Logical
        BY <2>1, <2>2, <2>3, ValueKept
    <2>5. PlanKept \/ pc' \notin Steps
        BY <1>27 DEF ReplaceRaises, Fail
    <2> QED
        BY <2>1, <2>4, <2>5, KeepOrDrop
<1>28. ASSUME BeginUpdate PROVE Mapped
    <2>1. UNCHANGED <<disk, marker, journal>> /\ NoWrite
        BY <1>28 DEF BeginUpdate, Goto
    <2>2. PlanKept \/ pc' \notin Steps
        BY <1>28 DEF BeginUpdate, Goto
    <2> QED
        BY <2>1, <2>2, ValueKept, KeepOrDrop
<1>29. ASSUME Crash PROVE Mapped
    <2>1. UNCHANGED <<disk, marker, journal>> /\ NoWrite
        BY <1>29 DEF Crash
    <2>2. PlanKept \/ pc' \notin Steps
        BY <1>29 DEF Crash
    <2> QED
        BY <2>1, <2>2, ValueKept, KeepOrDrop
<1>30. ASSUME ObsWrites PROVE Mapped
    <2>1. UNCHANGED <<marker, journal>>
        BY <1>30 DEF ObsWrites
    <2>2. PlanKept \/ pc' \notin Steps
        BY <1>30 DEF ObsWrites
    <2>3. (disk' = disk /\ NoWrite) \/ SomeWrite
        BY <1>30, WriteIsSome DEF ObsWrites, Stop, AInv, IInv, TypeOK
    <2> QED
        BY <2>1, <2>2, <2>3, ValueKept, KeepOrDrop, Written
        DEF AInv, IInv, TypeOK
<1>31. ASSUME ObsStarts PROVE Mapped
    <2>1. UNCHANGED <<disk, marker, journal>> /\ NoWrite
        BY <1>31 DEF ObsStarts
    <2>2. PlanKept \/ pc' \notin Steps
        BY <1>31 DEF ObsStarts
    <2> QED
        BY <2>1, <2>2, ValueKept, KeepOrDrop
<1>32. ASSUME ObsExits PROVE Mapped
    <2>1. UNCHANGED <<disk, marker, journal>> /\ NoWrite
        BY <1>32 DEF ObsExits
    <2>2. PlanKept \/ pc' \notin Steps
        BY <1>32 DEF ObsExits
    <2> QED
        BY <2>1, <2>2, ValueKept, KeepOrDrop
<1>33. ASSUME UNCHANGED vars PROVE Mapped
    BY <1>33, ValueKept, KeepOrDrop
<1> QED
    BY <1>1, <1>2, <1>3, <1>4, <1>5, <1>6, <1>7, <1>8, <1>9, <1>10, <1>11,
       <1>12, <1>13, <1>14, <1>15, <1>16, <1>17, <1>18, <1>19, <1>20, <1>21,
       <1>22, <1>23, <1>24, <1>25, <1>26, <1>27, <1>28, <1>29, <1>30, <1>31,
       <1>32, <1>33
    DEF Next, Recover, Transact, Exceptions

(* A settings update is an atomic compare-and-swap of all files through      *)
(* every crash, failure and write of others; only a write that comes after   *)
(* its last look at a file can end in files of both                          *)
(* (execute_obs_config_transaction and its recovery).                        *)
THEOREM TransactionIsAtomic == Spec => ImplementsAtomic
<1>1. Init => AInv
    BY InitAInv
<1>2. AInv /\ [Next]_vars => AInv'
    BY StepAInv
<1>3. Init => Atomic!Init
    BY EmptyPlan
    DEF Init, Atomic!Init, Atomic!Nothing, Logical, InProgress, NoEntries
<1>4. AInv /\ [Next]_vars => [Atomic!Next]_<<Logical, Planned, writes, late>>
    BY MapStep DEF Mapped
<1> QED
    BY <1>1, <1>2, <1>3, <1>4, PTL
    DEF Spec, ImplementsAtomic, Atomic!Spec, Planned

-----------------------------------------------------------------------------
(* A recovery goes forward.                                                  *)

(* What was inspected is what is there, as long as nobody else wrote it.     *)
ReadInv == pc = "stopForRecovery" /\ writes = 0 => \A f \in Files : disk[f] = snapshot[f]

(* What a step of a recovery does: it brings the end nearer, and gives up    *)
(* nothing while a journal is left.                                          *)
Forward == Nearer /\ (pc' \in Recovering \/ marker' = "none")
PutOff == RunningObsRefused \/ UNCHANGED <<diskVars, procVars>>

(* Every step keeps ReadInv.                                                *)
LEMMA ReadStep ==
    ASSUME DataType, ReadInv, [Next]_vars
    PROVE  ReadInv'
<1> USE DEF diskVars, procVars, envVars, vars, Same, Quiet, Leave, Drop, Unread, DataType, ReadInv
<1>1. ASSUME EnterClean PROVE ReadInv'
    BY <1>1, BoundsAssumption DEF EnterClean
<1>2. ASSUME EnterPending PROVE ReadInv'
    BY <1>2, BoundsAssumption DEF EnterPending
<1>3. ASSUME Inspect PROVE ReadInv'
    BY <1>3, BoundsAssumption DEF Inspect
<1>4. ASSUME InspectRefused PROVE ReadInv'
    BY <1>4, BoundsAssumption DEF InspectRefused, Raise
<1>5. ASSUME StopForRecovery PROVE ReadInv'
    BY <1>5, BoundsAssumption DEF StopForRecovery
<1>6. ASSUME Recovered PROVE ReadInv'
    BY <1>6, BoundsAssumption DEF Recovered, Goto
<1>7. ASSUME DeleteMarker PROVE ReadInv'
    BY <1>7, BoundsAssumption DEF DeleteMarker, Goto
<1>8. ASSUME DeleteTemp PROVE ReadInv'
    BY <1>8, BoundsAssumption DEF DeleteTemp
<1>9. ASSUME NEW f \in Files, RollBack(f) PROVE ReadInv'
    BY <1>9, BoundsAssumption DEF RollBack, MustRollBack
<1>10. ASSUME NEW f \in Files, DeleteTemporary(f) PROVE ReadInv'
    BY <1>10, BoundsAssumption DEF DeleteTemporary
<1>11. ASSUME MakePlan PROVE ReadInv'
    BY <1>11, BoundsAssumption DEF MakePlan, Entries
<1>12. ASSUME NothingToDo PROVE ReadInv'
    BY <1>12, BoundsAssumption DEF NothingToDo, Unchanged, MayReplan, Stop, Write
<1>13. ASSUME BeginPreparing PROVE ReadInv'
    BY <1>13, BoundsAssumption DEF BeginPreparing, Unchanged, WriteMarker, UncertainMarker, Fault
<1>14. ASSUME Verify PROVE ReadInv'
    BY <1>14, BoundsAssumption DEF Verify, WellPrepared, Unchanged, Fail
<1>15. ASSUME StopObs PROVE ReadInv'
    BY <1>15, BoundsAssumption DEF StopObs, Unchanged, MayReplan, Stop, Write, Fail
<1>16. ASSUME ConfirmStopped PROVE ReadInv'
    BY <1>16, BoundsAssumption DEF ConfirmStopped, Unchanged, AsAfterStop
<1>17. ASSUME StopRefused PROVE ReadInv'
    BY <1>17, BoundsAssumption DEF StopRefused, Fail, Unchanged, AsAfterStop, Fault
<1>18. ASSUME BeginCommitting PROVE ReadInv'
    BY <1>18, BoundsAssumption DEF BeginCommitting, Unchanged, WriteMarker, UncertainMarker,
        Fault, Fail
<1>19. ASSUME ValidateTargets PROVE ReadInv'
    BY <1>19, BoundsAssumption DEF ValidateTargets, AllDesired, Fail
<1>20. ASSUME Committed PROVE ReadInv'
    BY <1>20, BoundsAssumption DEF Committed, UncertainMarker, Fault
<1>21. ASSUME HandleFailure PROVE ReadInv'
    BY <1>21, BoundsAssumption DEF HandleFailure
<1>22. ASSUME NEW f \in Files, WriteTemporary(f) PROVE ReadInv'
    BY <1>22, BoundsAssumption DEF WriteTemporary, PutTemporary, NeedsBackup, Fault
<1>23. ASSUME NEW f \in Files, Replace(f) PROVE ReadInv'
    BY <1>23, BoundsAssumption DEF Replace, Replaceable, PutDesired
<1>24. ASSUME RecoveryRaises PROVE ReadInv'
    BY <1>24, BoundsAssumption DEF RecoveryRaises, Raise, Fault
<1>25. ASSUME RunningObsRefused PROVE ReadInv'
    BY <1>25, BoundsAssumption DEF RunningObsRefused
<1>26. ASSUME TemporaryRaises PROVE ReadInv'
    BY <1>26, BoundsAssumption DEF TemporaryRaises, Fault, Fail, PutTemporary, NeedsBackup
<1>27. ASSUME ReplaceRaises PROVE ReadInv'
    BY <1>27, BoundsAssumption DEF ReplaceRaises, Fault, Fail, Replaceable, PutDesired, Unchanged
<1>28. ASSUME BeginUpdate PROVE ReadInv'
    BY <1>28, BoundsAssumption DEF BeginUpdate, Goto
<1>29. ASSUME Crash PROVE ReadInv'
    BY <1>29, BoundsAssumption DEF Crash, PutTemporary, NeedsBackup
<1>30. ASSUME ObsWrites PROVE ReadInv'
    BY <1>30, BoundsAssumption DEF ObsWrites, Write
<1>31. ASSUME ObsStarts PROVE ReadInv'
    BY <1>31, BoundsAssumption DEF ObsStarts
<1>32. ASSUME ObsExits PROVE ReadInv'
    BY <1>32, BoundsAssumption DEF ObsExits
<1>33. ASSUME UNCHANGED vars PROVE ReadInv'
    BY <1>33, BoundsAssumption
<1> QED
    BY <1>1, <1>2, <1>3, <1>4, <1>5, <1>6, <1>7, <1>8, <1>9, <1>10, <1>11, <1>12, <1>13,
        <1>14, <1>15, <1>16, <1>17, <1>18, <1>19, <1>20, <1>21, <1>22, <1>23, <1>24, <1>25,
        <1>26, <1>27, <1>28, <1>29, <1>30, <1>31, <1>32, <1>33 DEF Next, Recover, Transact,
        Exceptions

(* The parts of what is left to do, and that each of them counts.            *)
ToRollBack == {f \in todo : MustRollBack(f)}
BackupsLeft == {f \in todo : backup[f] # Gone}
Parts(R, B, D) == ({"rollback"} \X R) \union ({"backup"} \X B) \union ({"desired"} \X D)

(* What is left to do consists of its parts ...                              *)
LEMMA LeftIs == FilesLeft = Parts(ToRollBack, BackupsLeft, todo)
BY DEF FilesLeft, Parts, ToRollBack, BackupsLeft

(* ... in the next state too ...                                             *)
LEMMA LeftWillBe == FilesLeft' = Parts(ToRollBack', BackupsLeft', todo')
BY DEF FilesLeft, Parts, ToRollBack, BackupsLeft

(* ... and is less when one of them is.                                      *)
LEMMA Fewer ==
    ASSUME NEW R, NEW B, NEW D, NEW Q, NEW A, NEW C,
           Q \subseteq R, A \subseteq B, C \subseteq D, Q # R \/ A # B \/ C # D
    PROVE  Parts(Q, A, C) \subseteq Parts(R, B, D) /\ Parts(Q, A, C) # Parts(R, B, D)
<1>1. Parts(Q, A, C) \subseteq Parts(R, B, D)
    BY DEF Parts
<1>2. ASSUME NEW x \in R \ Q PROVE Parts(Q, A, C) # Parts(R, B, D)
    <2>1. <<"rollback", x>> \in Parts(R, B, D)
        BY DEF Parts
    <2>2. <<"rollback", x>> \notin Parts(Q, A, C)
        BY DEF Parts
    <2> QED
        BY <2>1, <2>2
<1>3. ASSUME NEW x \in B \ A PROVE Parts(Q, A, C) # Parts(R, B, D)
    <2>1. <<"backup", x>> \in Parts(R, B, D)
        BY DEF Parts
    <2>2. <<"backup", x>> \notin Parts(Q, A, C)
        BY DEF Parts
    <2> QED
        BY <2>1, <2>2
<1>4. ASSUME NEW x \in D \ C PROVE Parts(Q, A, C) # Parts(R, B, D)
    <2>1. <<"desired", x>> \in Parts(R, B, D)
        BY DEF Parts
    <2>2. <<"desired", x>> \notin Parts(Q, A, C)
        BY DEF Parts
    <2> QED
        BY <2>1, <2>2
<1> QED
    BY <1>1, <1>2, <1>3, <1>4

(* A step of a recovery brings its end nearer, or puts it off.              *)
LEMMA ForwardStep ==
    ASSUME IInv, ReadInv, [Next]_vars, pc \in Recovering, writes' = 0,
           UNCHANGED <<faults, crashes>>
    PROVE  Forward \/ PutOff
<1> USE DEF diskVars, procVars, envVars, vars, Same, Quiet, Leave, Drop, Unread, IInv, TypeOK,
    DataType, Recovering, StepsLeft, Nearer, Forward, PutOff, JournalInv, Planning, Preparing,
    Replacing, Pending
<1>1. ASSUME EnterClean PROVE Forward \/ PutOff
    BY <1>1, BoundsAssumption DEF EnterClean
<1>2. ASSUME EnterPending PROVE Forward \/ PutOff
    BY <1>2, BoundsAssumption DEF EnterPending
<1>3. ASSUME Inspect PROVE Forward \/ PutOff
    BY <1>3, BoundsAssumption DEF Inspect
<1>4. ASSUME InspectRefused PROVE Forward \/ PutOff
    <2>1. writes = 0 /\ pc = "inspect" /\ marker # "none"
        BY <1>4 DEF InspectRefused
    <2>2. \A g \in DOMAIN journal : Recoverable(g)
        BY <2>1 DEF Recoverability
    <2> QED
        BY <1>4, <2>2 DEF InspectRefused
<1>5. ASSUME StopForRecovery PROVE Forward \/ PutOff
    <2>1. /\ pc = "stopForRecovery" /\ UNCHANGED marker
          /\ \E flush \in BOOLEAN : Stop(flush)
          /\ \/ pc' = "recover"
             \/ \E g \in DOMAIN journal : disk'[g] # snapshot[g]
        BY <1>5 DEF StopForRecovery
    <2>2. writes = 0 /\ disk' = disk
        BY <2>1, BoundsAssumption DEF Stop, Write
    <2>3. DOMAIN journal \subseteq Files
        BY PlanDomain
    <2>4. pc' = "recover"
        BY <2>1, <2>2, <2>3 DEF ReadInv
    <2> QED
        BY <2>1, <2>4
<1>6. ASSUME Recovered PROVE Forward \/ PutOff
    BY <1>6, BoundsAssumption DEF Recovered, Goto
<1>7. ASSUME DeleteMarker PROVE Forward \/ PutOff
    BY <1>7, BoundsAssumption DEF DeleteMarker, Goto
<1>8. ASSUME DeleteTemp PROVE Forward \/ PutOff
    BY <1>8, BoundsAssumption DEF DeleteTemp
<1>9. ASSUME NEW f \in Files, RollBack(f) PROVE Forward \/ PutOff
    <2>1. /\ pc = "recover" /\ f \in todo /\ MustRollBack(f)
          /\ UNCHANGED <<marker, journal, pc, todo>>
          /\ disk' = [disk EXCEPT ![f] = journal[f].original] /\ backup' = [backup
              EXCEPT ![f] = Gone]
        BY <1>9 DEF RollBack
    <2>2. ASSUME NEW g \in todo', MustRollBack(g)' PROVE g \in todo /\ MustRollBack(g) /\ g # f
        <3>1. g \in Files /\ disk'[f] = journal[f].original
            BY <2>1, <2>2
        <3>2. g # f
            BY <2>1, <2>2, <3>1 DEF MustRollBack, Original
        <3>3. disk'[g] = disk[g]
            BY <2>1, <3>1, <3>2
        <3> QED
            BY <2>1, <2>2, <3>2, <3>3 DEF MustRollBack, Original
    <2>3. ASSUME NEW g \in todo', backup'[g] # Gone PROVE backup[g] # Gone
        BY <2>1, <2>3 DEF TemporariesInv
    <2>4. /\ ToRollBack' \subseteq ToRollBack /\ f \in ToRollBack /\ f \notin ToRollBack'
          /\ BackupsLeft' \subseteq BackupsLeft
        BY <2>1, <2>2, <2>3 DEF ToRollBack, BackupsLeft
    <2>5. FilesLeft' \subseteq FilesLeft /\ FilesLeft' # FilesLeft
        BY <2>1, <2>4, LeftIs, LeftWillBe, Fewer
    <2> QED
        BY <2>1, <2>5
<1>10. ASSUME NEW f \in Files, DeleteTemporary(f) PROVE Forward \/ PutOff
    <2>1. /\ pc = "recover" /\ f \in todo /\ UNCHANGED <<disk, marker, journal, pc>>
          /\ \/ /\ backup[f] # Gone /\ backup' = [backup EXCEPT ![f] = Gone] /\ todo' = todo
             \/ todo' = todo \ {f} /\ backup' = backup
        BY <1>10 DEF DeleteTemporary
    <2>2. ToRollBack' \subseteq ToRollBack
        BY <2>1 DEF ToRollBack, MustRollBack, Original
    <2>3. CASE backup[f] # Gone /\ backup' = [backup EXCEPT ![f] = Gone] /\ todo' = todo
        <3>1. BackupsLeft' \subseteq BackupsLeft /\ f \in BackupsLeft /\ f \notin BackupsLeft'
            BY <2>1, <2>3 DEF BackupsLeft
        <3> QED
            BY <2>1, <2>2, <2>3, <3>1, LeftIs, LeftWillBe, Fewer
    <2>4. CASE todo' = todo \ {f} /\ backup' = backup
        <3>1. BackupsLeft' \subseteq BackupsLeft
            BY <2>1, <2>4 DEF BackupsLeft
        <3> QED
            BY <2>1, <2>2, <2>4, <3>1, LeftIs, LeftWillBe, Fewer
    <2> QED
        BY <2>1, <2>3, <2>4
<1>11. ASSUME MakePlan PROVE Forward \/ PutOff
    BY <1>11, BoundsAssumption DEF MakePlan, Entries
<1>12. ASSUME NothingToDo PROVE Forward \/ PutOff
    BY <1>12, BoundsAssumption DEF NothingToDo, Unchanged, MayReplan, Stop, Write
<1>13. ASSUME BeginPreparing PROVE Forward \/ PutOff
    BY <1>13, BoundsAssumption DEF BeginPreparing, Unchanged, WriteMarker, UncertainMarker, Fault
<1>14. ASSUME Verify PROVE Forward \/ PutOff
    BY <1>14, BoundsAssumption DEF Verify, WellPrepared, Unchanged, Fail
<1>15. ASSUME StopObs PROVE Forward \/ PutOff
    BY <1>15, BoundsAssumption DEF StopObs, Unchanged, MayReplan, Stop, Write, Fail
<1>16. ASSUME ConfirmStopped PROVE Forward \/ PutOff
    BY <1>16, BoundsAssumption DEF ConfirmStopped, Unchanged, AsAfterStop
<1>17. ASSUME StopRefused PROVE Forward \/ PutOff
    BY <1>17, BoundsAssumption DEF StopRefused, Fail, Unchanged, AsAfterStop, Fault
<1>18. ASSUME BeginCommitting PROVE Forward \/ PutOff
    BY <1>18, BoundsAssumption DEF BeginCommitting, Unchanged, WriteMarker, UncertainMarker,
        Fault, Fail
<1>19. ASSUME ValidateTargets PROVE Forward \/ PutOff
    BY <1>19, BoundsAssumption DEF ValidateTargets, AllDesired, Fail
<1>20. ASSUME Committed PROVE Forward \/ PutOff
    BY <1>20, BoundsAssumption DEF Committed, UncertainMarker, Fault
<1>21. ASSUME HandleFailure PROVE Forward \/ PutOff
    BY <1>21, BoundsAssumption DEF HandleFailure
<1>22. ASSUME NEW f \in Files, WriteTemporary(f) PROVE Forward \/ PutOff
    BY <1>22, BoundsAssumption DEF WriteTemporary, PutTemporary, NeedsBackup, Fault
<1>23. ASSUME NEW f \in Files, Replace(f) PROVE Forward \/ PutOff
    BY <1>23, BoundsAssumption DEF Replace, Replaceable, PutDesired
<1>24. ASSUME RecoveryRaises PROVE Forward \/ PutOff
    <2>1. PICK g \in todo : pc = "recover" /\ ~Recoverable(g) /\ Quiet
        BY <1>24, BoundsAssumption DEF RecoveryRaises, Fault
    <2>2. writes = 0 /\ marker # "none" /\ g \in DOMAIN journal
        BY <2>1 DEF TemporariesInv
    <2> QED
        BY <2>1, <2>2 DEF Recoverability
<1>25. ASSUME RunningObsRefused PROVE Forward \/ PutOff
    BY <1>25
<1>26. ASSUME TemporaryRaises PROVE Forward \/ PutOff
    BY <1>26, BoundsAssumption DEF TemporaryRaises, Fault, Fail, PutTemporary, NeedsBackup
<1>27. ASSUME ReplaceRaises PROVE Forward \/ PutOff
    BY <1>27, BoundsAssumption DEF ReplaceRaises, Fault, Fail, Replaceable, PutDesired, Unchanged
<1>28. ASSUME BeginUpdate PROVE Forward \/ PutOff
    BY <1>28, BoundsAssumption DEF BeginUpdate, Goto
<1>29. ASSUME Crash PROVE Forward \/ PutOff
    BY <1>29, BoundsAssumption DEF Crash, PutTemporary, NeedsBackup
<1>30. ASSUME ObsWrites PROVE Forward \/ PutOff
    BY <1>30, BoundsAssumption DEF ObsWrites, Write
<1>31. ASSUME ObsStarts PROVE Forward \/ PutOff
    BY <1>31, BoundsAssumption DEF ObsStarts
<1>32. ASSUME ObsExits PROVE Forward \/ PutOff
    BY <1>32, BoundsAssumption DEF ObsExits
<1>33. ASSUME UNCHANGED vars PROVE Forward \/ PutOff
    BY <1>33, BoundsAssumption
<1> QED
    BY <1>1, <1>2, <1>3, <1>4, <1>5, <1>6, <1>7, <1>8, <1>9, <1>10, <1>11, <1>12, <1>13,
        <1>14, <1>15, <1>16, <1>17, <1>18, <1>19, <1>20, <1>21, <1>22, <1>23, <1>24, <1>25,
        <1>26, <1>27, <1>28, <1>29, <1>30, <1>31, <1>32, <1>33 DEF Next, Recover, Transact,
        Exceptions

(* What was inspected is what is there, in every reachable state.            *)
LEMMA ReadInvariance == Spec => [](IInv /\ ReadInv)
<1>1. Init => ReadInv
    BY DEF Init, ReadInv
<1>2. IInv /\ ReadInv /\ [Next]_vars => ReadInv'
    BY ReadStep DEF IInv, TypeOK
<1> QED
    BY <1>1, <1>2, Invariance, PTL DEF Spec

(* A recovery that nobody disturbs goes forward to its end, however far the  *)
(* update and the recoveries before it had come: none of its checks refuses  *)
(* what an interrupted call has left, and no loop of it goes round again.    *)
THEOREM RecoveryIsCounted == Spec => RecoveryGoesForward
<1>1. IInv /\ ReadInv /\ [Next]_vars =>
        [writes' = 0 /\ pc \in Recovering /\ UNCHANGED <<faults, crashes>> =>
           \/ Nearer /\ (pc' \in Recovering \/ marker' = "none")
           \/ RunningObsRefused
           \/ UNCHANGED <<diskVars, procVars>>]_vars
    BY ForwardStep DEF Forward, PutOff
<1> QED
    BY <1>1, ReadInvariance, PTL DEF Spec, RecoveryGoesForward

=============================================================================
