-------------------------- MODULE ProcessLeaseProofs --------------------------
(***************************************************************************)
(* Proofs about ProcessLease, for any number of application processes,     *)
(* pids, processes, failures and crashes.                                  *)
(***************************************************************************)
EXTENDS ProcessLease, TLAPS

(* The types, in parts.                                                     *)
OsType == /\ table \in [Pids -> Identities \union {NoLease}] /\ live \subseteq Pids
          /\ births \in 0..MaxBirths
FileType == /\ lease \in Identities \union Legacy \union {NoLease}
            /\ temp \in BOOLEAN /\ lockFile \in BOOLEAN /\ lock \in Apps \union {Nobody}
ControlType == pc \in [Apps -> PCs] /\ op \in [Apps -> Ops]
CallType == /\ target \in [Apps -> Identities \union {NoLease}]
            /\ expected \in [Apps -> SUBSET Identities] /\ todo \in [Apps -> SUBSET Identities]
            /\ handles \in [Apps -> SUBSET Identities]
            /\ force \in [Apps -> BOOLEAN] /\ forced \in [Apps -> BOOLEAN]
OwnType == /\ popen \in [Apps -> Identities \union {NoLease}]
           /\ bound \in [Apps -> Identities \union {NoLease}]
PastType == /\ started \subseteq Identities
            /\ faults \in 0..MaxFaults /\ crashes \in 0..MaxCrashes
Types == OsType /\ FileType /\ ControlType /\ CallType /\ OwnType /\ PastType

(* A pid names its process, and no process is older than the last birth.    *)
TableInv ==
    /\ \A p \in Pids : table[p] # NoLease => table[p].pid = p /\ table[p].born <= births
    /\ \A p \in live : table[p] # NoLease
    /\ \A id \in started : id.exe = "managed" /\ id.born <= births
(* A lease that identifies a process identifies one of ours.                *)
LeaseInv == lease \in Identities => lease \in started
(* A transaction has the lock.                                              *)
LockInv == \A b \in Apps : pc[b] \in Locked => lock = b
(* Which call a control point belongs to.                                   *)
Launching == {"connect", "sweep", "sweepEach", "sweepOpen", "sweepSignal", "sweepWait"}
Owning    == {"validate", "write", "publish", "published", "cleanup"}
CallInv ==
    \A b \in Apps :
        /\ pc[b] = "idle" => op[b] = "none"
        /\ pc[b] \in Launching => op[b] = "launch"
        /\ pc[b] \in {"admit", "popen"} \union Owning => op[b] = "start"
        /\ pc[b] \in {"stop", "terminate"} => op[b] = "stop"
        /\ pc[b] \in {"open", "check", "signal", "wait"} => op[b] = "kill"
        /\ op[b] \in {"launch", "start"} /\ pc[b] \notin Owning => popen[b] = NoLease
        /\ pc[b] \in Owning => popen[b] # NoLease
(* An open handle keeps its pid from being given away.                      *)
HeldInv ==
    \A b \in Apps :
        /\ \A id \in handles[b] : table[id.pid] = id
        /\ popen[b] # NoLease => popen[b] \in started /\ table[popen[b].pid] = popen[b]
        /\ bound[b] \in {NoLease, popen[b]}
(* At most one OBS of ours runs.                                            *)
OneInv == \A i, j \in started : Live(i) /\ Live(j) => i = j
(* What a transaction knows where it stands.                                *)
StepInv ==
    \A b \in Apps :
        /\ pc[b] \in {"popen", "write", "publish"} => lease = NoLease
        /\ pc[b] = "popen" => \A id \in started : ~Live(id)
        /\ pc[b] \in {"validate", "write", "publish"} =>
             \A id \in started : Live(id) => id = popen[b]
        /\ pc[b] = "published" => lease = popen[b]
        /\ pc[b] = "drop" => ~Live(lease)
        /\ pc[b] \in {"open", "check", "signal", "wait"} => target[b] = lease /\ lease # NoLease
        /\ pc[b] \in {"signal", "wait"} => handles[b] = {target[b]}
        /\ pc[b] = "terminate" => lease = popen[b] /\ popen[b] # NoLease
(* A sweep holds and signals processes of the managed OBS only.             *)
Managed(ids) == \A id \in ids : id.exe = "managed"
SweepInv ==
    \A b \in Apps :
        /\ handles[b] # {} => pc[b] \in Sweeping \/ op[b] = "kill"
        /\ pc[b] \in Sweeping => todo[b] \subseteq expected[b] /\ Managed(expected[b])
        /\ pc[b] \in {"sweepOpen", "sweepSignal"} => target[b] \in expected[b]
        /\ pc[b] \in Sweeping \ {"sweepSignal"} => Managed(handles[b])
        /\ pc[b] = "sweepSignal" /\ target[b] \in handles[b] => Managed(handles[b])
(* A temporary is seen only by the transaction that wrote it.               *)
TempInv == TemporaryIsTheHolders
(* Unless something failed, a running OBS has its lease or is just started. *)
OwnedInv ==
    \A id \in started :
        Live(id) => \/ lease = id
                    \/ \E b \in Apps : popen[b] = id /\ pc[b] \in Owning \ {"published"}
                    \/ faults + crashes > 0
IInv == Types /\ TableInv /\ LeaseInv /\ LockInv /\ CallInv /\ HeldInv /\ OneInv /\ StepInv /\
    SweepInv
        /\ TempInv /\ OwnedInv

-----------------------------------------------------------------------------
(* A new process gets a free pid and the next creation time.                *)
LEMMA SpawnIs ==
    ASSUME OsType, NEW p \in Pids, NEW exe \in Exes, Spawn(p, exe)
    PROVE  /\ births' = births + 1 /\ births' \in 0..MaxBirths
           /\ live' \subseteq Pids /\ live' = live \union {p}
           /\ table[p] = NoLease /\ table' = [table EXCEPT ![p] = table'[p]]
           /\ table'[p] \in Identities /\ table'[p] # NoLease
           /\ table'[p].pid = p /\ table'[p].born = births + 1 /\ table'[p].exe = exe
<1>1. births' = births + 1 /\ births' \in 1..MaxBirths
  BY NamesAssumption DEF OsType, Spawn
<1>2. [pid |-> p, born |-> births + 1, exe |-> exe] \in Identities
  BY <1>1 DEF Identities, OsType
<1>3. table'[p] = [pid |-> p, born |-> births + 1, exe |-> exe] /\ table[p] = NoLease
  BY DEF OsType, Spawn, IsFree
<1>4. table'[p] \in Identities /\ table'[p] # NoLease
  BY <1>2, <1>3, NamesAssumption
<1>5. table'[p].pid = p /\ table'[p].born = births + 1 /\ table'[p].exe = exe
  BY <1>3
<1>6. table' = [table EXCEPT ![p] = table'[p]]
  BY <1>3 DEF Spawn
<1>7. live' \subseteq Pids /\ live' = live \union {p} /\ births' \in 0..MaxBirths
  BY <1>1 DEF Spawn, OsType
<1>8. QED
  BY <1>1, <1>3, <1>4, <1>5, <1>6, <1>7

(* The strict query shows processes.                                        *)
LEMMA RowsAre ==
    ASSUME OsType, TableInv
    PROVE  \A r \in Rows : r \in Identities /\ r.pid \in live /\ table[r.pid] = r /\ Live(r)
  BY DEF OsType, TableInv, Rows, Live

(* The first step of a call inside its transaction.                         *)
LEMMA EntryIs ==
    /\ \A o \in Ops : Entry[o] \in {"idle", "find", "stop", "admit"}
    /\ Entry["none"] = "idle" /\ Entry["launch"] = "find" /\ Entry["kill"] = "find"
  BY DEF Entry, Ops

(* A sweep that begins, or has nothing to do, changes its own call only.    *)
LEMMA SweepIs ==
    ASSUME ControlType, CallType, NEW a \in Apps, Sweep(a)
    PROVE  /\ pc'[a] \in {"sweepEach", "lock"}
           /\ \A b \in Apps \ {a} : pc'[b] = pc[b] /\ target'[b] = target[b] /\
               handles'[b] = handles[b]
           /\ UNCHANGED <<table, live, lease, popen, started>>
<1>1. CASE Rows = {}
  BY <1>1 DEF Sweep, Onward, ControlType, CallType, osVars, fileVars, ownVars, pastVars
<1>2. CASE Rows # {}
  BY <1>2 DEF Sweep, Goto, ControlType, osVars, fileVars, ownVars, pastVars
<1>3. QED
  BY <1>1, <1>2

-----------------------------------------------------------------------------
(* The types of the proofs and of the specification are the same.           *)
LEMMA TypesAgree == Types <=> TypeOK
  BY DEF Types, OsType, FileType, ControlType, CallType, OwnType, PastType, TypeOK

(* The start.                                                               *)
LEMMA InitIInv == Init => IInv
<1> SUFFICES ASSUME Init PROVE IInv
  OBVIOUS
<1>1. OsType /\ ControlType
  BY NamesAssumption DEF Init, OsType, ControlType, PCs, Ops
<1>7. FileType
  BY DEF Init, FileType
<1>2. CallType /\ OwnType /\ PastType
  BY NamesAssumption DEF Init, CallType, OwnType, PastType
<1>3. TableInv /\ LockInv /\ OneInv /\ TempInv /\ OwnedInv
  BY DEF Init, TableInv, LockInv, OneInv, Locked, TempInv, TemporaryIsTheHolders, OwnedInv
<1>4. LeaseInv
  BY NamesAssumption DEF Init, LeaseInv, Identities, Legacy
<1>5. CallInv /\ HeldInv /\ StepInv /\ SweepInv
  BY DEF Init, CallInv, HeldInv, StepInv, SweepInv, Launching, Owning, Sweeping
<1>6. QED
  BY <1>1, <1>2, <1>3, <1>4, <1>5, <1>7 DEF IInv, Types

(* Every step keeps OsType.                                                 *)
LEMMA NextOsType == IInv /\ [Next]_vars => OsType'
<1> SUFFICES ASSUME IInv, [Next]_vars PROVE OsType'
  OBVIOUS
<1> USE NamesAssumption DEF IInv, Types, OsType, TableInv, Identities, Goto, SameWorld, SameCall,
    Return, Forget, Unlock, Fault, Ends, IsFree, osVars, fileVars, callVars, ownVars, pastVars,
    vars
<1>1. ASSUME NEW p \in Pids, Exits(p) PROVE OsType'
  BY <1>1 DEF Exits
<1>2. ASSUME NEW p \in Pids, Reaped(p) PROVE OsType'
  BY <1>2 DEF Reaped
<1>3. ASSUME NEW p \in Pids, OtherStarts(p) PROVE OsType'
  BY <1>3, SpawnIs DEF OtherStarts, Exes
<1>4. ASSUME NEW a \in Apps, BeginLaunch(a) PROVE OsType'
  BY <1>4 DEF BeginLaunch, Begin, NothingThere
<1>5. ASSUME NEW a \in Apps, BeginFind(a) PROVE OsType'
  BY <1>5 DEF BeginFind, Begin, NothingThere
<1>6. ASSUME NEW a \in Apps, BeginKill(a) PROVE OsType'
  BY <1>6 DEF BeginKill, Begin, NothingThere
<1>7. ASSUME NEW a \in Apps, BeginStop(a) PROVE OsType'
  BY <1>7 DEF BeginStop, Begin, NothingThere
<1>8. ASSUME NEW a \in Apps, Acquire(a) PROVE OsType'
  BY <1>8 DEF Acquire, Entry
<1>9. ASSUME NEW a \in Apps, LockTimesOut(a) PROVE OsType'
  BY <1>9 DEF LockTimesOut
<1>10. ASSUME NEW a \in Apps, NoneOwned(a) PROVE OsType'
  BY <1>10 DEF NoneOwned
<1>11. ASSUME NEW a \in Apps, FindStale(a) PROVE OsType'
  BY <1>11, RowsAre DEF FindStale, PidListed
<1>12. ASSUME NEW a \in Apps, FindMismatch(a) PROVE OsType'
  BY <1>12, RowsAre DEF FindMismatch, PidListed
<1>13. ASSUME NEW a \in Apps, FindOwned(a) PROVE OsType'
  BY <1>13, RowsAre DEF FindOwned
<1>14. ASSUME NEW a \in Apps, Drop(a) PROVE OsType'
  BY <1>14 DEF Drop
<1>15. ASSUME NEW a \in Apps, Open(a) PROVE OsType'
  BY <1>15 DEF Open
<1>16. ASSUME NEW a \in Apps, CheckExited(a) PROVE OsType'
  BY <1>16 DEF CheckExited
<1>17. ASSUME NEW a \in Apps, CheckIdentity(a) PROVE OsType'
  BY <1>17 DEF CheckIdentity
<1>18. ASSUME NEW a \in Apps, SignalGraceful(a) PROVE OsType'
  BY <1>18 DEF SignalGraceful
<1>19. ASSUME NEW a \in Apps, Survives(a) PROVE OsType'
  BY <1>19 DEF Survives
<1>20. ASSUME NEW a \in Apps, ForceByHandle(a) PROVE OsType'
  BY <1>20 DEF ForceByHandle
<1>21. ASSUME NEW a \in Apps, StopUnauthorized(a) PROVE OsType'
  BY <1>21 DEF StopUnauthorized
<1>22. ASSUME NEW a \in Apps, StopAuthorized(a) PROVE OsType'
  BY <1>22 DEF StopAuthorized
<1>23. ASSUME NEW a \in Apps, Terminate(a) PROVE OsType'
  BY <1>23 DEF Terminate
<1>24. ASSUME NEW a \in Apps, Adopt(a) PROVE OsType'
  BY <1>24 DEF Adopt
<1>25. ASSUME NEW a \in Apps, Unreachable(a) PROVE OsType'
  BY <1>25 DEF Unreachable
<1>26. ASSUME NEW a \in Apps, SweepFails(a) PROVE OsType'
  BY <1>26 DEF SweepFails, Sweeping, SettingsBusy
<1>27. ASSUME NEW a \in Apps, Sweep(a) PROVE OsType'
  BY <1>27, RowsAre DEF Sweep, Onward
<1>28. ASSUME NEW a \in Apps, SweepEach(a) PROVE OsType'
  BY <1>28 DEF SweepEach
<1>29. ASSUME NEW a \in Apps, SweepOpen(a) PROVE OsType'
  BY <1>29 DEF SweepOpen
<1>30. ASSUME NEW a \in Apps, SweepSignal(a) PROVE OsType'
  BY <1>30 DEF SweepSignal
<1>31. ASSUME NEW a \in Apps, SweepForce(a) PROVE OsType'
  BY <1>31 DEF SweepForce
<1>32. ASSUME NEW a \in Apps, SweepDone(a) PROVE OsType'
  BY <1>32 DEF SweepDone, Onward
<1>33. ASSUME NEW a \in Apps, AdmitRefused(a) PROVE OsType'
  BY <1>33 DEF AdmitRefused
<1>34. ASSUME NEW a \in Apps, Admit(a) PROVE OsType'
  BY <1>34, RowsAre DEF Admit
<1>35. ASSUME NEW a \in Apps, Popen(a) PROVE OsType'
  BY <1>35, SpawnIs DEF Popen, Exes
<1>36. ASSUME NEW a \in Apps, PopenFails(a) PROVE OsType'
  BY <1>36 DEF PopenFails
<1>37. ASSUME NEW a \in Apps, Validate(a) PROVE OsType'
  BY <1>37 DEF Validate
<1>38. ASSUME NEW a \in Apps, WriteTemporary(a) PROVE OsType'
  BY <1>38 DEF WriteTemporary
<1>39. ASSUME NEW a \in Apps, Publish(a) PROVE OsType'
  BY <1>39 DEF Publish
<1>40. ASSUME NEW a \in Apps, Establish(a) PROVE OsType'
  BY <1>40 DEF Establish
<1>41. ASSUME NEW a \in Apps, Cleanup(a) PROVE OsType'
  BY <1>41 DEF Cleanup, ForgetPopen
<1>42. ASSUME NEW a \in Apps, PublishFails(a) PROVE OsType'
  BY <1>42 DEF PublishFails
<1>43. ASSUME NEW a \in Apps, EstablishInterrupted(a) PROVE OsType'
  BY <1>43 DEF EstablishInterrupted
<1>44. ASSUME NEW a \in Apps, CleanupFails(a) PROVE OsType'
  BY <1>44 DEF CleanupFails, ForgetPopen
<1>45. ASSUME NEW a \in Apps, Fails(a) PROVE OsType'
  BY <1>45 DEF Fails, Sweeping
<1>46. ASSUME NEW a \in Apps, Crash(a) PROVE OsType'
  BY <1>46 DEF Crash
<1>47. CASE UNCHANGED vars
  BY <1>47
<1>48. QED
  BY <1>1, <1>2, <1>3, <1>4, <1>5, <1>6, <1>7, <1>8, <1>9, <1>10, <1>11, <1>12, <1>13, <1>14,
      <1>15, <1>16, <1>17, <1>18, <1>19, <1>20, <1>21, <1>22, <1>23, <1>24, <1>25, <1>26, <1>27,
      <1>28, <1>29, <1>30, <1>31, <1>32, <1>33, <1>34, <1>35, <1>36, <1>37, <1>38, <1>39, <1>40,
      <1>41, <1>42, <1>43, <1>44, <1>45, <1>46, <1>47 DEF Next, Begins, Step, Mishap

(* Every step keeps FileType.                                               *)
LEMMA NextFileType == IInv /\ [Next]_vars => FileType'
<1> SUFFICES ASSUME IInv, [Next]_vars PROVE FileType'
  OBVIOUS
<1> USE NamesAssumption DEF IInv, Live, Types, OsType, FileType, OwnType, PastType, CallInv, Goto,
    SameWorld, SameCall, Return, Forget, Unlock, Fault, Ends, IsFree, osVars, fileVars, callVars,
    ownVars, pastVars, vars
<1>1. ASSUME NEW p \in Pids, Exits(p) PROVE FileType'
  BY <1>1 DEF Exits
<1>2. ASSUME NEW p \in Pids, Reaped(p) PROVE FileType'
  BY <1>2 DEF Reaped
<1>3. ASSUME NEW p \in Pids, OtherStarts(p) PROVE FileType'
  BY <1>3, SpawnIs DEF OtherStarts, Exes
<1>4. ASSUME NEW a \in Apps, BeginLaunch(a) PROVE FileType'
  BY <1>4 DEF BeginLaunch, Begin, NothingThere
<1>5. ASSUME NEW a \in Apps, BeginFind(a) PROVE FileType'
  BY <1>5 DEF BeginFind, Begin, NothingThere
<1>6. ASSUME NEW a \in Apps, BeginKill(a) PROVE FileType'
  BY <1>6 DEF BeginKill, Begin, NothingThere
<1>7. ASSUME NEW a \in Apps, BeginStop(a) PROVE FileType'
  BY <1>7 DEF BeginStop, Begin, NothingThere
<1>8. ASSUME NEW a \in Apps, Acquire(a) PROVE FileType'
  BY <1>8 DEF Acquire, Entry
<1>9. ASSUME NEW a \in Apps, LockTimesOut(a) PROVE FileType'
  BY <1>9 DEF LockTimesOut
<1>10. ASSUME NEW a \in Apps, NoneOwned(a) PROVE FileType'
  BY <1>10 DEF NoneOwned
<1>11. ASSUME NEW a \in Apps, FindStale(a) PROVE FileType'
  BY <1>11, RowsAre DEF FindStale, PidListed
<1>12. ASSUME NEW a \in Apps, FindMismatch(a) PROVE FileType'
  BY <1>12, RowsAre DEF FindMismatch, PidListed
<1>13. ASSUME NEW a \in Apps, FindOwned(a) PROVE FileType'
  BY <1>13, RowsAre DEF FindOwned
<1>14. ASSUME NEW a \in Apps, Drop(a) PROVE FileType'
  BY <1>14 DEF Drop
<1>15. ASSUME NEW a \in Apps, Open(a) PROVE FileType'
  BY <1>15 DEF Open
<1>16. ASSUME NEW a \in Apps, CheckExited(a) PROVE FileType'
  BY <1>16 DEF CheckExited
<1>17. ASSUME NEW a \in Apps, CheckIdentity(a) PROVE FileType'
  BY <1>17 DEF CheckIdentity
<1>18. ASSUME NEW a \in Apps, SignalGraceful(a) PROVE FileType'
  BY <1>18 DEF SignalGraceful
<1>19. ASSUME NEW a \in Apps, Survives(a) PROVE FileType'
  BY <1>19 DEF Survives
<1>20. ASSUME NEW a \in Apps, ForceByHandle(a) PROVE FileType'
  BY <1>20 DEF ForceByHandle
<1>21. ASSUME NEW a \in Apps, StopUnauthorized(a) PROVE FileType'
  BY <1>21 DEF StopUnauthorized
<1>22. ASSUME NEW a \in Apps, StopAuthorized(a) PROVE FileType'
  BY <1>22 DEF StopAuthorized
<1>23. ASSUME NEW a \in Apps, Terminate(a) PROVE FileType'
  BY <1>23 DEF Terminate
<1>24. ASSUME NEW a \in Apps, Adopt(a) PROVE FileType'
  BY <1>24 DEF Adopt
<1>25. ASSUME NEW a \in Apps, Unreachable(a) PROVE FileType'
  BY <1>25 DEF Unreachable
<1>26. ASSUME NEW a \in Apps, SweepFails(a) PROVE FileType'
  BY <1>26 DEF SweepFails, Sweeping, SettingsBusy
<1>27. ASSUME NEW a \in Apps, Sweep(a) PROVE FileType'
  BY <1>27, RowsAre DEF Sweep, Onward
<1>28. ASSUME NEW a \in Apps, SweepEach(a) PROVE FileType'
  BY <1>28 DEF SweepEach
<1>29. ASSUME NEW a \in Apps, SweepOpen(a) PROVE FileType'
  BY <1>29 DEF SweepOpen
<1>30. ASSUME NEW a \in Apps, SweepSignal(a) PROVE FileType'
  BY <1>30 DEF SweepSignal
<1>31. ASSUME NEW a \in Apps, SweepForce(a) PROVE FileType'
  BY <1>31 DEF SweepForce
<1>32. ASSUME NEW a \in Apps, SweepDone(a) PROVE FileType'
  BY <1>32 DEF SweepDone, Onward
<1>33. ASSUME NEW a \in Apps, AdmitRefused(a) PROVE FileType'
  BY <1>33 DEF AdmitRefused
<1>34. ASSUME NEW a \in Apps, Admit(a) PROVE FileType'
  BY <1>34, RowsAre DEF Admit
<1>35. ASSUME NEW a \in Apps, Popen(a) PROVE FileType'
  BY <1>35, SpawnIs DEF Popen, Exes
<1>36. ASSUME NEW a \in Apps, PopenFails(a) PROVE FileType'
  BY <1>36 DEF PopenFails
<1>37. ASSUME NEW a \in Apps, Validate(a) PROVE FileType'
  BY <1>37 DEF Validate
<1>38. ASSUME NEW a \in Apps, WriteTemporary(a) PROVE FileType'
  BY <1>38 DEF WriteTemporary
<1>39. ASSUME NEW a \in Apps, Publish(a) PROVE FileType'
  BY <1>39 DEF Publish
<1>40. ASSUME NEW a \in Apps, Establish(a) PROVE FileType'
  BY <1>40 DEF Establish
<1>41. ASSUME NEW a \in Apps, Cleanup(a) PROVE FileType'
  BY <1>41 DEF Cleanup, ForgetPopen
<1>42. ASSUME NEW a \in Apps, PublishFails(a) PROVE FileType'
  BY <1>42 DEF PublishFails
<1>43. ASSUME NEW a \in Apps, EstablishInterrupted(a) PROVE FileType'
  BY <1>43 DEF EstablishInterrupted
<1>44. ASSUME NEW a \in Apps, CleanupFails(a) PROVE FileType'
  BY <1>44 DEF CleanupFails, ForgetPopen
<1>45. ASSUME NEW a \in Apps, Fails(a) PROVE FileType'
  BY <1>45 DEF Fails, Sweeping
<1>46. ASSUME NEW a \in Apps, Crash(a) PROVE FileType'
  BY <1>46 DEF Crash
<1>47. CASE UNCHANGED vars
  BY <1>47
<1>48. QED
  BY <1>1, <1>2, <1>3, <1>4, <1>5, <1>6, <1>7, <1>8, <1>9, <1>10, <1>11, <1>12, <1>13, <1>14,
      <1>15, <1>16, <1>17, <1>18, <1>19, <1>20, <1>21, <1>22, <1>23, <1>24, <1>25, <1>26, <1>27,
      <1>28, <1>29, <1>30, <1>31, <1>32, <1>33, <1>34, <1>35, <1>36, <1>37, <1>38, <1>39, <1>40,
      <1>41, <1>42, <1>43, <1>44, <1>45, <1>46, <1>47 DEF Next, Begins, Step, Mishap

(* Every step keeps ControlType.                                            *)
LEMMA NextControlType == IInv /\ [Next]_vars => ControlType'
<1> SUFFICES ASSUME IInv, [Next]_vars PROVE ControlType'
  OBVIOUS
<1> USE NamesAssumption DEF IInv, Types, ControlType, Ops, PCs, Locked, Goto, SameWorld, SameCall,
    Return, Forget, Unlock, Fault, Ends, IsFree, osVars, fileVars, callVars, ownVars, pastVars,
    vars
<1>1. ASSUME NEW p \in Pids, Exits(p) PROVE ControlType'
  BY <1>1 DEF Exits
<1>2. ASSUME NEW p \in Pids, Reaped(p) PROVE ControlType'
  BY <1>2 DEF Reaped
<1>3. ASSUME NEW p \in Pids, OtherStarts(p) PROVE ControlType'
  BY <1>3, SpawnIs DEF OtherStarts, Exes
<1>4. ASSUME NEW a \in Apps, BeginLaunch(a) PROVE ControlType'
  BY <1>4 DEF BeginLaunch, Begin, NothingThere
<1>5. ASSUME NEW a \in Apps, BeginFind(a) PROVE ControlType'
  BY <1>5 DEF BeginFind, Begin, NothingThere
<1>6. ASSUME NEW a \in Apps, BeginKill(a) PROVE ControlType'
  BY <1>6 DEF BeginKill, Begin, NothingThere
<1>7. ASSUME NEW a \in Apps, BeginStop(a) PROVE ControlType'
  BY <1>7 DEF BeginStop, Begin, NothingThere
<1>8. ASSUME NEW a \in Apps, Acquire(a) PROVE ControlType'
  BY <1>8 DEF Acquire, Entry
<1>9. ASSUME NEW a \in Apps, LockTimesOut(a) PROVE ControlType'
  BY <1>9 DEF LockTimesOut
<1>10. ASSUME NEW a \in Apps, NoneOwned(a) PROVE ControlType'
  BY <1>10 DEF NoneOwned
<1>11. ASSUME NEW a \in Apps, FindStale(a) PROVE ControlType'
  BY <1>11, RowsAre DEF FindStale, PidListed
<1>12. ASSUME NEW a \in Apps, FindMismatch(a) PROVE ControlType'
  BY <1>12, RowsAre DEF FindMismatch, PidListed
<1>13. ASSUME NEW a \in Apps, FindOwned(a) PROVE ControlType'
  BY <1>13, RowsAre DEF FindOwned
<1>14. ASSUME NEW a \in Apps, Drop(a) PROVE ControlType'
  BY <1>14 DEF Drop
<1>15. ASSUME NEW a \in Apps, Open(a) PROVE ControlType'
  BY <1>15 DEF Open
<1>16. ASSUME NEW a \in Apps, CheckExited(a) PROVE ControlType'
  BY <1>16 DEF CheckExited
<1>17. ASSUME NEW a \in Apps, CheckIdentity(a) PROVE ControlType'
  BY <1>17 DEF CheckIdentity
<1>18. ASSUME NEW a \in Apps, SignalGraceful(a) PROVE ControlType'
  BY <1>18 DEF SignalGraceful
<1>19. ASSUME NEW a \in Apps, Survives(a) PROVE ControlType'
  BY <1>19 DEF Survives
<1>20. ASSUME NEW a \in Apps, ForceByHandle(a) PROVE ControlType'
  BY <1>20 DEF ForceByHandle
<1>21. ASSUME NEW a \in Apps, StopUnauthorized(a) PROVE ControlType'
  BY <1>21 DEF StopUnauthorized
<1>22. ASSUME NEW a \in Apps, StopAuthorized(a) PROVE ControlType'
  BY <1>22 DEF StopAuthorized
<1>23. ASSUME NEW a \in Apps, Terminate(a) PROVE ControlType'
  BY <1>23 DEF Terminate
<1>24. ASSUME NEW a \in Apps, Adopt(a) PROVE ControlType'
  BY <1>24 DEF Adopt
<1>25. ASSUME NEW a \in Apps, Unreachable(a) PROVE ControlType'
  BY <1>25 DEF Unreachable
<1>26. ASSUME NEW a \in Apps, SweepFails(a) PROVE ControlType'
  BY <1>26 DEF SweepFails, Sweeping, SettingsBusy
<1>27. ASSUME NEW a \in Apps, Sweep(a) PROVE ControlType'
  BY <1>27, RowsAre DEF Sweep, Onward
<1>28. ASSUME NEW a \in Apps, SweepEach(a) PROVE ControlType'
  BY <1>28 DEF SweepEach
<1>29. ASSUME NEW a \in Apps, SweepOpen(a) PROVE ControlType'
  BY <1>29 DEF SweepOpen
<1>30. ASSUME NEW a \in Apps, SweepSignal(a) PROVE ControlType'
  BY <1>30 DEF SweepSignal
<1>31. ASSUME NEW a \in Apps, SweepForce(a) PROVE ControlType'
  BY <1>31 DEF SweepForce
<1>32. ASSUME NEW a \in Apps, SweepDone(a) PROVE ControlType'
  BY <1>32 DEF SweepDone, Onward
<1>33. ASSUME NEW a \in Apps, AdmitRefused(a) PROVE ControlType'
  BY <1>33 DEF AdmitRefused
<1>34. ASSUME NEW a \in Apps, Admit(a) PROVE ControlType'
  BY <1>34, RowsAre DEF Admit
<1>35. ASSUME NEW a \in Apps, Popen(a) PROVE ControlType'
  BY <1>35, SpawnIs DEF Popen, Exes
<1>36. ASSUME NEW a \in Apps, PopenFails(a) PROVE ControlType'
  BY <1>36 DEF PopenFails
<1>37. ASSUME NEW a \in Apps, Validate(a) PROVE ControlType'
  BY <1>37 DEF Validate
<1>38. ASSUME NEW a \in Apps, WriteTemporary(a) PROVE ControlType'
  BY <1>38 DEF WriteTemporary
<1>39. ASSUME NEW a \in Apps, Publish(a) PROVE ControlType'
  BY <1>39 DEF Publish
<1>40. ASSUME NEW a \in Apps, Establish(a) PROVE ControlType'
  BY <1>40 DEF Establish
<1>41. ASSUME NEW a \in Apps, Cleanup(a) PROVE ControlType'
  BY <1>41 DEF Cleanup, ForgetPopen
<1>42. ASSUME NEW a \in Apps, PublishFails(a) PROVE ControlType'
  BY <1>42 DEF PublishFails
<1>43. ASSUME NEW a \in Apps, EstablishInterrupted(a) PROVE ControlType'
  BY <1>43 DEF EstablishInterrupted
<1>44. ASSUME NEW a \in Apps, CleanupFails(a) PROVE ControlType'
  BY <1>44 DEF CleanupFails, ForgetPopen
<1>45. ASSUME NEW a \in Apps, Fails(a) PROVE ControlType'
  BY <1>45 DEF Fails, Sweeping
<1>46. ASSUME NEW a \in Apps, Crash(a) PROVE ControlType'
  BY <1>46 DEF Crash
<1>47. CASE UNCHANGED vars
  BY <1>47
<1>48. QED
  BY <1>1, <1>2, <1>3, <1>4, <1>5, <1>6, <1>7, <1>8, <1>9, <1>10, <1>11, <1>12, <1>13, <1>14,
      <1>15, <1>16, <1>17, <1>18, <1>19, <1>20, <1>21, <1>22, <1>23, <1>24, <1>25, <1>26, <1>27,
      <1>28, <1>29, <1>30, <1>31, <1>32, <1>33, <1>34, <1>35, <1>36, <1>37, <1>38, <1>39, <1>40,
      <1>41, <1>42, <1>43, <1>44, <1>45, <1>46, <1>47 DEF Next, Begins, Step, Mishap

(* Every step keeps CallType.                                               *)
LEMMA NextCallType == IInv /\ [Next]_vars => CallType'
<1> SUFFICES ASSUME IInv, [Next]_vars PROVE CallType'
  OBVIOUS
<1> USE NamesAssumption DEF IInv, Types, OsType, FileType, CallType, StepInv, SweepInv, Sweeping,
    Identities, Goto, SameWorld, SameCall, Return, Forget, Unlock, Fault, Ends, IsFree, osVars,
    fileVars, callVars, ownVars, pastVars, vars
<1>1. ASSUME NEW p \in Pids, Exits(p) PROVE CallType'
  BY <1>1 DEF Exits
<1>2. ASSUME NEW p \in Pids, Reaped(p) PROVE CallType'
  BY <1>2 DEF Reaped
<1>3. ASSUME NEW p \in Pids, OtherStarts(p) PROVE CallType'
  BY <1>3, SpawnIs DEF OtherStarts, Exes
<1>4. ASSUME NEW a \in Apps, BeginLaunch(a) PROVE CallType'
  BY <1>4 DEF BeginLaunch, Begin, NothingThere
<1>5. ASSUME NEW a \in Apps, BeginFind(a) PROVE CallType'
  BY <1>5 DEF BeginFind, Begin, NothingThere
<1>6. ASSUME NEW a \in Apps, BeginKill(a) PROVE CallType'
  BY <1>6 DEF BeginKill, Begin, NothingThere
<1>7. ASSUME NEW a \in Apps, BeginStop(a) PROVE CallType'
  BY <1>7 DEF BeginStop, Begin, NothingThere
<1>8. ASSUME NEW a \in Apps, Acquire(a) PROVE CallType'
  BY <1>8 DEF Acquire, Entry
<1>9. ASSUME NEW a \in Apps, LockTimesOut(a) PROVE CallType'
  BY <1>9 DEF LockTimesOut
<1>10. ASSUME NEW a \in Apps, NoneOwned(a) PROVE CallType'
  BY <1>10 DEF NoneOwned
<1>11. ASSUME NEW a \in Apps, FindStale(a) PROVE CallType'
  BY <1>11, RowsAre DEF FindStale, PidListed
<1>12. ASSUME NEW a \in Apps, FindMismatch(a) PROVE CallType'
  BY <1>12, RowsAre DEF FindMismatch, PidListed
<1>13. ASSUME NEW a \in Apps, FindOwned(a) PROVE CallType'
  <2>1. lease \in Identities
    BY <1>13, RowsAre DEF FindOwned
  <2>2. CASE op[a] = "kill" /\ target' = [target EXCEPT ![a] = lease]
                /\ UNCHANGED <<expected, todo, handles, force, forced>>
    BY <2>1, <2>2
  <2>3. CASE UNCHANGED callVars
    BY <2>3
  <2>4. CASE Return(a)
    BY <2>4
  <2>5. QED
    BY <1>13, <2>2, <2>3, <2>4 DEF FindOwned
<1>14. ASSUME NEW a \in Apps, Drop(a) PROVE CallType'
  BY <1>14 DEF Drop
<1>15. ASSUME NEW a \in Apps, Open(a) PROVE CallType'
  BY <1>15 DEF Open
<1>16. ASSUME NEW a \in Apps, CheckExited(a) PROVE CallType'
  BY <1>16 DEF CheckExited
<1>17. ASSUME NEW a \in Apps, CheckIdentity(a) PROVE CallType'
  BY <1>17 DEF CheckIdentity
<1>18. ASSUME NEW a \in Apps, SignalGraceful(a) PROVE CallType'
  BY <1>18 DEF SignalGraceful
<1>19. ASSUME NEW a \in Apps, Survives(a) PROVE CallType'
  BY <1>19 DEF Survives
<1>20. ASSUME NEW a \in Apps, ForceByHandle(a) PROVE CallType'
  BY <1>20 DEF ForceByHandle
<1>21. ASSUME NEW a \in Apps, StopUnauthorized(a) PROVE CallType'
  BY <1>21 DEF StopUnauthorized
<1>22. ASSUME NEW a \in Apps, StopAuthorized(a) PROVE CallType'
  BY <1>22 DEF StopAuthorized
<1>23. ASSUME NEW a \in Apps, Terminate(a) PROVE CallType'
  BY <1>23 DEF Terminate
<1>24. ASSUME NEW a \in Apps, Adopt(a) PROVE CallType'
  BY <1>24 DEF Adopt
<1>25. ASSUME NEW a \in Apps, Unreachable(a) PROVE CallType'
  BY <1>25 DEF Unreachable
<1>26. ASSUME NEW a \in Apps, SweepFails(a) PROVE CallType'
  BY <1>26 DEF SweepFails, Sweeping, SettingsBusy
<1>27. ASSUME NEW a \in Apps, Sweep(a) PROVE CallType'
  <2>1. Rows \in SUBSET Identities
    BY RowsAre
  <2>2. CASE Rows = {}
    BY <1>27, <2>2 DEF Sweep, Onward
  <2>3. CASE Rows # {}
    BY <1>27, <2>1, <2>3 DEF Sweep
  <2>4. QED
    BY <2>2, <2>3
<1>28. ASSUME NEW a \in Apps, SweepEach(a) PROVE CallType'
  BY <1>28 DEF SweepEach
<1>29. ASSUME NEW a \in Apps, SweepOpen(a) PROVE CallType'
  BY <1>29 DEF SweepOpen
<1>30. ASSUME NEW a \in Apps, SweepSignal(a) PROVE CallType'
  BY <1>30 DEF SweepSignal
<1>31. ASSUME NEW a \in Apps, SweepForce(a) PROVE CallType'
  BY <1>31 DEF SweepForce
<1>32. ASSUME NEW a \in Apps, SweepDone(a) PROVE CallType'
  BY <1>32 DEF SweepDone, Onward
<1>33. ASSUME NEW a \in Apps, AdmitRefused(a) PROVE CallType'
  BY <1>33 DEF AdmitRefused
<1>34. ASSUME NEW a \in Apps, Admit(a) PROVE CallType'
  BY <1>34, RowsAre DEF Admit
<1>35. ASSUME NEW a \in Apps, Popen(a) PROVE CallType'
  BY <1>35, SpawnIs DEF Popen, Exes
<1>36. ASSUME NEW a \in Apps, PopenFails(a) PROVE CallType'
  BY <1>36 DEF PopenFails
<1>37. ASSUME NEW a \in Apps, Validate(a) PROVE CallType'
  BY <1>37 DEF Validate
<1>38. ASSUME NEW a \in Apps, WriteTemporary(a) PROVE CallType'
  BY <1>38 DEF WriteTemporary
<1>39. ASSUME NEW a \in Apps, Publish(a) PROVE CallType'
  BY <1>39 DEF Publish
<1>40. ASSUME NEW a \in Apps, Establish(a) PROVE CallType'
  BY <1>40 DEF Establish
<1>41. ASSUME NEW a \in Apps, Cleanup(a) PROVE CallType'
  BY <1>41 DEF Cleanup, ForgetPopen
<1>42. ASSUME NEW a \in Apps, PublishFails(a) PROVE CallType'
  BY <1>42 DEF PublishFails
<1>43. ASSUME NEW a \in Apps, EstablishInterrupted(a) PROVE CallType'
  BY <1>43 DEF EstablishInterrupted
<1>44. ASSUME NEW a \in Apps, CleanupFails(a) PROVE CallType'
  BY <1>44 DEF CleanupFails, ForgetPopen
<1>45. ASSUME NEW a \in Apps, Fails(a) PROVE CallType'
  BY <1>45 DEF Fails, Sweeping
<1>46. ASSUME NEW a \in Apps, Crash(a) PROVE CallType'
  BY <1>46 DEF Crash
<1>47. CASE UNCHANGED vars
  BY <1>47
<1>48. QED
  BY <1>1, <1>2, <1>3, <1>4, <1>5, <1>6, <1>7, <1>8, <1>9, <1>10, <1>11, <1>12, <1>13, <1>14,
      <1>15, <1>16, <1>17, <1>18, <1>19, <1>20, <1>21, <1>22, <1>23, <1>24, <1>25, <1>26, <1>27,
      <1>28, <1>29, <1>30, <1>31, <1>32, <1>33, <1>34, <1>35, <1>36, <1>37, <1>38, <1>39, <1>40,
      <1>41, <1>42, <1>43, <1>44, <1>45, <1>46, <1>47 DEF Next, Begins, Step, Mishap

(* Every step keeps OwnType.                                                *)
LEMMA NextOwnType == IInv /\ [Next]_vars => OwnType'
<1> SUFFICES ASSUME IInv, [Next]_vars PROVE OwnType'
  OBVIOUS
<1> USE NamesAssumption DEF IInv, Types, OsType, OwnType, Goto, SameWorld, SameCall, Return,
    Forget, Unlock, Fault, Ends, IsFree, osVars, fileVars, callVars, ownVars, pastVars, vars
<1>1. ASSUME NEW p \in Pids, Exits(p) PROVE OwnType'
  BY <1>1 DEF Exits
<1>2. ASSUME NEW p \in Pids, Reaped(p) PROVE OwnType'
  BY <1>2 DEF Reaped
<1>3. ASSUME NEW p \in Pids, OtherStarts(p) PROVE OwnType'
  BY <1>3, SpawnIs DEF OtherStarts, Exes
<1>4. ASSUME NEW a \in Apps, BeginLaunch(a) PROVE OwnType'
  BY <1>4 DEF BeginLaunch, Begin, NothingThere
<1>5. ASSUME NEW a \in Apps, BeginFind(a) PROVE OwnType'
  BY <1>5 DEF BeginFind, Begin, NothingThere
<1>6. ASSUME NEW a \in Apps, BeginKill(a) PROVE OwnType'
  BY <1>6 DEF BeginKill, Begin, NothingThere
<1>7. ASSUME NEW a \in Apps, BeginStop(a) PROVE OwnType'
  BY <1>7 DEF BeginStop, Begin, NothingThere
<1>8. ASSUME NEW a \in Apps, Acquire(a) PROVE OwnType'
  BY <1>8 DEF Acquire, Entry
<1>9. ASSUME NEW a \in Apps, LockTimesOut(a) PROVE OwnType'
  BY <1>9 DEF LockTimesOut
<1>10. ASSUME NEW a \in Apps, NoneOwned(a) PROVE OwnType'
  BY <1>10 DEF NoneOwned
<1>11. ASSUME NEW a \in Apps, FindStale(a) PROVE OwnType'
  BY <1>11, RowsAre DEF FindStale, PidListed
<1>12. ASSUME NEW a \in Apps, FindMismatch(a) PROVE OwnType'
  BY <1>12, RowsAre DEF FindMismatch, PidListed
<1>13. ASSUME NEW a \in Apps, FindOwned(a) PROVE OwnType'
  BY <1>13, RowsAre DEF FindOwned
<1>14. ASSUME NEW a \in Apps, Drop(a) PROVE OwnType'
  BY <1>14 DEF Drop
<1>15. ASSUME NEW a \in Apps, Open(a) PROVE OwnType'
  BY <1>15 DEF Open
<1>16. ASSUME NEW a \in Apps, CheckExited(a) PROVE OwnType'
  BY <1>16 DEF CheckExited
<1>17. ASSUME NEW a \in Apps, CheckIdentity(a) PROVE OwnType'
  BY <1>17 DEF CheckIdentity
<1>18. ASSUME NEW a \in Apps, SignalGraceful(a) PROVE OwnType'
  BY <1>18 DEF SignalGraceful
<1>19. ASSUME NEW a \in Apps, Survives(a) PROVE OwnType'
  BY <1>19 DEF Survives
<1>20. ASSUME NEW a \in Apps, ForceByHandle(a) PROVE OwnType'
  BY <1>20 DEF ForceByHandle
<1>21. ASSUME NEW a \in Apps, StopUnauthorized(a) PROVE OwnType'
  BY <1>21 DEF StopUnauthorized
<1>22. ASSUME NEW a \in Apps, StopAuthorized(a) PROVE OwnType'
  BY <1>22 DEF StopAuthorized
<1>23. ASSUME NEW a \in Apps, Terminate(a) PROVE OwnType'
  BY <1>23 DEF Terminate
<1>24. ASSUME NEW a \in Apps, Adopt(a) PROVE OwnType'
  BY <1>24 DEF Adopt
<1>25. ASSUME NEW a \in Apps, Unreachable(a) PROVE OwnType'
  BY <1>25 DEF Unreachable
<1>26. ASSUME NEW a \in Apps, SweepFails(a) PROVE OwnType'
  BY <1>26 DEF SweepFails, Sweeping, SettingsBusy
<1>27. ASSUME NEW a \in Apps, Sweep(a) PROVE OwnType'
  BY <1>27, RowsAre DEF Sweep, Onward
<1>28. ASSUME NEW a \in Apps, SweepEach(a) PROVE OwnType'
  BY <1>28 DEF SweepEach
<1>29. ASSUME NEW a \in Apps, SweepOpen(a) PROVE OwnType'
  BY <1>29 DEF SweepOpen
<1>30. ASSUME NEW a \in Apps, SweepSignal(a) PROVE OwnType'
  BY <1>30 DEF SweepSignal
<1>31. ASSUME NEW a \in Apps, SweepForce(a) PROVE OwnType'
  BY <1>31 DEF SweepForce
<1>32. ASSUME NEW a \in Apps, SweepDone(a) PROVE OwnType'
  BY <1>32 DEF SweepDone, Onward
<1>33. ASSUME NEW a \in Apps, AdmitRefused(a) PROVE OwnType'
  BY <1>33 DEF AdmitRefused
<1>34. ASSUME NEW a \in Apps, Admit(a) PROVE OwnType'
  BY <1>34, RowsAre DEF Admit
<1>35. ASSUME NEW a \in Apps, Popen(a) PROVE OwnType'
  BY <1>35, SpawnIs DEF Popen, Exes
<1>36. ASSUME NEW a \in Apps, PopenFails(a) PROVE OwnType'
  BY <1>36 DEF PopenFails
<1>37. ASSUME NEW a \in Apps, Validate(a) PROVE OwnType'
  BY <1>37 DEF Validate
<1>38. ASSUME NEW a \in Apps, WriteTemporary(a) PROVE OwnType'
  BY <1>38 DEF WriteTemporary
<1>39. ASSUME NEW a \in Apps, Publish(a) PROVE OwnType'
  BY <1>39 DEF Publish
<1>40. ASSUME NEW a \in Apps, Establish(a) PROVE OwnType'
  BY <1>40 DEF Establish
<1>41. ASSUME NEW a \in Apps, Cleanup(a) PROVE OwnType'
  BY <1>41 DEF Cleanup, ForgetPopen
<1>42. ASSUME NEW a \in Apps, PublishFails(a) PROVE OwnType'
  BY <1>42 DEF PublishFails
<1>43. ASSUME NEW a \in Apps, EstablishInterrupted(a) PROVE OwnType'
  BY <1>43 DEF EstablishInterrupted
<1>44. ASSUME NEW a \in Apps, CleanupFails(a) PROVE OwnType'
  BY <1>44 DEF CleanupFails, ForgetPopen
<1>45. ASSUME NEW a \in Apps, Fails(a) PROVE OwnType'
  BY <1>45 DEF Fails, Sweeping
<1>46. ASSUME NEW a \in Apps, Crash(a) PROVE OwnType'
  BY <1>46 DEF Crash
<1>47. CASE UNCHANGED vars
  BY <1>47
<1>48. QED
  BY <1>1, <1>2, <1>3, <1>4, <1>5, <1>6, <1>7, <1>8, <1>9, <1>10, <1>11, <1>12, <1>13, <1>14,
      <1>15, <1>16, <1>17, <1>18, <1>19, <1>20, <1>21, <1>22, <1>23, <1>24, <1>25, <1>26, <1>27,
      <1>28, <1>29, <1>30, <1>31, <1>32, <1>33, <1>34, <1>35, <1>36, <1>37, <1>38, <1>39, <1>40,
      <1>41, <1>42, <1>43, <1>44, <1>45, <1>46, <1>47 DEF Next, Begins, Step, Mishap

(* Every step keeps PastType.                                               *)
LEMMA NextPastType == IInv /\ [Next]_vars => PastType'
<1> SUFFICES ASSUME IInv, [Next]_vars PROVE PastType'
  OBVIOUS
<1> USE NamesAssumption DEF IInv, Types, OsType, PastType, Goto, SameWorld, SameCall, Return,
    Forget, Unlock, Fault, Ends, IsFree, osVars, fileVars, callVars, ownVars, pastVars, vars
<1>1. ASSUME NEW p \in Pids, Exits(p) PROVE PastType'
  BY <1>1 DEF Exits
<1>2. ASSUME NEW p \in Pids, Reaped(p) PROVE PastType'
  BY <1>2 DEF Reaped
<1>3. ASSUME NEW p \in Pids, OtherStarts(p) PROVE PastType'
  BY <1>3, SpawnIs DEF OtherStarts, Exes
<1>4. ASSUME NEW a \in Apps, BeginLaunch(a) PROVE PastType'
  BY <1>4 DEF BeginLaunch, Begin, NothingThere
<1>5. ASSUME NEW a \in Apps, BeginFind(a) PROVE PastType'
  BY <1>5 DEF BeginFind, Begin, NothingThere
<1>6. ASSUME NEW a \in Apps, BeginKill(a) PROVE PastType'
  BY <1>6 DEF BeginKill, Begin, NothingThere
<1>7. ASSUME NEW a \in Apps, BeginStop(a) PROVE PastType'
  BY <1>7 DEF BeginStop, Begin, NothingThere
<1>8. ASSUME NEW a \in Apps, Acquire(a) PROVE PastType'
  BY <1>8 DEF Acquire, Entry
<1>9. ASSUME NEW a \in Apps, LockTimesOut(a) PROVE PastType'
  BY <1>9 DEF LockTimesOut
<1>10. ASSUME NEW a \in Apps, NoneOwned(a) PROVE PastType'
  BY <1>10 DEF NoneOwned
<1>11. ASSUME NEW a \in Apps, FindStale(a) PROVE PastType'
  BY <1>11, RowsAre DEF FindStale, PidListed
<1>12. ASSUME NEW a \in Apps, FindMismatch(a) PROVE PastType'
  BY <1>12, RowsAre DEF FindMismatch, PidListed
<1>13. ASSUME NEW a \in Apps, FindOwned(a) PROVE PastType'
  BY <1>13, RowsAre DEF FindOwned
<1>14. ASSUME NEW a \in Apps, Drop(a) PROVE PastType'
  BY <1>14 DEF Drop
<1>15. ASSUME NEW a \in Apps, Open(a) PROVE PastType'
  BY <1>15 DEF Open
<1>16. ASSUME NEW a \in Apps, CheckExited(a) PROVE PastType'
  BY <1>16 DEF CheckExited
<1>17. ASSUME NEW a \in Apps, CheckIdentity(a) PROVE PastType'
  BY <1>17 DEF CheckIdentity
<1>18. ASSUME NEW a \in Apps, SignalGraceful(a) PROVE PastType'
  BY <1>18 DEF SignalGraceful
<1>19. ASSUME NEW a \in Apps, Survives(a) PROVE PastType'
  BY <1>19 DEF Survives
<1>20. ASSUME NEW a \in Apps, ForceByHandle(a) PROVE PastType'
  BY <1>20 DEF ForceByHandle
<1>21. ASSUME NEW a \in Apps, StopUnauthorized(a) PROVE PastType'
  BY <1>21 DEF StopUnauthorized
<1>22. ASSUME NEW a \in Apps, StopAuthorized(a) PROVE PastType'
  BY <1>22 DEF StopAuthorized
<1>23. ASSUME NEW a \in Apps, Terminate(a) PROVE PastType'
  BY <1>23 DEF Terminate
<1>24. ASSUME NEW a \in Apps, Adopt(a) PROVE PastType'
  BY <1>24 DEF Adopt
<1>25. ASSUME NEW a \in Apps, Unreachable(a) PROVE PastType'
  BY <1>25 DEF Unreachable
<1>26. ASSUME NEW a \in Apps, SweepFails(a) PROVE PastType'
  BY <1>26 DEF SweepFails, Sweeping, SettingsBusy
<1>27. ASSUME NEW a \in Apps, Sweep(a) PROVE PastType'
  BY <1>27, RowsAre DEF Sweep, Onward
<1>28. ASSUME NEW a \in Apps, SweepEach(a) PROVE PastType'
  BY <1>28 DEF SweepEach
<1>29. ASSUME NEW a \in Apps, SweepOpen(a) PROVE PastType'
  BY <1>29 DEF SweepOpen
<1>30. ASSUME NEW a \in Apps, SweepSignal(a) PROVE PastType'
  BY <1>30 DEF SweepSignal
<1>31. ASSUME NEW a \in Apps, SweepForce(a) PROVE PastType'
  BY <1>31 DEF SweepForce
<1>32. ASSUME NEW a \in Apps, SweepDone(a) PROVE PastType'
  BY <1>32 DEF SweepDone, Onward
<1>33. ASSUME NEW a \in Apps, AdmitRefused(a) PROVE PastType'
  BY <1>33 DEF AdmitRefused
<1>34. ASSUME NEW a \in Apps, Admit(a) PROVE PastType'
  BY <1>34, RowsAre DEF Admit
<1>35. ASSUME NEW a \in Apps, Popen(a) PROVE PastType'
  BY <1>35, SpawnIs DEF Popen, Exes
<1>36. ASSUME NEW a \in Apps, PopenFails(a) PROVE PastType'
  BY <1>36 DEF PopenFails
<1>37. ASSUME NEW a \in Apps, Validate(a) PROVE PastType'
  BY <1>37 DEF Validate
<1>38. ASSUME NEW a \in Apps, WriteTemporary(a) PROVE PastType'
  BY <1>38 DEF WriteTemporary
<1>39. ASSUME NEW a \in Apps, Publish(a) PROVE PastType'
  BY <1>39 DEF Publish
<1>40. ASSUME NEW a \in Apps, Establish(a) PROVE PastType'
  BY <1>40 DEF Establish
<1>41. ASSUME NEW a \in Apps, Cleanup(a) PROVE PastType'
  BY <1>41 DEF Cleanup, ForgetPopen
<1>42. ASSUME NEW a \in Apps, PublishFails(a) PROVE PastType'
  BY <1>42 DEF PublishFails
<1>43. ASSUME NEW a \in Apps, EstablishInterrupted(a) PROVE PastType'
  BY <1>43 DEF EstablishInterrupted
<1>44. ASSUME NEW a \in Apps, CleanupFails(a) PROVE PastType'
  BY <1>44 DEF CleanupFails, ForgetPopen
<1>45. ASSUME NEW a \in Apps, Fails(a) PROVE PastType'
  BY <1>45 DEF Fails, Sweeping
<1>46. ASSUME NEW a \in Apps, Crash(a) PROVE PastType'
  BY <1>46 DEF Crash
<1>47. CASE UNCHANGED vars
  BY <1>47
<1>48. QED
  BY <1>1, <1>2, <1>3, <1>4, <1>5, <1>6, <1>7, <1>8, <1>9, <1>10, <1>11, <1>12, <1>13, <1>14,
      <1>15, <1>16, <1>17, <1>18, <1>19, <1>20, <1>21, <1>22, <1>23, <1>24, <1>25, <1>26, <1>27,
      <1>28, <1>29, <1>30, <1>31, <1>32, <1>33, <1>34, <1>35, <1>36, <1>37, <1>38, <1>39, <1>40,
      <1>41, <1>42, <1>43, <1>44, <1>45, <1>46, <1>47 DEF Next, Begins, Step, Mishap

(* Every step keeps TableInv.                                               *)
LEMMA NextTableInv == IInv /\ [Next]_vars => TableInv'
<1> SUFFICES ASSUME IInv, [Next]_vars PROVE TableInv'
  OBVIOUS
<1> USE NamesAssumption DEF IInv, Types, OsType, PastType, OwnType, TableInv, Identities, Goto,
    SameWorld, SameCall, Return, Forget, Unlock, Fault, Ends, IsFree, osVars, fileVars, callVars,
    ownVars, pastVars, vars
<1>1. ASSUME NEW p \in Pids, Exits(p) PROVE TableInv'
  BY <1>1 DEF Exits
<1>2. ASSUME NEW p \in Pids, Reaped(p) PROVE TableInv'
  BY <1>2 DEF Reaped
<1>3. ASSUME NEW p \in Pids, OtherStarts(p) PROVE TableInv'
  BY <1>3, SpawnIs DEF OtherStarts, Exes
<1>4. ASSUME NEW a \in Apps, BeginLaunch(a) PROVE TableInv'
  BY <1>4 DEF BeginLaunch, Begin, NothingThere
<1>5. ASSUME NEW a \in Apps, BeginFind(a) PROVE TableInv'
  BY <1>5 DEF BeginFind, Begin, NothingThere
<1>6. ASSUME NEW a \in Apps, BeginKill(a) PROVE TableInv'
  BY <1>6 DEF BeginKill, Begin, NothingThere
<1>7. ASSUME NEW a \in Apps, BeginStop(a) PROVE TableInv'
  BY <1>7 DEF BeginStop, Begin, NothingThere
<1>8. ASSUME NEW a \in Apps, Acquire(a) PROVE TableInv'
  BY <1>8 DEF Acquire, Entry
<1>9. ASSUME NEW a \in Apps, LockTimesOut(a) PROVE TableInv'
  BY <1>9 DEF LockTimesOut
<1>10. ASSUME NEW a \in Apps, NoneOwned(a) PROVE TableInv'
  BY <1>10 DEF NoneOwned
<1>11. ASSUME NEW a \in Apps, FindStale(a) PROVE TableInv'
  BY <1>11, RowsAre DEF FindStale, PidListed
<1>12. ASSUME NEW a \in Apps, FindMismatch(a) PROVE TableInv'
  BY <1>12, RowsAre DEF FindMismatch, PidListed
<1>13. ASSUME NEW a \in Apps, FindOwned(a) PROVE TableInv'
  BY <1>13, RowsAre DEF FindOwned
<1>14. ASSUME NEW a \in Apps, Drop(a) PROVE TableInv'
  BY <1>14 DEF Drop
<1>15. ASSUME NEW a \in Apps, Open(a) PROVE TableInv'
  BY <1>15 DEF Open
<1>16. ASSUME NEW a \in Apps, CheckExited(a) PROVE TableInv'
  BY <1>16 DEF CheckExited
<1>17. ASSUME NEW a \in Apps, CheckIdentity(a) PROVE TableInv'
  BY <1>17 DEF CheckIdentity
<1>18. ASSUME NEW a \in Apps, SignalGraceful(a) PROVE TableInv'
  BY <1>18 DEF SignalGraceful
<1>19. ASSUME NEW a \in Apps, Survives(a) PROVE TableInv'
  BY <1>19 DEF Survives
<1>20. ASSUME NEW a \in Apps, ForceByHandle(a) PROVE TableInv'
  BY <1>20 DEF ForceByHandle
<1>21. ASSUME NEW a \in Apps, StopUnauthorized(a) PROVE TableInv'
  BY <1>21 DEF StopUnauthorized
<1>22. ASSUME NEW a \in Apps, StopAuthorized(a) PROVE TableInv'
  BY <1>22 DEF StopAuthorized
<1>23. ASSUME NEW a \in Apps, Terminate(a) PROVE TableInv'
  BY <1>23 DEF Terminate
<1>24. ASSUME NEW a \in Apps, Adopt(a) PROVE TableInv'
  BY <1>24 DEF Adopt
<1>25. ASSUME NEW a \in Apps, Unreachable(a) PROVE TableInv'
  BY <1>25 DEF Unreachable
<1>26. ASSUME NEW a \in Apps, SweepFails(a) PROVE TableInv'
  BY <1>26 DEF SweepFails, Sweeping, SettingsBusy
<1>27. ASSUME NEW a \in Apps, Sweep(a) PROVE TableInv'
  BY <1>27, RowsAre DEF Sweep, Onward
<1>28. ASSUME NEW a \in Apps, SweepEach(a) PROVE TableInv'
  BY <1>28 DEF SweepEach
<1>29. ASSUME NEW a \in Apps, SweepOpen(a) PROVE TableInv'
  BY <1>29 DEF SweepOpen
<1>30. ASSUME NEW a \in Apps, SweepSignal(a) PROVE TableInv'
  BY <1>30 DEF SweepSignal
<1>31. ASSUME NEW a \in Apps, SweepForce(a) PROVE TableInv'
  BY <1>31 DEF SweepForce
<1>32. ASSUME NEW a \in Apps, SweepDone(a) PROVE TableInv'
  BY <1>32 DEF SweepDone, Onward
<1>33. ASSUME NEW a \in Apps, AdmitRefused(a) PROVE TableInv'
  BY <1>33 DEF AdmitRefused
<1>34. ASSUME NEW a \in Apps, Admit(a) PROVE TableInv'
  BY <1>34, RowsAre DEF Admit
<1>35. ASSUME NEW a \in Apps, Popen(a) PROVE TableInv'
  BY <1>35, SpawnIs DEF Popen, Exes
<1>36. ASSUME NEW a \in Apps, PopenFails(a) PROVE TableInv'
  BY <1>36 DEF PopenFails
<1>37. ASSUME NEW a \in Apps, Validate(a) PROVE TableInv'
  BY <1>37 DEF Validate
<1>38. ASSUME NEW a \in Apps, WriteTemporary(a) PROVE TableInv'
  BY <1>38 DEF WriteTemporary
<1>39. ASSUME NEW a \in Apps, Publish(a) PROVE TableInv'
  BY <1>39 DEF Publish
<1>40. ASSUME NEW a \in Apps, Establish(a) PROVE TableInv'
  BY <1>40 DEF Establish
<1>41. ASSUME NEW a \in Apps, Cleanup(a) PROVE TableInv'
  BY <1>41 DEF Cleanup, ForgetPopen
<1>42. ASSUME NEW a \in Apps, PublishFails(a) PROVE TableInv'
  BY <1>42 DEF PublishFails
<1>43. ASSUME NEW a \in Apps, EstablishInterrupted(a) PROVE TableInv'
  BY <1>43 DEF EstablishInterrupted
<1>44. ASSUME NEW a \in Apps, CleanupFails(a) PROVE TableInv'
  BY <1>44 DEF CleanupFails, ForgetPopen
<1>45. ASSUME NEW a \in Apps, Fails(a) PROVE TableInv'
  BY <1>45 DEF Fails, Sweeping
<1>46. ASSUME NEW a \in Apps, Crash(a) PROVE TableInv'
  BY <1>46 DEF Crash
<1>47. CASE UNCHANGED vars
  BY <1>47
<1>48. QED
  BY <1>1, <1>2, <1>3, <1>4, <1>5, <1>6, <1>7, <1>8, <1>9, <1>10, <1>11, <1>12, <1>13, <1>14,
      <1>15, <1>16, <1>17, <1>18, <1>19, <1>20, <1>21, <1>22, <1>23, <1>24, <1>25, <1>26, <1>27,
      <1>28, <1>29, <1>30, <1>31, <1>32, <1>33, <1>34, <1>35, <1>36, <1>37, <1>38, <1>39, <1>40,
      <1>41, <1>42, <1>43, <1>44, <1>45, <1>46, <1>47 DEF Next, Begins, Step, Mishap

(* Every step keeps LeaseInv.                                               *)
LEMMA NextLeaseInv == IInv /\ [Next]_vars => LeaseInv'
<1> SUFFICES ASSUME IInv, [Next]_vars PROVE LeaseInv'
  OBVIOUS
<1> USE NamesAssumption DEF IInv, Types, OsType, FileType, ControlType, CallType, OwnType,
    PastType, LeaseInv, HeldInv, CallInv, Identities, Legacy, Owning, Goto, SameWorld, SameCall,
    Return, Forget, Unlock, Fault, Ends, IsFree, osVars, fileVars, callVars, ownVars, pastVars,
    vars
<1>1. ASSUME NEW p \in Pids, Exits(p) PROVE LeaseInv'
  BY <1>1 DEF Exits
<1>2. ASSUME NEW p \in Pids, Reaped(p) PROVE LeaseInv'
  BY <1>2 DEF Reaped
<1>3. ASSUME NEW p \in Pids, OtherStarts(p) PROVE LeaseInv'
  BY <1>3, SpawnIs DEF OtherStarts, Exes
<1>4. ASSUME NEW a \in Apps, BeginLaunch(a) PROVE LeaseInv'
  BY <1>4 DEF BeginLaunch, Begin, NothingThere
<1>5. ASSUME NEW a \in Apps, BeginFind(a) PROVE LeaseInv'
  BY <1>5 DEF BeginFind, Begin, NothingThere
<1>6. ASSUME NEW a \in Apps, BeginKill(a) PROVE LeaseInv'
  BY <1>6 DEF BeginKill, Begin, NothingThere
<1>7. ASSUME NEW a \in Apps, BeginStop(a) PROVE LeaseInv'
  BY <1>7 DEF BeginStop, Begin, NothingThere
<1>8. ASSUME NEW a \in Apps, Acquire(a) PROVE LeaseInv'
  BY <1>8 DEF Acquire, Entry
<1>9. ASSUME NEW a \in Apps, LockTimesOut(a) PROVE LeaseInv'
  BY <1>9 DEF LockTimesOut
<1>10. ASSUME NEW a \in Apps, NoneOwned(a) PROVE LeaseInv'
  BY <1>10 DEF NoneOwned
<1>11. ASSUME NEW a \in Apps, FindStale(a) PROVE LeaseInv'
  BY <1>11, RowsAre DEF FindStale, PidListed
<1>12. ASSUME NEW a \in Apps, FindMismatch(a) PROVE LeaseInv'
  BY <1>12, RowsAre DEF FindMismatch, PidListed
<1>13. ASSUME NEW a \in Apps, FindOwned(a) PROVE LeaseInv'
  BY <1>13, RowsAre DEF FindOwned
<1>14. ASSUME NEW a \in Apps, Drop(a) PROVE LeaseInv'
  BY <1>14 DEF Drop
<1>15. ASSUME NEW a \in Apps, Open(a) PROVE LeaseInv'
  BY <1>15 DEF Open
<1>16. ASSUME NEW a \in Apps, CheckExited(a) PROVE LeaseInv'
  BY <1>16 DEF CheckExited
<1>17. ASSUME NEW a \in Apps, CheckIdentity(a) PROVE LeaseInv'
  BY <1>17 DEF CheckIdentity
<1>18. ASSUME NEW a \in Apps, SignalGraceful(a) PROVE LeaseInv'
  BY <1>18 DEF SignalGraceful
<1>19. ASSUME NEW a \in Apps, Survives(a) PROVE LeaseInv'
  BY <1>19 DEF Survives
<1>20. ASSUME NEW a \in Apps, ForceByHandle(a) PROVE LeaseInv'
  BY <1>20 DEF ForceByHandle
<1>21. ASSUME NEW a \in Apps, StopUnauthorized(a) PROVE LeaseInv'
  BY <1>21 DEF StopUnauthorized
<1>22. ASSUME NEW a \in Apps, StopAuthorized(a) PROVE LeaseInv'
  BY <1>22 DEF StopAuthorized
<1>23. ASSUME NEW a \in Apps, Terminate(a) PROVE LeaseInv'
  BY <1>23 DEF Terminate
<1>24. ASSUME NEW a \in Apps, Adopt(a) PROVE LeaseInv'
  BY <1>24 DEF Adopt
<1>25. ASSUME NEW a \in Apps, Unreachable(a) PROVE LeaseInv'
  BY <1>25 DEF Unreachable
<1>26. ASSUME NEW a \in Apps, SweepFails(a) PROVE LeaseInv'
  BY <1>26 DEF SweepFails, Sweeping, SettingsBusy
<1>27. ASSUME NEW a \in Apps, Sweep(a) PROVE LeaseInv'
  BY <1>27, RowsAre DEF Sweep, Onward
<1>28. ASSUME NEW a \in Apps, SweepEach(a) PROVE LeaseInv'
  BY <1>28 DEF SweepEach
<1>29. ASSUME NEW a \in Apps, SweepOpen(a) PROVE LeaseInv'
  BY <1>29 DEF SweepOpen
<1>30. ASSUME NEW a \in Apps, SweepSignal(a) PROVE LeaseInv'
  BY <1>30 DEF SweepSignal
<1>31. ASSUME NEW a \in Apps, SweepForce(a) PROVE LeaseInv'
  BY <1>31 DEF SweepForce
<1>32. ASSUME NEW a \in Apps, SweepDone(a) PROVE LeaseInv'
  BY <1>32 DEF SweepDone, Onward
<1>33. ASSUME NEW a \in Apps, AdmitRefused(a) PROVE LeaseInv'
  BY <1>33 DEF AdmitRefused
<1>34. ASSUME NEW a \in Apps, Admit(a) PROVE LeaseInv'
  BY <1>34, RowsAre DEF Admit
<1>35. ASSUME NEW a \in Apps, Popen(a) PROVE LeaseInv'
  BY <1>35, SpawnIs DEF Popen, Exes
<1>36. ASSUME NEW a \in Apps, PopenFails(a) PROVE LeaseInv'
  BY <1>36 DEF PopenFails
<1>37. ASSUME NEW a \in Apps, Validate(a) PROVE LeaseInv'
  BY <1>37 DEF Validate
<1>38. ASSUME NEW a \in Apps, WriteTemporary(a) PROVE LeaseInv'
  BY <1>38 DEF WriteTemporary
<1>39. ASSUME NEW a \in Apps, Publish(a) PROVE LeaseInv'
  BY <1>39 DEF Publish
<1>40. ASSUME NEW a \in Apps, Establish(a) PROVE LeaseInv'
  BY <1>40 DEF Establish
<1>41. ASSUME NEW a \in Apps, Cleanup(a) PROVE LeaseInv'
  BY <1>41 DEF Cleanup, ForgetPopen
<1>42. ASSUME NEW a \in Apps, PublishFails(a) PROVE LeaseInv'
  BY <1>42 DEF PublishFails
<1>43. ASSUME NEW a \in Apps, EstablishInterrupted(a) PROVE LeaseInv'
  BY <1>43 DEF EstablishInterrupted
<1>44. ASSUME NEW a \in Apps, CleanupFails(a) PROVE LeaseInv'
  BY <1>44 DEF CleanupFails, ForgetPopen
<1>45. ASSUME NEW a \in Apps, Fails(a) PROVE LeaseInv'
  BY <1>45 DEF Fails, Sweeping
<1>46. ASSUME NEW a \in Apps, Crash(a) PROVE LeaseInv'
  BY <1>46 DEF Crash
<1>47. CASE UNCHANGED vars
  BY <1>47
<1>48. QED
  BY <1>1, <1>2, <1>3, <1>4, <1>5, <1>6, <1>7, <1>8, <1>9, <1>10, <1>11, <1>12, <1>13, <1>14,
      <1>15, <1>16, <1>17, <1>18, <1>19, <1>20, <1>21, <1>22, <1>23, <1>24, <1>25, <1>26, <1>27,
      <1>28, <1>29, <1>30, <1>31, <1>32, <1>33, <1>34, <1>35, <1>36, <1>37, <1>38, <1>39, <1>40,
      <1>41, <1>42, <1>43, <1>44, <1>45, <1>46, <1>47 DEF Next, Begins, Step, Mishap

(* Every step keeps LockInv.                                                *)
LEMMA NextLockInv == IInv /\ [Next]_vars => LockInv'
<1> SUFFICES ASSUME IInv, [Next]_vars PROVE LockInv'
  OBVIOUS
<1> USE NamesAssumption DEF IInv, Types, FileType, ControlType, LockInv, Locked, Goto, SameWorld,
    SameCall, Return, Forget, Unlock, Fault, Ends, IsFree, osVars, fileVars, callVars, ownVars,
    pastVars, vars
<1>1. ASSUME NEW p \in Pids, Exits(p) PROVE LockInv'
  BY <1>1 DEF Exits
<1>2. ASSUME NEW p \in Pids, Reaped(p) PROVE LockInv'
  BY <1>2 DEF Reaped
<1>3. ASSUME NEW p \in Pids, OtherStarts(p) PROVE LockInv'
  BY <1>3, SpawnIs DEF OtherStarts, Exes
<1>4. ASSUME NEW a \in Apps, BeginLaunch(a) PROVE LockInv'
  BY <1>4 DEF BeginLaunch, Begin, NothingThere
<1>5. ASSUME NEW a \in Apps, BeginFind(a) PROVE LockInv'
  BY <1>5 DEF BeginFind, Begin, NothingThere
<1>6. ASSUME NEW a \in Apps, BeginKill(a) PROVE LockInv'
  BY <1>6 DEF BeginKill, Begin, NothingThere
<1>7. ASSUME NEW a \in Apps, BeginStop(a) PROVE LockInv'
  BY <1>7 DEF BeginStop, Begin, NothingThere
<1>8. ASSUME NEW a \in Apps, Acquire(a) PROVE LockInv'
  BY <1>8 DEF Acquire, Entry
<1>9. ASSUME NEW a \in Apps, LockTimesOut(a) PROVE LockInv'
  BY <1>9 DEF LockTimesOut
<1>10. ASSUME NEW a \in Apps, NoneOwned(a) PROVE LockInv'
  BY <1>10 DEF NoneOwned
<1>11. ASSUME NEW a \in Apps, FindStale(a) PROVE LockInv'
  BY <1>11, RowsAre DEF FindStale, PidListed
<1>12. ASSUME NEW a \in Apps, FindMismatch(a) PROVE LockInv'
  BY <1>12, RowsAre DEF FindMismatch, PidListed
<1>13. ASSUME NEW a \in Apps, FindOwned(a) PROVE LockInv'
  BY <1>13, RowsAre DEF FindOwned
<1>14. ASSUME NEW a \in Apps, Drop(a) PROVE LockInv'
  BY <1>14 DEF Drop
<1>15. ASSUME NEW a \in Apps, Open(a) PROVE LockInv'
  BY <1>15 DEF Open
<1>16. ASSUME NEW a \in Apps, CheckExited(a) PROVE LockInv'
  BY <1>16 DEF CheckExited
<1>17. ASSUME NEW a \in Apps, CheckIdentity(a) PROVE LockInv'
  BY <1>17 DEF CheckIdentity
<1>18. ASSUME NEW a \in Apps, SignalGraceful(a) PROVE LockInv'
  BY <1>18 DEF SignalGraceful
<1>19. ASSUME NEW a \in Apps, Survives(a) PROVE LockInv'
  BY <1>19 DEF Survives
<1>20. ASSUME NEW a \in Apps, ForceByHandle(a) PROVE LockInv'
  BY <1>20 DEF ForceByHandle
<1>21. ASSUME NEW a \in Apps, StopUnauthorized(a) PROVE LockInv'
  BY <1>21 DEF StopUnauthorized
<1>22. ASSUME NEW a \in Apps, StopAuthorized(a) PROVE LockInv'
  BY <1>22 DEF StopAuthorized
<1>23. ASSUME NEW a \in Apps, Terminate(a) PROVE LockInv'
  BY <1>23 DEF Terminate
<1>24. ASSUME NEW a \in Apps, Adopt(a) PROVE LockInv'
  BY <1>24 DEF Adopt
<1>25. ASSUME NEW a \in Apps, Unreachable(a) PROVE LockInv'
  BY <1>25 DEF Unreachable
<1>26. ASSUME NEW a \in Apps, SweepFails(a) PROVE LockInv'
  BY <1>26 DEF SweepFails, Sweeping, SettingsBusy
<1>27. ASSUME NEW a \in Apps, Sweep(a) PROVE LockInv'
  BY <1>27, RowsAre DEF Sweep, Onward
<1>28. ASSUME NEW a \in Apps, SweepEach(a) PROVE LockInv'
  BY <1>28 DEF SweepEach
<1>29. ASSUME NEW a \in Apps, SweepOpen(a) PROVE LockInv'
  BY <1>29 DEF SweepOpen
<1>30. ASSUME NEW a \in Apps, SweepSignal(a) PROVE LockInv'
  BY <1>30 DEF SweepSignal
<1>31. ASSUME NEW a \in Apps, SweepForce(a) PROVE LockInv'
  BY <1>31 DEF SweepForce
<1>32. ASSUME NEW a \in Apps, SweepDone(a) PROVE LockInv'
  BY <1>32 DEF SweepDone, Onward
<1>33. ASSUME NEW a \in Apps, AdmitRefused(a) PROVE LockInv'
  BY <1>33 DEF AdmitRefused
<1>34. ASSUME NEW a \in Apps, Admit(a) PROVE LockInv'
  BY <1>34, RowsAre DEF Admit
<1>35. ASSUME NEW a \in Apps, Popen(a) PROVE LockInv'
  BY <1>35, SpawnIs DEF Popen, Exes
<1>36. ASSUME NEW a \in Apps, PopenFails(a) PROVE LockInv'
  BY <1>36 DEF PopenFails
<1>37. ASSUME NEW a \in Apps, Validate(a) PROVE LockInv'
  BY <1>37 DEF Validate
<1>38. ASSUME NEW a \in Apps, WriteTemporary(a) PROVE LockInv'
  BY <1>38 DEF WriteTemporary
<1>39. ASSUME NEW a \in Apps, Publish(a) PROVE LockInv'
  BY <1>39 DEF Publish
<1>40. ASSUME NEW a \in Apps, Establish(a) PROVE LockInv'
  BY <1>40 DEF Establish
<1>41. ASSUME NEW a \in Apps, Cleanup(a) PROVE LockInv'
  BY <1>41 DEF Cleanup, ForgetPopen
<1>42. ASSUME NEW a \in Apps, PublishFails(a) PROVE LockInv'
  BY <1>42 DEF PublishFails
<1>43. ASSUME NEW a \in Apps, EstablishInterrupted(a) PROVE LockInv'
  BY <1>43 DEF EstablishInterrupted
<1>44. ASSUME NEW a \in Apps, CleanupFails(a) PROVE LockInv'
  BY <1>44 DEF CleanupFails, ForgetPopen
<1>45. ASSUME NEW a \in Apps, Fails(a) PROVE LockInv'
  BY <1>45 DEF Fails, Sweeping
<1>46. ASSUME NEW a \in Apps, Crash(a) PROVE LockInv'
  BY <1>46 DEF Crash
<1>47. CASE UNCHANGED vars
  BY <1>47
<1>48. QED
  BY <1>1, <1>2, <1>3, <1>4, <1>5, <1>6, <1>7, <1>8, <1>9, <1>10, <1>11, <1>12, <1>13, <1>14,
      <1>15, <1>16, <1>17, <1>18, <1>19, <1>20, <1>21, <1>22, <1>23, <1>24, <1>25, <1>26, <1>27,
      <1>28, <1>29, <1>30, <1>31, <1>32, <1>33, <1>34, <1>35, <1>36, <1>37, <1>38, <1>39, <1>40,
      <1>41, <1>42, <1>43, <1>44, <1>45, <1>46, <1>47 DEF Next, Begins, Step, Mishap

(* Every step keeps CallInv.                                                *)
LEMMA NextCallInv == IInv /\ [Next]_vars => CallInv'
<1> SUFFICES ASSUME IInv, [Next]_vars PROVE CallInv'
  OBVIOUS
<1> USE NamesAssumption DEF IInv, Types, ControlType, OwnType, CallInv, Launching, Owning, PCs,
    Ops, Goto, SameWorld, SameCall, Return, Forget, Unlock, Fault, Ends, IsFree, osVars, fileVars,
    callVars, ownVars, pastVars, vars
<1>1. ASSUME NEW p \in Pids, Exits(p) PROVE CallInv'
  BY <1>1 DEF Exits
<1>2. ASSUME NEW p \in Pids, Reaped(p) PROVE CallInv'
  BY <1>2 DEF Reaped
<1>3. ASSUME NEW p \in Pids, OtherStarts(p) PROVE CallInv'
  BY <1>3, SpawnIs DEF OtherStarts, Exes
<1>4. ASSUME NEW a \in Apps, BeginLaunch(a) PROVE CallInv'
  BY <1>4 DEF BeginLaunch, Begin, NothingThere
<1>5. ASSUME NEW a \in Apps, BeginFind(a) PROVE CallInv'
  BY <1>5 DEF BeginFind, Begin, NothingThere
<1>6. ASSUME NEW a \in Apps, BeginKill(a) PROVE CallInv'
  BY <1>6 DEF BeginKill, Begin, NothingThere
<1>7. ASSUME NEW a \in Apps, BeginStop(a) PROVE CallInv'
  BY <1>7 DEF BeginStop, Begin, NothingThere
<1>8. ASSUME NEW a \in Apps, Acquire(a) PROVE CallInv'
  BY <1>8 DEF Acquire, Entry
<1>9. ASSUME NEW a \in Apps, LockTimesOut(a) PROVE CallInv'
  BY <1>9 DEF LockTimesOut
<1>10. ASSUME NEW a \in Apps, NoneOwned(a) PROVE CallInv'
  BY <1>10 DEF NoneOwned
<1>11. ASSUME NEW a \in Apps, FindStale(a) PROVE CallInv'
  BY <1>11, RowsAre DEF FindStale, PidListed
<1>12. ASSUME NEW a \in Apps, FindMismatch(a) PROVE CallInv'
  BY <1>12, RowsAre DEF FindMismatch, PidListed
<1>13. ASSUME NEW a \in Apps, FindOwned(a) PROVE CallInv'
  BY <1>13, RowsAre DEF FindOwned
<1>14. ASSUME NEW a \in Apps, Drop(a) PROVE CallInv'
  BY <1>14 DEF Drop
<1>15. ASSUME NEW a \in Apps, Open(a) PROVE CallInv'
  BY <1>15 DEF Open
<1>16. ASSUME NEW a \in Apps, CheckExited(a) PROVE CallInv'
  BY <1>16 DEF CheckExited
<1>17. ASSUME NEW a \in Apps, CheckIdentity(a) PROVE CallInv'
  BY <1>17 DEF CheckIdentity
<1>18. ASSUME NEW a \in Apps, SignalGraceful(a) PROVE CallInv'
  BY <1>18 DEF SignalGraceful
<1>19. ASSUME NEW a \in Apps, Survives(a) PROVE CallInv'
  BY <1>19 DEF Survives
<1>20. ASSUME NEW a \in Apps, ForceByHandle(a) PROVE CallInv'
  BY <1>20 DEF ForceByHandle
<1>21. ASSUME NEW a \in Apps, StopUnauthorized(a) PROVE CallInv'
  BY <1>21 DEF StopUnauthorized
<1>22. ASSUME NEW a \in Apps, StopAuthorized(a) PROVE CallInv'
  BY <1>22 DEF StopAuthorized
<1>23. ASSUME NEW a \in Apps, Terminate(a) PROVE CallInv'
  BY <1>23 DEF Terminate
<1>24. ASSUME NEW a \in Apps, Adopt(a) PROVE CallInv'
  BY <1>24 DEF Adopt
<1>25. ASSUME NEW a \in Apps, Unreachable(a) PROVE CallInv'
  BY <1>25 DEF Unreachable
<1>26. ASSUME NEW a \in Apps, SweepFails(a) PROVE CallInv'
  BY <1>26 DEF SweepFails, Sweeping, SettingsBusy
<1>27. ASSUME NEW a \in Apps, Sweep(a) PROVE CallInv'
  BY <1>27, RowsAre DEF Sweep, Onward
<1>28. ASSUME NEW a \in Apps, SweepEach(a) PROVE CallInv'
  BY <1>28 DEF SweepEach
<1>29. ASSUME NEW a \in Apps, SweepOpen(a) PROVE CallInv'
  BY <1>29 DEF SweepOpen
<1>30. ASSUME NEW a \in Apps, SweepSignal(a) PROVE CallInv'
  BY <1>30 DEF SweepSignal
<1>31. ASSUME NEW a \in Apps, SweepForce(a) PROVE CallInv'
  BY <1>31 DEF SweepForce
<1>32. ASSUME NEW a \in Apps, SweepDone(a) PROVE CallInv'
  BY <1>32 DEF SweepDone, Onward
<1>33. ASSUME NEW a \in Apps, AdmitRefused(a) PROVE CallInv'
  BY <1>33 DEF AdmitRefused
<1>34. ASSUME NEW a \in Apps, Admit(a) PROVE CallInv'
  BY <1>34, RowsAre DEF Admit
<1>35. ASSUME NEW a \in Apps, Popen(a) PROVE CallInv'
  BY <1>35, SpawnIs DEF Popen, Exes
<1>36. ASSUME NEW a \in Apps, PopenFails(a) PROVE CallInv'
  BY <1>36 DEF PopenFails
<1>37. ASSUME NEW a \in Apps, Validate(a) PROVE CallInv'
  BY <1>37 DEF Validate
<1>38. ASSUME NEW a \in Apps, WriteTemporary(a) PROVE CallInv'
  BY <1>38 DEF WriteTemporary
<1>39. ASSUME NEW a \in Apps, Publish(a) PROVE CallInv'
  BY <1>39 DEF Publish
<1>40. ASSUME NEW a \in Apps, Establish(a) PROVE CallInv'
  BY <1>40 DEF Establish
<1>41. ASSUME NEW a \in Apps, Cleanup(a) PROVE CallInv'
  BY <1>41 DEF Cleanup, ForgetPopen
<1>42. ASSUME NEW a \in Apps, PublishFails(a) PROVE CallInv'
  BY <1>42 DEF PublishFails
<1>43. ASSUME NEW a \in Apps, EstablishInterrupted(a) PROVE CallInv'
  BY <1>43 DEF EstablishInterrupted
<1>44. ASSUME NEW a \in Apps, CleanupFails(a) PROVE CallInv'
  BY <1>44 DEF CleanupFails, ForgetPopen
<1>45. ASSUME NEW a \in Apps, Fails(a) PROVE CallInv'
  BY <1>45 DEF Fails, Sweeping
<1>46. ASSUME NEW a \in Apps, Crash(a) PROVE CallInv'
  BY <1>46 DEF Crash
<1>47. CASE UNCHANGED vars
  BY <1>47
<1>48. QED
  BY <1>1, <1>2, <1>3, <1>4, <1>5, <1>6, <1>7, <1>8, <1>9, <1>10, <1>11, <1>12, <1>13, <1>14,
      <1>15, <1>16, <1>17, <1>18, <1>19, <1>20, <1>21, <1>22, <1>23, <1>24, <1>25, <1>26, <1>27,
      <1>28, <1>29, <1>30, <1>31, <1>32, <1>33, <1>34, <1>35, <1>36, <1>37, <1>38, <1>39, <1>40,
      <1>41, <1>42, <1>43, <1>44, <1>45, <1>46, <1>47 DEF Next, Begins, Step, Mishap

(* Every step keeps HeldInv.                                                *)
LEMMA NextHeldInv == IInv /\ [Next]_vars => HeldInv'
<1> SUFFICES ASSUME IInv, [Next]_vars PROVE HeldInv'
  OBVIOUS
<1> USE NamesAssumption DEF IInv, Types, OsType, FileType, ControlType, CallType, OwnType,
    PastType, TableInv, LeaseInv, CallInv, HeldInv, Owning, Held, Identities, Goto, SameWorld,
    SameCall, Return, Forget, Unlock, Fault, Ends, IsFree, osVars, fileVars, callVars, ownVars,
    pastVars, vars
<1>1. ASSUME NEW p \in Pids, Exits(p) PROVE HeldInv'
  BY <1>1 DEF Exits
<1>2. ASSUME NEW p \in Pids, Reaped(p) PROVE HeldInv'
  BY <1>2 DEF Reaped
<1>3. ASSUME NEW p \in Pids, OtherStarts(p) PROVE HeldInv'
  BY <1>3, SpawnIs DEF OtherStarts, Exes
<1>4. ASSUME NEW a \in Apps, BeginLaunch(a) PROVE HeldInv'
  BY <1>4 DEF BeginLaunch, Begin, NothingThere
<1>5. ASSUME NEW a \in Apps, BeginFind(a) PROVE HeldInv'
  BY <1>5 DEF BeginFind, Begin, NothingThere
<1>6. ASSUME NEW a \in Apps, BeginKill(a) PROVE HeldInv'
  BY <1>6 DEF BeginKill, Begin, NothingThere
<1>7. ASSUME NEW a \in Apps, BeginStop(a) PROVE HeldInv'
  BY <1>7 DEF BeginStop, Begin, NothingThere
<1>8. ASSUME NEW a \in Apps, Acquire(a) PROVE HeldInv'
  BY <1>8 DEF Acquire, Entry
<1>9. ASSUME NEW a \in Apps, LockTimesOut(a) PROVE HeldInv'
  BY <1>9 DEF LockTimesOut
<1>10. ASSUME NEW a \in Apps, NoneOwned(a) PROVE HeldInv'
  BY <1>10 DEF NoneOwned
<1>11. ASSUME NEW a \in Apps, FindStale(a) PROVE HeldInv'
  BY <1>11, RowsAre DEF FindStale, PidListed
<1>12. ASSUME NEW a \in Apps, FindMismatch(a) PROVE HeldInv'
  BY <1>12, RowsAre DEF FindMismatch, PidListed
<1>13. ASSUME NEW a \in Apps, FindOwned(a) PROVE HeldInv'
  BY <1>13, RowsAre DEF FindOwned
<1>14. ASSUME NEW a \in Apps, Drop(a) PROVE HeldInv'
  BY <1>14 DEF Drop
<1>15. ASSUME NEW a \in Apps, Open(a) PROVE HeldInv'
  <2>1. target[a].pid \in Pids
    BY <1>15 DEF Open, StepInv
  <2>2. QED
    BY <1>15, <2>1 DEF Open
<1>16. ASSUME NEW a \in Apps, CheckExited(a) PROVE HeldInv'
  BY <1>16 DEF CheckExited
<1>17. ASSUME NEW a \in Apps, CheckIdentity(a) PROVE HeldInv'
  BY <1>17 DEF CheckIdentity
<1>18. ASSUME NEW a \in Apps, SignalGraceful(a) PROVE HeldInv'
  BY <1>18 DEF SignalGraceful
<1>19. ASSUME NEW a \in Apps, Survives(a) PROVE HeldInv'
  BY <1>19 DEF Survives
<1>20. ASSUME NEW a \in Apps, ForceByHandle(a) PROVE HeldInv'
  BY <1>20 DEF ForceByHandle
<1>21. ASSUME NEW a \in Apps, StopUnauthorized(a) PROVE HeldInv'
  BY <1>21 DEF StopUnauthorized
<1>22. ASSUME NEW a \in Apps, StopAuthorized(a) PROVE HeldInv'
  BY <1>22 DEF StopAuthorized
<1>23. ASSUME NEW a \in Apps, Terminate(a) PROVE HeldInv'
  BY <1>23 DEF Terminate
<1>24. ASSUME NEW a \in Apps, Adopt(a) PROVE HeldInv'
  BY <1>24 DEF Adopt
<1>25. ASSUME NEW a \in Apps, Unreachable(a) PROVE HeldInv'
  BY <1>25 DEF Unreachable
<1>26. ASSUME NEW a \in Apps, SweepFails(a) PROVE HeldInv'
  BY <1>26 DEF SweepFails, Sweeping, SettingsBusy
<1>27. ASSUME NEW a \in Apps, Sweep(a) PROVE HeldInv'
  BY <1>27, RowsAre DEF Sweep, Onward
<1>28. ASSUME NEW a \in Apps, SweepEach(a) PROVE HeldInv'
  BY <1>28 DEF SweepEach
<1>29. ASSUME NEW a \in Apps, SweepOpen(a) PROVE HeldInv'
  <2>1. target[a].pid \in Pids
    BY <1>29 DEF SweepOpen, SweepInv
  <2>2. QED
    BY <1>29, <2>1 DEF SweepOpen
<1>30. ASSUME NEW a \in Apps, SweepSignal(a) PROVE HeldInv'
  BY <1>30 DEF SweepSignal
<1>31. ASSUME NEW a \in Apps, SweepForce(a) PROVE HeldInv'
  BY <1>31 DEF SweepForce
<1>32. ASSUME NEW a \in Apps, SweepDone(a) PROVE HeldInv'
  BY <1>32 DEF SweepDone, Onward
<1>33. ASSUME NEW a \in Apps, AdmitRefused(a) PROVE HeldInv'
  BY <1>33 DEF AdmitRefused
<1>34. ASSUME NEW a \in Apps, Admit(a) PROVE HeldInv'
  BY <1>34, RowsAre DEF Admit
<1>35. ASSUME NEW a \in Apps, Popen(a) PROVE HeldInv'
  BY <1>35, SpawnIs DEF Popen, Exes
<1>36. ASSUME NEW a \in Apps, PopenFails(a) PROVE HeldInv'
  BY <1>36 DEF PopenFails
<1>37. ASSUME NEW a \in Apps, Validate(a) PROVE HeldInv'
  BY <1>37 DEF Validate
<1>38. ASSUME NEW a \in Apps, WriteTemporary(a) PROVE HeldInv'
  BY <1>38 DEF WriteTemporary
<1>39. ASSUME NEW a \in Apps, Publish(a) PROVE HeldInv'
  BY <1>39 DEF Publish
<1>40. ASSUME NEW a \in Apps, Establish(a) PROVE HeldInv'
  BY <1>40 DEF Establish
<1>41. ASSUME NEW a \in Apps, Cleanup(a) PROVE HeldInv'
  BY <1>41 DEF Cleanup, ForgetPopen
<1>42. ASSUME NEW a \in Apps, PublishFails(a) PROVE HeldInv'
  BY <1>42 DEF PublishFails
<1>43. ASSUME NEW a \in Apps, EstablishInterrupted(a) PROVE HeldInv'
  BY <1>43 DEF EstablishInterrupted
<1>44. ASSUME NEW a \in Apps, CleanupFails(a) PROVE HeldInv'
  BY <1>44 DEF CleanupFails, ForgetPopen
<1>45. ASSUME NEW a \in Apps, Fails(a) PROVE HeldInv'
  BY <1>45 DEF Fails, Sweeping
<1>46. ASSUME NEW a \in Apps, Crash(a) PROVE HeldInv'
  BY <1>46 DEF Crash
<1>47. CASE UNCHANGED vars
  BY <1>47
<1>48. QED
  BY <1>1, <1>2, <1>3, <1>4, <1>5, <1>6, <1>7, <1>8, <1>9, <1>10, <1>11, <1>12, <1>13, <1>14,
      <1>15, <1>16, <1>17, <1>18, <1>19, <1>20, <1>21, <1>22, <1>23, <1>24, <1>25, <1>26, <1>27,
      <1>28, <1>29, <1>30, <1>31, <1>32, <1>33, <1>34, <1>35, <1>36, <1>37, <1>38, <1>39, <1>40,
      <1>41, <1>42, <1>43, <1>44, <1>45, <1>46, <1>47 DEF Next, Begins, Step, Mishap

(* Every step keeps OneInv.                                                 *)
LEMMA NextOneInv == IInv /\ [Next]_vars => OneInv'
<1> SUFFICES ASSUME IInv, [Next]_vars PROVE OneInv'
  OBVIOUS
<1> USE NamesAssumption DEF IInv, Types, OsType, FileType, ControlType, CallType, OwnType,
    PastType, TableInv, HeldInv, OneInv, StepInv, Live, Identities, Goto, SameWorld, SameCall,
    Return, Forget, Unlock, Fault, Ends, IsFree, osVars, fileVars, callVars, ownVars, pastVars,
    vars
<1>1. ASSUME NEW p \in Pids, Exits(p) PROVE OneInv'
  BY <1>1 DEF Exits
<1>2. ASSUME NEW p \in Pids, Reaped(p) PROVE OneInv'
  BY <1>2 DEF Reaped
<1>3. ASSUME NEW p \in Pids, OtherStarts(p) PROVE OneInv'
  BY <1>3, SpawnIs DEF OtherStarts, Exes
<1>4. ASSUME NEW a \in Apps, BeginLaunch(a) PROVE OneInv'
  BY <1>4 DEF BeginLaunch, Begin, NothingThere
<1>5. ASSUME NEW a \in Apps, BeginFind(a) PROVE OneInv'
  BY <1>5 DEF BeginFind, Begin, NothingThere
<1>6. ASSUME NEW a \in Apps, BeginKill(a) PROVE OneInv'
  BY <1>6 DEF BeginKill, Begin, NothingThere
<1>7. ASSUME NEW a \in Apps, BeginStop(a) PROVE OneInv'
  BY <1>7 DEF BeginStop, Begin, NothingThere
<1>8. ASSUME NEW a \in Apps, Acquire(a) PROVE OneInv'
  BY <1>8 DEF Acquire, Entry
<1>9. ASSUME NEW a \in Apps, LockTimesOut(a) PROVE OneInv'
  BY <1>9 DEF LockTimesOut
<1>10. ASSUME NEW a \in Apps, NoneOwned(a) PROVE OneInv'
  BY <1>10 DEF NoneOwned
<1>11. ASSUME NEW a \in Apps, FindStale(a) PROVE OneInv'
  BY <1>11, RowsAre DEF FindStale, PidListed
<1>12. ASSUME NEW a \in Apps, FindMismatch(a) PROVE OneInv'
  BY <1>12, RowsAre DEF FindMismatch, PidListed
<1>13. ASSUME NEW a \in Apps, FindOwned(a) PROVE OneInv'
  BY <1>13, RowsAre DEF FindOwned
<1>14. ASSUME NEW a \in Apps, Drop(a) PROVE OneInv'
  BY <1>14 DEF Drop
<1>15. ASSUME NEW a \in Apps, Open(a) PROVE OneInv'
  BY <1>15 DEF Open
<1>16. ASSUME NEW a \in Apps, CheckExited(a) PROVE OneInv'
  BY <1>16 DEF CheckExited
<1>17. ASSUME NEW a \in Apps, CheckIdentity(a) PROVE OneInv'
  BY <1>17 DEF CheckIdentity
<1>18. ASSUME NEW a \in Apps, SignalGraceful(a) PROVE OneInv'
  BY <1>18 DEF SignalGraceful
<1>19. ASSUME NEW a \in Apps, Survives(a) PROVE OneInv'
  BY <1>19 DEF Survives
<1>20. ASSUME NEW a \in Apps, ForceByHandle(a) PROVE OneInv'
  BY <1>20 DEF ForceByHandle
<1>21. ASSUME NEW a \in Apps, StopUnauthorized(a) PROVE OneInv'
  BY <1>21 DEF StopUnauthorized
<1>22. ASSUME NEW a \in Apps, StopAuthorized(a) PROVE OneInv'
  BY <1>22 DEF StopAuthorized
<1>23. ASSUME NEW a \in Apps, Terminate(a) PROVE OneInv'
  BY <1>23 DEF Terminate
<1>24. ASSUME NEW a \in Apps, Adopt(a) PROVE OneInv'
  BY <1>24 DEF Adopt
<1>25. ASSUME NEW a \in Apps, Unreachable(a) PROVE OneInv'
  BY <1>25 DEF Unreachable
<1>26. ASSUME NEW a \in Apps, SweepFails(a) PROVE OneInv'
  BY <1>26 DEF SweepFails, Sweeping, SettingsBusy
<1>27. ASSUME NEW a \in Apps, Sweep(a) PROVE OneInv'
  BY <1>27, RowsAre DEF Sweep, Onward
<1>28. ASSUME NEW a \in Apps, SweepEach(a) PROVE OneInv'
  BY <1>28 DEF SweepEach
<1>29. ASSUME NEW a \in Apps, SweepOpen(a) PROVE OneInv'
  BY <1>29 DEF SweepOpen
<1>30. ASSUME NEW a \in Apps, SweepSignal(a) PROVE OneInv'
  BY <1>30 DEF SweepSignal
<1>31. ASSUME NEW a \in Apps, SweepForce(a) PROVE OneInv'
  BY <1>31 DEF SweepForce
<1>32. ASSUME NEW a \in Apps, SweepDone(a) PROVE OneInv'
  BY <1>32 DEF SweepDone, Onward
<1>33. ASSUME NEW a \in Apps, AdmitRefused(a) PROVE OneInv'
  BY <1>33 DEF AdmitRefused
<1>34. ASSUME NEW a \in Apps, Admit(a) PROVE OneInv'
  BY <1>34, RowsAre DEF Admit
<1>35. ASSUME NEW a \in Apps, Popen(a) PROVE OneInv'
  BY <1>35, SpawnIs DEF Popen, Exes
<1>36. ASSUME NEW a \in Apps, PopenFails(a) PROVE OneInv'
  BY <1>36 DEF PopenFails
<1>37. ASSUME NEW a \in Apps, Validate(a) PROVE OneInv'
  BY <1>37 DEF Validate
<1>38. ASSUME NEW a \in Apps, WriteTemporary(a) PROVE OneInv'
  BY <1>38 DEF WriteTemporary
<1>39. ASSUME NEW a \in Apps, Publish(a) PROVE OneInv'
  BY <1>39 DEF Publish
<1>40. ASSUME NEW a \in Apps, Establish(a) PROVE OneInv'
  BY <1>40 DEF Establish
<1>41. ASSUME NEW a \in Apps, Cleanup(a) PROVE OneInv'
  BY <1>41 DEF Cleanup, ForgetPopen
<1>42. ASSUME NEW a \in Apps, PublishFails(a) PROVE OneInv'
  BY <1>42 DEF PublishFails
<1>43. ASSUME NEW a \in Apps, EstablishInterrupted(a) PROVE OneInv'
  BY <1>43 DEF EstablishInterrupted
<1>44. ASSUME NEW a \in Apps, CleanupFails(a) PROVE OneInv'
  BY <1>44 DEF CleanupFails, ForgetPopen
<1>45. ASSUME NEW a \in Apps, Fails(a) PROVE OneInv'
  BY <1>45 DEF Fails, Sweeping
<1>46. ASSUME NEW a \in Apps, Crash(a) PROVE OneInv'
  BY <1>46 DEF Crash
<1>47. CASE UNCHANGED vars
  BY <1>47
<1>48. QED
  BY <1>1, <1>2, <1>3, <1>4, <1>5, <1>6, <1>7, <1>8, <1>9, <1>10, <1>11, <1>12, <1>13, <1>14,
      <1>15, <1>16, <1>17, <1>18, <1>19, <1>20, <1>21, <1>22, <1>23, <1>24, <1>25, <1>26, <1>27,
      <1>28, <1>29, <1>30, <1>31, <1>32, <1>33, <1>34, <1>35, <1>36, <1>37, <1>38, <1>39, <1>40,
      <1>41, <1>42, <1>43, <1>44, <1>45, <1>46, <1>47 DEF Next, Begins, Step, Mishap

(* Every step keeps StepInv.                                                *)
LEMMA NextStepInv == IInv /\ [Next]_vars => StepInv'
<1> SUFFICES ASSUME IInv, [Next]_vars PROVE StepInv'
  OBVIOUS
<1> USE NamesAssumption DEF IInv, Types, OsType, FileType, ControlType, CallType, OwnType,
    PastType, TableInv, LeaseInv, LockInv, CallInv, HeldInv, OneInv, StepInv, Live, Rows, Locked,
    Owning, Identities, Legacy, Goto, SameWorld, SameCall, Return, Forget, Unlock, Fault, Ends,
    IsFree, osVars, fileVars, callVars, ownVars, pastVars, vars
<1>1. ASSUME NEW p \in Pids, Exits(p) PROVE StepInv'
  BY <1>1 DEF Exits
<1>2. ASSUME NEW p \in Pids, Reaped(p) PROVE StepInv'
  BY <1>2 DEF Reaped
<1>3. ASSUME NEW p \in Pids, OtherStarts(p) PROVE StepInv'
  BY <1>3, SpawnIs DEF OtherStarts, Exes
<1>4. ASSUME NEW a \in Apps, BeginLaunch(a) PROVE StepInv'
  BY <1>4 DEF BeginLaunch, Begin, NothingThere
<1>5. ASSUME NEW a \in Apps, BeginFind(a) PROVE StepInv'
  BY <1>5 DEF BeginFind, Begin, NothingThere
<1>6. ASSUME NEW a \in Apps, BeginKill(a) PROVE StepInv'
  BY <1>6 DEF BeginKill, Begin, NothingThere
<1>7. ASSUME NEW a \in Apps, BeginStop(a) PROVE StepInv'
  BY <1>7 DEF BeginStop, Begin, NothingThere
<1>8. ASSUME NEW a \in Apps, Acquire(a) PROVE StepInv'
  <2>1. /\ pc'[a] \in {"idle", "find", "stop", "admit"}
        /\ \A b \in Apps \ {a} : pc'[b] = pc[b]
        /\ UNCHANGED <<table, live, lease, popen, started, target, handles>>
    BY <1>8, EntryIs DEF Acquire
  <2>2. QED
    BY <2>1
<1>9. ASSUME NEW a \in Apps, LockTimesOut(a) PROVE StepInv'
  BY <1>9 DEF LockTimesOut
<1>10. ASSUME NEW a \in Apps, NoneOwned(a) PROVE StepInv'
  BY <1>10 DEF NoneOwned
<1>11. ASSUME NEW a \in Apps, FindStale(a) PROVE StepInv'
  BY <1>11, RowsAre DEF FindStale, PidListed
<1>12. ASSUME NEW a \in Apps, FindMismatch(a) PROVE StepInv'
  BY <1>12, RowsAre DEF FindMismatch, PidListed
<1>13. ASSUME NEW a \in Apps, FindOwned(a) PROVE StepInv'
  BY <1>13, RowsAre DEF FindOwned
<1>14. ASSUME NEW a \in Apps, Drop(a) PROVE StepInv'
  BY <1>14 DEF Drop
<1>15. ASSUME NEW a \in Apps, Open(a) PROVE StepInv'
  BY <1>15 DEF Open
<1>16. ASSUME NEW a \in Apps, CheckExited(a) PROVE StepInv'
  BY <1>16 DEF CheckExited
<1>17. ASSUME NEW a \in Apps, CheckIdentity(a) PROVE StepInv'
  BY <1>17 DEF CheckIdentity
<1>18. ASSUME NEW a \in Apps, SignalGraceful(a) PROVE StepInv'
  BY <1>18 DEF SignalGraceful
<1>19. ASSUME NEW a \in Apps, Survives(a) PROVE StepInv'
  BY <1>19 DEF Survives
<1>20. ASSUME NEW a \in Apps, ForceByHandle(a) PROVE StepInv'
  BY <1>20 DEF ForceByHandle
<1>21. ASSUME NEW a \in Apps, StopUnauthorized(a) PROVE StepInv'
  BY <1>21 DEF StopUnauthorized
<1>22. ASSUME NEW a \in Apps, StopAuthorized(a) PROVE StepInv'
  BY <1>22 DEF StopAuthorized
<1>23. ASSUME NEW a \in Apps, Terminate(a) PROVE StepInv'
  BY <1>23 DEF Terminate
<1>24. ASSUME NEW a \in Apps, Adopt(a) PROVE StepInv'
  BY <1>24 DEF Adopt
<1>25. ASSUME NEW a \in Apps, Unreachable(a) PROVE StepInv'
  BY <1>25 DEF Unreachable
<1>26. ASSUME NEW a \in Apps, SweepFails(a) PROVE StepInv'
  BY <1>26 DEF SweepFails, Sweeping, SettingsBusy
<1>27. ASSUME NEW a \in Apps, Sweep(a) PROVE StepInv'
  <2>1. /\ pc'[a] \in {"sweepEach", "lock"}
        /\ \A b \in Apps \ {a} : pc'[b] = pc[b] /\ target'[b] = target[b] /\ handles'[b] =
            handles[b]
        /\ UNCHANGED <<table, live, lease, popen, started>>
    BY <1>27, SweepIs
  <2>2. QED
    BY <2>1
<1>28. ASSUME NEW a \in Apps, SweepEach(a) PROVE StepInv'
  BY <1>28 DEF SweepEach
<1>29. ASSUME NEW a \in Apps, SweepOpen(a) PROVE StepInv'
  BY <1>29 DEF SweepOpen
<1>30. ASSUME NEW a \in Apps, SweepSignal(a) PROVE StepInv'
  BY <1>30 DEF SweepSignal
<1>31. ASSUME NEW a \in Apps, SweepForce(a) PROVE StepInv'
  BY <1>31 DEF SweepForce
<1>32. ASSUME NEW a \in Apps, SweepDone(a) PROVE StepInv'
  BY <1>32 DEF SweepDone, Onward
<1>33. ASSUME NEW a \in Apps, AdmitRefused(a) PROVE StepInv'
  BY <1>33 DEF AdmitRefused
<1>34. ASSUME NEW a \in Apps, Admit(a) PROVE StepInv'
  BY <1>34, RowsAre DEF Admit
<1>35. ASSUME NEW a \in Apps, Popen(a) PROVE StepInv'
  BY <1>35, SpawnIs DEF Popen, Exes
<1>36. ASSUME NEW a \in Apps, PopenFails(a) PROVE StepInv'
  BY <1>36 DEF PopenFails
<1>37. ASSUME NEW a \in Apps, Validate(a) PROVE StepInv'
  BY <1>37 DEF Validate
<1>38. ASSUME NEW a \in Apps, WriteTemporary(a) PROVE StepInv'
  BY <1>38 DEF WriteTemporary
<1>39. ASSUME NEW a \in Apps, Publish(a) PROVE StepInv'
  BY <1>39 DEF Publish
<1>40. ASSUME NEW a \in Apps, Establish(a) PROVE StepInv'
  BY <1>40 DEF Establish
<1>41. ASSUME NEW a \in Apps, Cleanup(a) PROVE StepInv'
  BY <1>41 DEF Cleanup, ForgetPopen
<1>42. ASSUME NEW a \in Apps, PublishFails(a) PROVE StepInv'
  BY <1>42 DEF PublishFails
<1>43. ASSUME NEW a \in Apps, EstablishInterrupted(a) PROVE StepInv'
  BY <1>43 DEF EstablishInterrupted
<1>44. ASSUME NEW a \in Apps, CleanupFails(a) PROVE StepInv'
  BY <1>44 DEF CleanupFails, ForgetPopen
<1>45. ASSUME NEW a \in Apps, Fails(a) PROVE StepInv'
  BY <1>45 DEF Fails, Sweeping
<1>46. ASSUME NEW a \in Apps, Crash(a) PROVE StepInv'
  BY <1>46 DEF Crash
<1>47. CASE UNCHANGED vars
  BY <1>47
<1>48. QED
  BY <1>1, <1>2, <1>3, <1>4, <1>5, <1>6, <1>7, <1>8, <1>9, <1>10, <1>11, <1>12, <1>13, <1>14,
      <1>15, <1>16, <1>17, <1>18, <1>19, <1>20, <1>21, <1>22, <1>23, <1>24, <1>25, <1>26, <1>27,
      <1>28, <1>29, <1>30, <1>31, <1>32, <1>33, <1>34, <1>35, <1>36, <1>37, <1>38, <1>39, <1>40,
      <1>41, <1>42, <1>43, <1>44, <1>45, <1>46, <1>47 DEF Next, Begins, Step, Mishap

(* Every step keeps TempInv.                                                *)
LEMMA NextTempInv == IInv /\ [Next]_vars => TempInv'
<1> SUFFICES ASSUME IInv, [Next]_vars PROVE TempInv'
  OBVIOUS
<1> USE NamesAssumption DEF IInv, Types, FileType, ControlType, LockInv, TempInv,
    TemporaryIsTheHolders, Locked, Live, Goto, SameWorld, SameCall, Return, Forget, Unlock, Fault,
    Ends, IsFree, osVars, fileVars, callVars, ownVars, pastVars, vars
<1>1. ASSUME NEW p \in Pids, Exits(p) PROVE TempInv'
  BY <1>1 DEF Exits
<1>2. ASSUME NEW p \in Pids, Reaped(p) PROVE TempInv'
  BY <1>2 DEF Reaped
<1>3. ASSUME NEW p \in Pids, OtherStarts(p) PROVE TempInv'
  BY <1>3, SpawnIs DEF OtherStarts, Exes
<1>4. ASSUME NEW a \in Apps, BeginLaunch(a) PROVE TempInv'
  BY <1>4 DEF BeginLaunch, Begin, NothingThere
<1>5. ASSUME NEW a \in Apps, BeginFind(a) PROVE TempInv'
  BY <1>5 DEF BeginFind, Begin, NothingThere
<1>6. ASSUME NEW a \in Apps, BeginKill(a) PROVE TempInv'
  BY <1>6 DEF BeginKill, Begin, NothingThere
<1>7. ASSUME NEW a \in Apps, BeginStop(a) PROVE TempInv'
  BY <1>7 DEF BeginStop, Begin, NothingThere
<1>8. ASSUME NEW a \in Apps, Acquire(a) PROVE TempInv'
  <2>1. /\ pc'[a] \in {"idle", "find", "stop", "admit"} /\ lock = Nobody /\ temp' = FALSE
        /\ \A b \in Apps \ {a} : pc'[b] = pc[b]
    BY <1>8, EntryIs DEF Acquire
  <2>2. QED
    BY <2>1
<1>9. ASSUME NEW a \in Apps, LockTimesOut(a) PROVE TempInv'
  BY <1>9 DEF LockTimesOut
<1>10. ASSUME NEW a \in Apps, NoneOwned(a) PROVE TempInv'
  BY <1>10 DEF NoneOwned
<1>11. ASSUME NEW a \in Apps, FindStale(a) PROVE TempInv'
  BY <1>11, RowsAre DEF FindStale, PidListed
<1>12. ASSUME NEW a \in Apps, FindMismatch(a) PROVE TempInv'
  BY <1>12, RowsAre DEF FindMismatch, PidListed
<1>13. ASSUME NEW a \in Apps, FindOwned(a) PROVE TempInv'
  BY <1>13, RowsAre DEF FindOwned
<1>14. ASSUME NEW a \in Apps, Drop(a) PROVE TempInv'
  BY <1>14 DEF Drop
<1>15. ASSUME NEW a \in Apps, Open(a) PROVE TempInv'
  BY <1>15 DEF Open
<1>16. ASSUME NEW a \in Apps, CheckExited(a) PROVE TempInv'
  BY <1>16 DEF CheckExited
<1>17. ASSUME NEW a \in Apps, CheckIdentity(a) PROVE TempInv'
  BY <1>17 DEF CheckIdentity
<1>18. ASSUME NEW a \in Apps, SignalGraceful(a) PROVE TempInv'
  BY <1>18 DEF SignalGraceful
<1>19. ASSUME NEW a \in Apps, Survives(a) PROVE TempInv'
  BY <1>19 DEF Survives
<1>20. ASSUME NEW a \in Apps, ForceByHandle(a) PROVE TempInv'
  BY <1>20 DEF ForceByHandle
<1>21. ASSUME NEW a \in Apps, StopUnauthorized(a) PROVE TempInv'
  BY <1>21 DEF StopUnauthorized
<1>22. ASSUME NEW a \in Apps, StopAuthorized(a) PROVE TempInv'
  BY <1>22 DEF StopAuthorized
<1>23. ASSUME NEW a \in Apps, Terminate(a) PROVE TempInv'
  BY <1>23 DEF Terminate
<1>24. ASSUME NEW a \in Apps, Adopt(a) PROVE TempInv'
  BY <1>24 DEF Adopt
<1>25. ASSUME NEW a \in Apps, Unreachable(a) PROVE TempInv'
  BY <1>25 DEF Unreachable
<1>26. ASSUME NEW a \in Apps, SweepFails(a) PROVE TempInv'
  BY <1>26 DEF SweepFails, Sweeping, SettingsBusy
<1>27. ASSUME NEW a \in Apps, Sweep(a) PROVE TempInv'
  BY <1>27, RowsAre DEF Sweep, Onward
<1>28. ASSUME NEW a \in Apps, SweepEach(a) PROVE TempInv'
  BY <1>28 DEF SweepEach
<1>29. ASSUME NEW a \in Apps, SweepOpen(a) PROVE TempInv'
  BY <1>29 DEF SweepOpen
<1>30. ASSUME NEW a \in Apps, SweepSignal(a) PROVE TempInv'
  BY <1>30 DEF SweepSignal
<1>31. ASSUME NEW a \in Apps, SweepForce(a) PROVE TempInv'
  BY <1>31 DEF SweepForce
<1>32. ASSUME NEW a \in Apps, SweepDone(a) PROVE TempInv'
  BY <1>32 DEF SweepDone, Onward
<1>33. ASSUME NEW a \in Apps, AdmitRefused(a) PROVE TempInv'
  BY <1>33 DEF AdmitRefused
<1>34. ASSUME NEW a \in Apps, Admit(a) PROVE TempInv'
  BY <1>34, RowsAre DEF Admit
<1>35. ASSUME NEW a \in Apps, Popen(a) PROVE TempInv'
  BY <1>35, SpawnIs DEF Popen, Exes
<1>36. ASSUME NEW a \in Apps, PopenFails(a) PROVE TempInv'
  BY <1>36 DEF PopenFails
<1>37. ASSUME NEW a \in Apps, Validate(a) PROVE TempInv'
  BY <1>37 DEF Validate
<1>38. ASSUME NEW a \in Apps, WriteTemporary(a) PROVE TempInv'
  BY <1>38 DEF WriteTemporary
<1>39. ASSUME NEW a \in Apps, Publish(a) PROVE TempInv'
  BY <1>39 DEF Publish
<1>40. ASSUME NEW a \in Apps, Establish(a) PROVE TempInv'
  BY <1>40 DEF Establish
<1>41. ASSUME NEW a \in Apps, Cleanup(a) PROVE TempInv'
  BY <1>41 DEF Cleanup, ForgetPopen
<1>42. ASSUME NEW a \in Apps, PublishFails(a) PROVE TempInv'
  BY <1>42 DEF PublishFails
<1>43. ASSUME NEW a \in Apps, EstablishInterrupted(a) PROVE TempInv'
  BY <1>43 DEF EstablishInterrupted
<1>44. ASSUME NEW a \in Apps, CleanupFails(a) PROVE TempInv'
  BY <1>44 DEF CleanupFails, ForgetPopen
<1>45. ASSUME NEW a \in Apps, Fails(a) PROVE TempInv'
  BY <1>45 DEF Fails, Sweeping
<1>46. ASSUME NEW a \in Apps, Crash(a) PROVE TempInv'
  BY <1>46 DEF Crash
<1>47. CASE UNCHANGED vars
  BY <1>47
<1>48. QED
  BY <1>1, <1>2, <1>3, <1>4, <1>5, <1>6, <1>7, <1>8, <1>9, <1>10, <1>11, <1>12, <1>13, <1>14,
      <1>15, <1>16, <1>17, <1>18, <1>19, <1>20, <1>21, <1>22, <1>23, <1>24, <1>25, <1>26, <1>27,
      <1>28, <1>29, <1>30, <1>31, <1>32, <1>33, <1>34, <1>35, <1>36, <1>37, <1>38, <1>39, <1>40,
      <1>41, <1>42, <1>43, <1>44, <1>45, <1>46, <1>47 DEF Next, Begins, Step, Mishap

(* Every step keeps OwnedInv.                                               *)
LEMMA NextOwnedInv == IInv /\ [Next]_vars => OwnedInv'
<1> SUFFICES ASSUME IInv, [Next]_vars PROVE OwnedInv'
  OBVIOUS
<1> USE NamesAssumption DEF IInv, Types, OsType, FileType, ControlType, CallType, OwnType,
    PastType, TableInv, CallInv, HeldInv, StepInv, OwnedInv, Live, Owning, Identities, Goto,
    SameWorld, SameCall, Return, Forget, Unlock, Fault, Ends, IsFree, osVars, fileVars, callVars,
    ownVars, pastVars, vars
<1>1. ASSUME NEW p \in Pids, Exits(p) PROVE OwnedInv'
  BY <1>1 DEF Exits
<1>2. ASSUME NEW p \in Pids, Reaped(p) PROVE OwnedInv'
  BY <1>2 DEF Reaped
<1>3. ASSUME NEW p \in Pids, OtherStarts(p) PROVE OwnedInv'
  BY <1>3, SpawnIs DEF OtherStarts, Exes
<1>4. ASSUME NEW a \in Apps, BeginLaunch(a) PROVE OwnedInv'
  BY <1>4 DEF BeginLaunch, Begin, NothingThere
<1>5. ASSUME NEW a \in Apps, BeginFind(a) PROVE OwnedInv'
  BY <1>5 DEF BeginFind, Begin, NothingThere
<1>6. ASSUME NEW a \in Apps, BeginKill(a) PROVE OwnedInv'
  BY <1>6 DEF BeginKill, Begin, NothingThere
<1>7. ASSUME NEW a \in Apps, BeginStop(a) PROVE OwnedInv'
  BY <1>7 DEF BeginStop, Begin, NothingThere
<1>8. ASSUME NEW a \in Apps, Acquire(a) PROVE OwnedInv'
  BY <1>8 DEF Acquire, Entry
<1>9. ASSUME NEW a \in Apps, LockTimesOut(a) PROVE OwnedInv'
  BY <1>9 DEF LockTimesOut
<1>10. ASSUME NEW a \in Apps, NoneOwned(a) PROVE OwnedInv'
  BY <1>10 DEF NoneOwned
<1>11. ASSUME NEW a \in Apps, FindStale(a) PROVE OwnedInv'
  BY <1>11, RowsAre DEF FindStale, PidListed
<1>12. ASSUME NEW a \in Apps, FindMismatch(a) PROVE OwnedInv'
  BY <1>12, RowsAre DEF FindMismatch, PidListed
<1>13. ASSUME NEW a \in Apps, FindOwned(a) PROVE OwnedInv'
  BY <1>13, RowsAre DEF FindOwned
<1>14. ASSUME NEW a \in Apps, Drop(a) PROVE OwnedInv'
  BY <1>14 DEF Drop
<1>15. ASSUME NEW a \in Apps, Open(a) PROVE OwnedInv'
  BY <1>15 DEF Open
<1>16. ASSUME NEW a \in Apps, CheckExited(a) PROVE OwnedInv'
  BY <1>16 DEF CheckExited
<1>17. ASSUME NEW a \in Apps, CheckIdentity(a) PROVE OwnedInv'
  BY <1>17 DEF CheckIdentity
<1>18. ASSUME NEW a \in Apps, SignalGraceful(a) PROVE OwnedInv'
  BY <1>18 DEF SignalGraceful
<1>19. ASSUME NEW a \in Apps, Survives(a) PROVE OwnedInv'
  BY <1>19 DEF Survives
<1>20. ASSUME NEW a \in Apps, ForceByHandle(a) PROVE OwnedInv'
  BY <1>20 DEF ForceByHandle
<1>21. ASSUME NEW a \in Apps, StopUnauthorized(a) PROVE OwnedInv'
  BY <1>21 DEF StopUnauthorized
<1>22. ASSUME NEW a \in Apps, StopAuthorized(a) PROVE OwnedInv'
  BY <1>22 DEF StopAuthorized
<1>23. ASSUME NEW a \in Apps, Terminate(a) PROVE OwnedInv'
  BY <1>23 DEF Terminate
<1>24. ASSUME NEW a \in Apps, Adopt(a) PROVE OwnedInv'
  BY <1>24 DEF Adopt
<1>25. ASSUME NEW a \in Apps, Unreachable(a) PROVE OwnedInv'
  BY <1>25 DEF Unreachable
<1>26. ASSUME NEW a \in Apps, SweepFails(a) PROVE OwnedInv'
  BY <1>26 DEF SweepFails, Sweeping, SettingsBusy
<1>27. ASSUME NEW a \in Apps, Sweep(a) PROVE OwnedInv'
  BY <1>27, RowsAre DEF Sweep, Onward
<1>28. ASSUME NEW a \in Apps, SweepEach(a) PROVE OwnedInv'
  BY <1>28 DEF SweepEach
<1>29. ASSUME NEW a \in Apps, SweepOpen(a) PROVE OwnedInv'
  BY <1>29 DEF SweepOpen
<1>30. ASSUME NEW a \in Apps, SweepSignal(a) PROVE OwnedInv'
  BY <1>30 DEF SweepSignal
<1>31. ASSUME NEW a \in Apps, SweepForce(a) PROVE OwnedInv'
  BY <1>31 DEF SweepForce
<1>32. ASSUME NEW a \in Apps, SweepDone(a) PROVE OwnedInv'
  BY <1>32 DEF SweepDone, Onward
<1>33. ASSUME NEW a \in Apps, AdmitRefused(a) PROVE OwnedInv'
  BY <1>33 DEF AdmitRefused
<1>34. ASSUME NEW a \in Apps, Admit(a) PROVE OwnedInv'
  BY <1>34, RowsAre DEF Admit
<1>35. ASSUME NEW a \in Apps, Popen(a) PROVE OwnedInv'
  BY <1>35, SpawnIs DEF Popen, Exes
<1>36. ASSUME NEW a \in Apps, PopenFails(a) PROVE OwnedInv'
  BY <1>36 DEF PopenFails
<1>37. ASSUME NEW a \in Apps, Validate(a) PROVE OwnedInv'
  BY <1>37 DEF Validate
<1>38. ASSUME NEW a \in Apps, WriteTemporary(a) PROVE OwnedInv'
  BY <1>38 DEF WriteTemporary
<1>39. ASSUME NEW a \in Apps, Publish(a) PROVE OwnedInv'
  BY <1>39 DEF Publish
<1>40. ASSUME NEW a \in Apps, Establish(a) PROVE OwnedInv'
  BY <1>40 DEF Establish
<1>41. ASSUME NEW a \in Apps, Cleanup(a) PROVE OwnedInv'
  BY <1>41 DEF Cleanup, ForgetPopen
<1>42. ASSUME NEW a \in Apps, PublishFails(a) PROVE OwnedInv'
  BY <1>42 DEF PublishFails
<1>43. ASSUME NEW a \in Apps, EstablishInterrupted(a) PROVE OwnedInv'
  BY <1>43 DEF EstablishInterrupted
<1>44. ASSUME NEW a \in Apps, CleanupFails(a) PROVE OwnedInv'
  BY <1>44 DEF CleanupFails, ForgetPopen
<1>45. ASSUME NEW a \in Apps, Fails(a) PROVE OwnedInv'
  BY <1>45 DEF Fails, Sweeping
<1>46. ASSUME NEW a \in Apps, Crash(a) PROVE OwnedInv'
  BY <1>46 DEF Crash
<1>47. CASE UNCHANGED vars
  BY <1>47
<1>48. QED
  BY <1>1, <1>2, <1>3, <1>4, <1>5, <1>6, <1>7, <1>8, <1>9, <1>10, <1>11, <1>12, <1>13, <1>14,
      <1>15, <1>16, <1>17, <1>18, <1>19, <1>20, <1>21, <1>22, <1>23, <1>24, <1>25, <1>26, <1>27,
      <1>28, <1>29, <1>30, <1>31, <1>32, <1>33, <1>34, <1>35, <1>36, <1>37, <1>38, <1>39, <1>40,
      <1>41, <1>42, <1>43, <1>44, <1>45, <1>46, <1>47 DEF Next, Begins, Step, Mishap

(* Every step keeps SweepInv.                                               *)
LEMMA NextSweepInv == IInv /\ [Next]_vars => SweepInv'
<1> SUFFICES ASSUME IInv, [Next]_vars PROVE SweepInv'
  OBVIOUS
<1> USE NamesAssumption DEF IInv, Types, OsType, FileType, ControlType, CallType, OwnType,
    PastType, CallInv, SweepInv, HeldInv, Launching, Sweeping, Managed, Goto, SameWorld, SameCall,
    Return, Forget, Unlock, Fault, Ends, IsFree, osVars, fileVars, callVars, ownVars, pastVars,
    vars
<1>1. ASSUME NEW p \in Pids, Exits(p) PROVE SweepInv'
  BY <1>1 DEF Exits
<1>2. ASSUME NEW p \in Pids, Reaped(p) PROVE SweepInv'
  BY <1>2 DEF Reaped
<1>3. ASSUME NEW p \in Pids, OtherStarts(p) PROVE SweepInv'
  BY <1>3, SpawnIs DEF OtherStarts, Exes
<1>4. ASSUME NEW a \in Apps, BeginLaunch(a) PROVE SweepInv'
  BY <1>4 DEF BeginLaunch, Begin, NothingThere
<1>5. ASSUME NEW a \in Apps, BeginFind(a) PROVE SweepInv'
  BY <1>5 DEF BeginFind, Begin, NothingThere
<1>6. ASSUME NEW a \in Apps, BeginKill(a) PROVE SweepInv'
  BY <1>6 DEF BeginKill, Begin, NothingThere
<1>7. ASSUME NEW a \in Apps, BeginStop(a) PROVE SweepInv'
  BY <1>7 DEF BeginStop, Begin, NothingThere
<1>8. ASSUME NEW a \in Apps, Acquire(a) PROVE SweepInv'
  <2>1. /\ pc'[a] \in {"idle", "find", "stop", "admit"} /\ pc[a] = "lock"
        /\ \A b \in Apps \ {a} : pc'[b] = pc[b]
        /\ UNCHANGED <<op, expected, todo, target, handles>>
    BY <1>8, EntryIs DEF Acquire
  <2>2. QED
    BY <2>1
<1>9. ASSUME NEW a \in Apps, LockTimesOut(a) PROVE SweepInv'
  BY <1>9 DEF LockTimesOut
<1>10. ASSUME NEW a \in Apps, NoneOwned(a) PROVE SweepInv'
  BY <1>10 DEF NoneOwned
<1>11. ASSUME NEW a \in Apps, FindStale(a) PROVE SweepInv'
  BY <1>11, RowsAre DEF FindStale, PidListed
<1>12. ASSUME NEW a \in Apps, FindMismatch(a) PROVE SweepInv'
  BY <1>12, RowsAre DEF FindMismatch, PidListed
<1>13. ASSUME NEW a \in Apps, FindOwned(a) PROVE SweepInv'
  BY <1>13, RowsAre DEF FindOwned
<1>14. ASSUME NEW a \in Apps, Drop(a) PROVE SweepInv'
  BY <1>14 DEF Drop
<1>15. ASSUME NEW a \in Apps, Open(a) PROVE SweepInv'
  BY <1>15 DEF Open
<1>16. ASSUME NEW a \in Apps, CheckExited(a) PROVE SweepInv'
  BY <1>16 DEF CheckExited
<1>17. ASSUME NEW a \in Apps, CheckIdentity(a) PROVE SweepInv'
  BY <1>17 DEF CheckIdentity
<1>18. ASSUME NEW a \in Apps, SignalGraceful(a) PROVE SweepInv'
  BY <1>18 DEF SignalGraceful
<1>19. ASSUME NEW a \in Apps, Survives(a) PROVE SweepInv'
  BY <1>19 DEF Survives
<1>20. ASSUME NEW a \in Apps, ForceByHandle(a) PROVE SweepInv'
  BY <1>20 DEF ForceByHandle
<1>21. ASSUME NEW a \in Apps, StopUnauthorized(a) PROVE SweepInv'
  BY <1>21 DEF StopUnauthorized
<1>22. ASSUME NEW a \in Apps, StopAuthorized(a) PROVE SweepInv'
  BY <1>22 DEF StopAuthorized
<1>23. ASSUME NEW a \in Apps, Terminate(a) PROVE SweepInv'
  BY <1>23 DEF Terminate
<1>24. ASSUME NEW a \in Apps, Adopt(a) PROVE SweepInv'
  BY <1>24 DEF Adopt
<1>25. ASSUME NEW a \in Apps, Unreachable(a) PROVE SweepInv'
  BY <1>25 DEF Unreachable
<1>26. ASSUME NEW a \in Apps, SweepFails(a) PROVE SweepInv'
  BY <1>26 DEF SweepFails, Sweeping, SettingsBusy
<1>27. ASSUME NEW a \in Apps, Sweep(a) PROVE SweepInv'
  BY <1>27, RowsAre DEF Sweep, Onward
<1>28. ASSUME NEW a \in Apps, SweepEach(a) PROVE SweepInv'
  BY <1>28 DEF SweepEach
<1>29. ASSUME NEW a \in Apps, SweepOpen(a) PROVE SweepInv'
  BY <1>29 DEF SweepOpen
<1>30. ASSUME NEW a \in Apps, SweepSignal(a) PROVE SweepInv'
  BY <1>30 DEF SweepSignal
<1>31. ASSUME NEW a \in Apps, SweepForce(a) PROVE SweepInv'
  BY <1>31 DEF SweepForce
<1>32. ASSUME NEW a \in Apps, SweepDone(a) PROVE SweepInv'
  BY <1>32 DEF SweepDone, Onward
<1>33. ASSUME NEW a \in Apps, AdmitRefused(a) PROVE SweepInv'
  BY <1>33 DEF AdmitRefused
<1>34. ASSUME NEW a \in Apps, Admit(a) PROVE SweepInv'
  BY <1>34, RowsAre DEF Admit
<1>35. ASSUME NEW a \in Apps, Popen(a) PROVE SweepInv'
  BY <1>35, SpawnIs DEF Popen, Exes
<1>36. ASSUME NEW a \in Apps, PopenFails(a) PROVE SweepInv'
  BY <1>36 DEF PopenFails
<1>37. ASSUME NEW a \in Apps, Validate(a) PROVE SweepInv'
  BY <1>37 DEF Validate
<1>38. ASSUME NEW a \in Apps, WriteTemporary(a) PROVE SweepInv'
  BY <1>38 DEF WriteTemporary
<1>39. ASSUME NEW a \in Apps, Publish(a) PROVE SweepInv'
  BY <1>39 DEF Publish
<1>40. ASSUME NEW a \in Apps, Establish(a) PROVE SweepInv'
  BY <1>40 DEF Establish
<1>41. ASSUME NEW a \in Apps, Cleanup(a) PROVE SweepInv'
  BY <1>41 DEF Cleanup, ForgetPopen
<1>42. ASSUME NEW a \in Apps, PublishFails(a) PROVE SweepInv'
  BY <1>42 DEF PublishFails
<1>43. ASSUME NEW a \in Apps, EstablishInterrupted(a) PROVE SweepInv'
  BY <1>43 DEF EstablishInterrupted
<1>44. ASSUME NEW a \in Apps, CleanupFails(a) PROVE SweepInv'
  BY <1>44 DEF CleanupFails, ForgetPopen
<1>45. ASSUME NEW a \in Apps, Fails(a) PROVE SweepInv'
  BY <1>45 DEF Fails, Sweeping
<1>46. ASSUME NEW a \in Apps, Crash(a) PROVE SweepInv'
  BY <1>46 DEF Crash
<1>47. CASE UNCHANGED vars
  BY <1>47
<1>48. QED
  BY <1>1, <1>2, <1>3, <1>4, <1>5, <1>6, <1>7, <1>8, <1>9, <1>10, <1>11, <1>12, <1>13, <1>14,
      <1>15, <1>16, <1>17, <1>18, <1>19, <1>20, <1>21, <1>22, <1>23, <1>24, <1>25, <1>26, <1>27,
      <1>28, <1>29, <1>30, <1>31, <1>32, <1>33, <1>34, <1>35, <1>36, <1>37, <1>38, <1>39, <1>40,
      <1>41, <1>42, <1>43, <1>44, <1>45, <1>46, <1>47 DEF Next, Begins, Step, Mishap

-----------------------------------------------------------------------------
(* The invariant holds in every reachable state.                            *)
THEOREM Invariance == Spec => []IInv
<1>1. IInv /\ [Next]_vars => IInv'
  BY NextOsType, NextFileType, NextControlType, NextCallType, NextOwnType, NextPastType,
     NextTableInv, NextLeaseInv, NextLockInv, NextCallInv, NextHeldInv, NextOneInv, NextStepInv,
     NextSweepInv, NextTempInv, NextOwnedInv DEF IInv, Types
<1>2. QED
  BY <1>1, InitIInv, PTL DEF Spec

(* Every variable has its type.                                             *)
THEOREM TypeCorrect == Spec => []TypeOK
<1>1. IInv => TypeOK
  BY TypesAgree DEF IInv
<1>2. QED
  BY <1>1, Invariance, PTL

(* A transaction sees no temporary of a dead writer.                        *)
THEOREM TemporariesHeld == Spec => []TemporaryIsTheHolders
<1>1. IInv => TemporaryIsTheHolders
  BY DEF IInv, TempInv
<1>2. QED
  BY <1>1, Invariance, PTL

(* Without a crash or a failure no OBS is left alone.                       *)
THEOREM ObsOwned == Spec => []EveryObsIsOwned
<1>1. IInv => EveryObsIsOwned
  BY DEF IInv, OwnedInv, EveryObsIsOwned, Owning
<1>2. QED
  BY <1>1, Invariance, PTL

-----------------------------------------------------------------------------
(* A call that returns while no process ends, ends none.                    *)
LEMMA QuietReturn ==
    ASSUME IInv, NEW a \in Apps, Return(a), live' = live
    PROVE  \A b \in Apps : EndsOnlyOurs(b) /\ EndsOnlyManaged(b)
<1>1. live \ live' = {}
  OBVIOUS
<1>2. pc'[a] = "idle" /\ \A b \in Apps \ {a} : pc'[b] = pc[b] /\ forced'[b] = forced[b]
  BY DEF Return, Forget, IInv, Types, ControlType, CallType
<1>3. \A b \in Apps : EndsOnlyOurs(b)
  BY <1>1, <1>2 DEF EndsOnlyOurs
<1>4. \A b \in Apps : EndsOnlyManaged(b)
  BY <1>1, <1>2 DEF EndsOnlyManaged
<1>5. QED
  BY <1>3, <1>4

(* The actions that end processes end those of the application.             *)
(* Every step ends only processes of ours.                                  *)
LEMMA NextEndsOnlyOurs == IInv /\ [Next]_vars => [\A b \in Apps : EndsOnlyOurs(b)]_vars
<1> SUFFICES ASSUME IInv, [Next]_vars PROVE [\A b \in Apps : EndsOnlyOurs(b)]_vars
  OBVIOUS
<1> USE NamesAssumption DEF IInv, Types, OsType, ControlType, CallType, OwnType, TableInv,
    LeaseInv, HeldInv, StepInv, CallInv, SweepInv, Owning, Managed, Identities, Goto, SameWorld,
    SameCall, Return, Forget, Unlock, Fault, Ends, IsFree, osVars, fileVars, callVars, ownVars,
    pastVars, vars, EndsOnlyOurs
<1>1. ASSUME NEW p \in Pids, Exits(p) PROVE [\A b \in Apps : EndsOnlyOurs(b)]_vars
  BY <1>1 DEF Exits
<1>2. ASSUME NEW p \in Pids, Reaped(p) PROVE [\A b \in Apps : EndsOnlyOurs(b)]_vars
  BY <1>2 DEF Reaped
<1>3. ASSUME NEW p \in Pids, OtherStarts(p) PROVE [\A b \in Apps : EndsOnlyOurs(b)]_vars
  BY <1>3, SpawnIs DEF OtherStarts, Exes
<1>4. ASSUME NEW a \in Apps, BeginLaunch(a) PROVE [\A b \in Apps : EndsOnlyOurs(b)]_vars
  BY <1>4 DEF BeginLaunch, Begin, NothingThere
<1>5. ASSUME NEW a \in Apps, BeginFind(a) PROVE [\A b \in Apps : EndsOnlyOurs(b)]_vars
  BY <1>5 DEF BeginFind, Begin, NothingThere
<1>6. ASSUME NEW a \in Apps, BeginKill(a) PROVE [\A b \in Apps : EndsOnlyOurs(b)]_vars
  BY <1>6 DEF BeginKill, Begin, NothingThere
<1>7. ASSUME NEW a \in Apps, BeginStop(a) PROVE [\A b \in Apps : EndsOnlyOurs(b)]_vars
  BY <1>7 DEF BeginStop, Begin, NothingThere
<1>8. ASSUME NEW a \in Apps, Acquire(a) PROVE [\A b \in Apps : EndsOnlyOurs(b)]_vars
  <2>1. /\ live' = live /\ pc[a] = "lock" /\ pc'[a] # "wait"
        /\ \A b \in Apps \ {a} : pc'[b] = pc[b] /\ forced'[b] = forced[b]
    BY <1>8, EntryIs DEF Acquire
  <2>2. live \ live' = {}
    BY <2>1
  <2>3. QED
    BY <2>1, <2>2
<1>9. ASSUME NEW a \in Apps, LockTimesOut(a) PROVE [\A b \in Apps : EndsOnlyOurs(b)]_vars
  <2>1. Return(a) /\ live' = live
    BY <1>9 DEF LockTimesOut
  <2>2. QED
    BY <2>1, QuietReturn
<1>10. ASSUME NEW a \in Apps, NoneOwned(a) PROVE [\A b \in Apps : EndsOnlyOurs(b)]_vars
  BY <1>10 DEF NoneOwned
<1>11. ASSUME NEW a \in Apps, FindStale(a) PROVE [\A b \in Apps : EndsOnlyOurs(b)]_vars
  BY <1>11, RowsAre DEF FindStale, PidListed
<1>12. ASSUME NEW a \in Apps, FindMismatch(a) PROVE [\A b \in Apps : EndsOnlyOurs(b)]_vars
  <2>1. Return(a) /\ live' = live
    BY <1>12 DEF FindMismatch, PidListed
  <2>2. QED
    BY <2>1, QuietReturn
<1>13. ASSUME NEW a \in Apps, FindOwned(a) PROVE [\A b \in Apps : EndsOnlyOurs(b)]_vars
  BY <1>13, RowsAre DEF FindOwned
<1>14. ASSUME NEW a \in Apps, Drop(a) PROVE [\A b \in Apps : EndsOnlyOurs(b)]_vars
  BY <1>14 DEF Drop
<1>15. ASSUME NEW a \in Apps, Open(a) PROVE [\A b \in Apps : EndsOnlyOurs(b)]_vars
  BY <1>15 DEF Open
<1>16. ASSUME NEW a \in Apps, CheckExited(a) PROVE [\A b \in Apps : EndsOnlyOurs(b)]_vars
  BY <1>16 DEF CheckExited
<1>17. ASSUME NEW a \in Apps, CheckIdentity(a) PROVE [\A b \in Apps : EndsOnlyOurs(b)]_vars
  BY <1>17 DEF CheckIdentity
<1>18. ASSUME NEW a \in Apps, SignalGraceful(a) PROVE [\A b \in Apps : EndsOnlyOurs(b)]_vars
  BY <1>18 DEF SignalGraceful
<1>19. ASSUME NEW a \in Apps, Survives(a) PROVE [\A b \in Apps : EndsOnlyOurs(b)]_vars
  <2>1. Return(a) /\ live' = live
    BY <1>19 DEF Survives
  <2>2. QED
    BY <2>1, QuietReturn
<1>20. ASSUME NEW a \in Apps, ForceByHandle(a) PROVE [\A b \in Apps : EndsOnlyOurs(b)]_vars
  <2>1. /\ pc[a] = "wait" /\ pc' = pc /\ live' = live \ {id.pid : id \in handles[a]}
        /\ \A b \in Apps \ {a} : forced'[b] = forced[b]
    BY <1>20 DEF ForceByHandle
  <2>2. handles[a] = {lease} /\ table[lease.pid] = lease
    BY <2>1
  <2>3. lease.pid \in live => lease \in started
    BY <2>2
  <2>4. \A q \in live \ live' : table[q] \in started
    BY <2>1, <2>2, <2>3
  <2>5. QED
    BY <2>1, <2>4
<1>21. ASSUME NEW a \in Apps, StopUnauthorized(a) PROVE [\A b \in Apps : EndsOnlyOurs(b)]_vars
  <2>1. Return(a) /\ live' = live
    BY <1>21 DEF StopUnauthorized
  <2>2. QED
    BY <2>1, QuietReturn
<1>22. ASSUME NEW a \in Apps, StopAuthorized(a) PROVE [\A b \in Apps : EndsOnlyOurs(b)]_vars
  BY <1>22 DEF StopAuthorized
<1>23. ASSUME NEW a \in Apps, Terminate(a) PROVE [\A b \in Apps : EndsOnlyOurs(b)]_vars
  BY <1>23 DEF Terminate
<1>24. ASSUME NEW a \in Apps, Adopt(a) PROVE [\A b \in Apps : EndsOnlyOurs(b)]_vars
  <2>1. Return(a) /\ live' = live
    BY <1>24 DEF Adopt
  <2>2. QED
    BY <2>1, QuietReturn
<1>25. ASSUME NEW a \in Apps, Unreachable(a) PROVE [\A b \in Apps : EndsOnlyOurs(b)]_vars
  BY <1>25 DEF Unreachable
<1>26. ASSUME NEW a \in Apps, SweepFails(a) PROVE [\A b \in Apps : EndsOnlyOurs(b)]_vars
  <2>1. Return(a) /\ live' = live
    BY <1>26 DEF SweepFails, Sweeping, SettingsBusy
  <2>2. QED
    BY <2>1, QuietReturn
<1>27. ASSUME NEW a \in Apps, Sweep(a) PROVE [\A b \in Apps : EndsOnlyOurs(b)]_vars
  BY <1>27, RowsAre DEF Sweep, Onward
<1>28. ASSUME NEW a \in Apps, SweepEach(a) PROVE [\A b \in Apps : EndsOnlyOurs(b)]_vars
  BY <1>28 DEF SweepEach
<1>29. ASSUME NEW a \in Apps, SweepOpen(a) PROVE [\A b \in Apps : EndsOnlyOurs(b)]_vars
  BY <1>29 DEF SweepOpen
<1>30. ASSUME NEW a \in Apps, SweepSignal(a) PROVE [\A b \in Apps : EndsOnlyOurs(b)]_vars
  BY <1>30 DEF SweepSignal
<1>31. ASSUME NEW a \in Apps, SweepForce(a) PROVE [\A b \in Apps : EndsOnlyOurs(b)]_vars
  <2>1. /\ pc[a] = "sweepWait" /\ pc' = pc
        /\ \A b \in Apps \ {a} : forced'[b] = forced[b]
    BY <1>31 DEF SweepForce
  <2>2. QED
    BY <2>1
<1>32. ASSUME NEW a \in Apps, SweepDone(a) PROVE [\A b \in Apps : EndsOnlyOurs(b)]_vars
  <2>1. /\ live' = live /\ pc[a] = "sweepWait" /\ pc'[a] = "lock"
        /\ \A b \in Apps \ {a} : pc'[b] = pc[b] /\ forced'[b] = forced[b]
    BY <1>32 DEF SweepDone, Onward
  <2>2. live \ live' = {}
    BY <2>1
  <2>3. QED
    BY <2>1, <2>2
<1>33. ASSUME NEW a \in Apps, AdmitRefused(a) PROVE [\A b \in Apps : EndsOnlyOurs(b)]_vars
  <2>1. Return(a) /\ live' = live
    BY <1>33 DEF AdmitRefused
  <2>2. QED
    BY <2>1, QuietReturn
<1>34. ASSUME NEW a \in Apps, Admit(a) PROVE [\A b \in Apps : EndsOnlyOurs(b)]_vars
  BY <1>34, RowsAre DEF Admit
<1>35. ASSUME NEW a \in Apps, Popen(a) PROVE [\A b \in Apps : EndsOnlyOurs(b)]_vars
  BY <1>35, SpawnIs DEF Popen, Exes
<1>36. ASSUME NEW a \in Apps, PopenFails(a) PROVE [\A b \in Apps : EndsOnlyOurs(b)]_vars
  <2>1. Return(a) /\ live' = live
    BY <1>36 DEF PopenFails
  <2>2. QED
    BY <2>1, QuietReturn
<1>37. ASSUME NEW a \in Apps, Validate(a) PROVE [\A b \in Apps : EndsOnlyOurs(b)]_vars
  BY <1>37 DEF Validate
<1>38. ASSUME NEW a \in Apps, WriteTemporary(a) PROVE [\A b \in Apps : EndsOnlyOurs(b)]_vars
  BY <1>38 DEF WriteTemporary
<1>39. ASSUME NEW a \in Apps, Publish(a) PROVE [\A b \in Apps : EndsOnlyOurs(b)]_vars
  BY <1>39 DEF Publish
<1>40. ASSUME NEW a \in Apps, Establish(a) PROVE [\A b \in Apps : EndsOnlyOurs(b)]_vars
  <2>1. Return(a) /\ live' = live
    BY <1>40 DEF Establish
  <2>2. QED
    BY <2>1, QuietReturn
<1>41. ASSUME NEW a \in Apps, Cleanup(a) PROVE [\A b \in Apps : EndsOnlyOurs(b)]_vars
  <2>1. /\ pc[a] = "cleanup" /\ pc'[a] = "idle" /\ live \ live' \subseteq {popen[a].pid}
        /\ \A b \in Apps \ {a} : pc'[b] = pc[b] /\ forced'[b] = forced[b]
    BY <1>41 DEF Cleanup
  <2>2. table[popen[a].pid] \in started
    BY <2>1
  <2>3. QED
    BY <2>1, <2>2
<1>42. ASSUME NEW a \in Apps, PublishFails(a) PROVE [\A b \in Apps : EndsOnlyOurs(b)]_vars
  BY <1>42 DEF PublishFails
<1>43. ASSUME NEW a \in Apps, EstablishInterrupted(a) PROVE [\A b \in Apps : EndsOnlyOurs(b)]_vars
  BY <1>43 DEF EstablishInterrupted
<1>44. ASSUME NEW a \in Apps, CleanupFails(a) PROVE [\A b \in Apps : EndsOnlyOurs(b)]_vars
  <2>1. Return(a) /\ live' = live
    BY <1>44 DEF CleanupFails, ForgetPopen
  <2>2. QED
    BY <2>1, QuietReturn
<1>45. ASSUME NEW a \in Apps, Fails(a) PROVE [\A b \in Apps : EndsOnlyOurs(b)]_vars
  BY <1>45 DEF Fails, Sweeping
<1>46. ASSUME NEW a \in Apps, Crash(a) PROVE [\A b \in Apps : EndsOnlyOurs(b)]_vars
  <2>1. Return(a) /\ live' = live
    BY <1>46 DEF Crash
  <2>2. QED
    BY <2>1, QuietReturn
<1>47. CASE UNCHANGED vars
  BY <1>47
<1>48. QED
  BY <1>1, <1>2, <1>3, <1>4, <1>5, <1>6, <1>7, <1>8, <1>9, <1>10, <1>11, <1>12, <1>13, <1>14,
      <1>15, <1>16, <1>17, <1>18, <1>19, <1>20, <1>21, <1>22, <1>23, <1>24, <1>25, <1>26, <1>27,
      <1>28, <1>29, <1>30, <1>31, <1>32, <1>33, <1>34, <1>35, <1>36, <1>37, <1>38, <1>39, <1>40,
      <1>41, <1>42, <1>43, <1>44, <1>45, <1>46, <1>47 DEF Next, Begins, Step, Mishap

(* Every sweep ends only managed processes.                                 *)
LEMMA NextEndsOnlyManaged == IInv /\ [Next]_vars => [\A b \in Apps : EndsOnlyManaged(b)]_vars
<1> SUFFICES ASSUME IInv, [Next]_vars PROVE [\A b \in Apps : EndsOnlyManaged(b)]_vars
  OBVIOUS
<1> USE NamesAssumption DEF IInv, Types, OsType, ControlType, CallType, OwnType, TableInv,
    LeaseInv, HeldInv, StepInv, CallInv, SweepInv, Owning, Managed, Identities, Goto, SameWorld,
    SameCall, Return, Forget, Unlock, Fault, Ends, IsFree, osVars, fileVars, callVars, ownVars,
    pastVars, vars, EndsOnlyManaged, Sweeping
<1>1. ASSUME NEW p \in Pids, Exits(p) PROVE [\A b \in Apps : EndsOnlyManaged(b)]_vars
  BY <1>1 DEF Exits
<1>2. ASSUME NEW p \in Pids, Reaped(p) PROVE [\A b \in Apps : EndsOnlyManaged(b)]_vars
  BY <1>2 DEF Reaped
<1>3. ASSUME NEW p \in Pids, OtherStarts(p) PROVE [\A b \in Apps : EndsOnlyManaged(b)]_vars
  BY <1>3, SpawnIs DEF OtherStarts, Exes
<1>4. ASSUME NEW a \in Apps, BeginLaunch(a) PROVE [\A b \in Apps : EndsOnlyManaged(b)]_vars
  BY <1>4 DEF BeginLaunch, Begin, NothingThere
<1>5. ASSUME NEW a \in Apps, BeginFind(a) PROVE [\A b \in Apps : EndsOnlyManaged(b)]_vars
  BY <1>5 DEF BeginFind, Begin, NothingThere
<1>6. ASSUME NEW a \in Apps, BeginKill(a) PROVE [\A b \in Apps : EndsOnlyManaged(b)]_vars
  BY <1>6 DEF BeginKill, Begin, NothingThere
<1>7. ASSUME NEW a \in Apps, BeginStop(a) PROVE [\A b \in Apps : EndsOnlyManaged(b)]_vars
  BY <1>7 DEF BeginStop, Begin, NothingThere
<1>8. ASSUME NEW a \in Apps, Acquire(a) PROVE [\A b \in Apps : EndsOnlyManaged(b)]_vars
  <2>1. /\ live' = live /\ pc[a] = "lock" /\ pc'[a] # "sweepEach"
        /\ \A b \in Apps \ {a} : pc'[b] = pc[b] /\ forced'[b] = forced[b]
    BY <1>8, EntryIs DEF Acquire
  <2>2. live \ live' = {}
    BY <2>1
  <2>3. QED
    BY <2>1, <2>2
<1>9. ASSUME NEW a \in Apps, LockTimesOut(a) PROVE [\A b \in Apps : EndsOnlyManaged(b)]_vars
  <2>1. Return(a) /\ live' = live
    BY <1>9 DEF LockTimesOut
  <2>2. QED
    BY <2>1, QuietReturn
<1>10. ASSUME NEW a \in Apps, NoneOwned(a) PROVE [\A b \in Apps : EndsOnlyManaged(b)]_vars
  BY <1>10 DEF NoneOwned
<1>11. ASSUME NEW a \in Apps, FindStale(a) PROVE [\A b \in Apps : EndsOnlyManaged(b)]_vars
  BY <1>11, RowsAre DEF FindStale, PidListed
<1>12. ASSUME NEW a \in Apps, FindMismatch(a) PROVE [\A b \in Apps : EndsOnlyManaged(b)]_vars
  <2>1. Return(a) /\ live' = live
    BY <1>12 DEF FindMismatch, PidListed
  <2>2. QED
    BY <2>1, QuietReturn
<1>13. ASSUME NEW a \in Apps, FindOwned(a) PROVE [\A b \in Apps : EndsOnlyManaged(b)]_vars
  BY <1>13, RowsAre DEF FindOwned
<1>14. ASSUME NEW a \in Apps, Drop(a) PROVE [\A b \in Apps : EndsOnlyManaged(b)]_vars
  BY <1>14 DEF Drop
<1>15. ASSUME NEW a \in Apps, Open(a) PROVE [\A b \in Apps : EndsOnlyManaged(b)]_vars
  BY <1>15 DEF Open
<1>16. ASSUME NEW a \in Apps, CheckExited(a) PROVE [\A b \in Apps : EndsOnlyManaged(b)]_vars
  BY <1>16 DEF CheckExited
<1>17. ASSUME NEW a \in Apps, CheckIdentity(a) PROVE [\A b \in Apps : EndsOnlyManaged(b)]_vars
  BY <1>17 DEF CheckIdentity
<1>18. ASSUME NEW a \in Apps, SignalGraceful(a) PROVE [\A b \in Apps : EndsOnlyManaged(b)]_vars
  BY <1>18 DEF SignalGraceful
<1>19. ASSUME NEW a \in Apps, Survives(a) PROVE [\A b \in Apps : EndsOnlyManaged(b)]_vars
  <2>1. Return(a) /\ live' = live
    BY <1>19 DEF Survives
  <2>2. QED
    BY <2>1, QuietReturn
<1>20. ASSUME NEW a \in Apps, ForceByHandle(a) PROVE [\A b \in Apps : EndsOnlyManaged(b)]_vars
  <2>1. /\ pc[a] = "wait" /\ pc' = pc
        /\ \A b \in Apps \ {a} : forced'[b] = forced[b]
    BY <1>20 DEF ForceByHandle
  <2>2. QED
    BY <2>1
<1>21. ASSUME NEW a \in Apps, StopUnauthorized(a) PROVE [\A b \in Apps : EndsOnlyManaged(b)]_vars
  <2>1. Return(a) /\ live' = live
    BY <1>21 DEF StopUnauthorized
  <2>2. QED
    BY <2>1, QuietReturn
<1>22. ASSUME NEW a \in Apps, StopAuthorized(a) PROVE [\A b \in Apps : EndsOnlyManaged(b)]_vars
  BY <1>22 DEF StopAuthorized
<1>23. ASSUME NEW a \in Apps, Terminate(a) PROVE [\A b \in Apps : EndsOnlyManaged(b)]_vars
  BY <1>23 DEF Terminate
<1>24. ASSUME NEW a \in Apps, Adopt(a) PROVE [\A b \in Apps : EndsOnlyManaged(b)]_vars
  <2>1. Return(a) /\ live' = live
    BY <1>24 DEF Adopt
  <2>2. QED
    BY <2>1, QuietReturn
<1>25. ASSUME NEW a \in Apps, Unreachable(a) PROVE [\A b \in Apps : EndsOnlyManaged(b)]_vars
  BY <1>25 DEF Unreachable
<1>26. ASSUME NEW a \in Apps, SweepFails(a) PROVE [\A b \in Apps : EndsOnlyManaged(b)]_vars
  <2>1. Return(a) /\ live' = live
    BY <1>26 DEF SweepFails, Sweeping, SettingsBusy
  <2>2. QED
    BY <2>1, QuietReturn
<1>27. ASSUME NEW a \in Apps, Sweep(a) PROVE [\A b \in Apps : EndsOnlyManaged(b)]_vars
  BY <1>27, RowsAre DEF Sweep, Onward
<1>28. ASSUME NEW a \in Apps, SweepEach(a) PROVE [\A b \in Apps : EndsOnlyManaged(b)]_vars
  BY <1>28 DEF SweepEach
<1>29. ASSUME NEW a \in Apps, SweepOpen(a) PROVE [\A b \in Apps : EndsOnlyManaged(b)]_vars
  BY <1>29 DEF SweepOpen
<1>30. ASSUME NEW a \in Apps, SweepSignal(a) PROVE [\A b \in Apps : EndsOnlyManaged(b)]_vars
  BY <1>30 DEF SweepSignal
<1>31. ASSUME NEW a \in Apps, SweepForce(a) PROVE [\A b \in Apps : EndsOnlyManaged(b)]_vars
  <2>1. /\ pc[a] = "sweepWait" /\ pc' = pc /\ live' = live \ {id.pid : id \in handles[a]}
        /\ \A b \in Apps \ {a} : forced'[b] = forced[b]
    BY <1>31 DEF SweepForce
  <2>2. \A id \in handles[a] : id.exe = "managed" /\ table[id.pid] = id
    BY <2>1
  <2>3. \A q \in live \ live' : table[q].exe = "managed"
    BY <2>1, <2>2
  <2>4. QED
    BY <2>1, <2>3
<1>32. ASSUME NEW a \in Apps, SweepDone(a) PROVE [\A b \in Apps : EndsOnlyManaged(b)]_vars
  <2>1. /\ live' = live /\ pc[a] = "sweepWait" /\ pc'[a] = "lock"
        /\ \A b \in Apps \ {a} : pc'[b] = pc[b] /\ forced'[b] = forced[b]
    BY <1>32 DEF SweepDone, Onward
  <2>2. live \ live' = {}
    BY <2>1
  <2>3. QED
    BY <2>1, <2>2
<1>33. ASSUME NEW a \in Apps, AdmitRefused(a) PROVE [\A b \in Apps : EndsOnlyManaged(b)]_vars
  <2>1. Return(a) /\ live' = live
    BY <1>33 DEF AdmitRefused
  <2>2. QED
    BY <2>1, QuietReturn
<1>34. ASSUME NEW a \in Apps, Admit(a) PROVE [\A b \in Apps : EndsOnlyManaged(b)]_vars
  BY <1>34, RowsAre DEF Admit
<1>35. ASSUME NEW a \in Apps, Popen(a) PROVE [\A b \in Apps : EndsOnlyManaged(b)]_vars
  BY <1>35, SpawnIs DEF Popen, Exes
<1>36. ASSUME NEW a \in Apps, PopenFails(a) PROVE [\A b \in Apps : EndsOnlyManaged(b)]_vars
  <2>1. Return(a) /\ live' = live
    BY <1>36 DEF PopenFails
  <2>2. QED
    BY <2>1, QuietReturn
<1>37. ASSUME NEW a \in Apps, Validate(a) PROVE [\A b \in Apps : EndsOnlyManaged(b)]_vars
  BY <1>37 DEF Validate
<1>38. ASSUME NEW a \in Apps, WriteTemporary(a) PROVE [\A b \in Apps : EndsOnlyManaged(b)]_vars
  BY <1>38 DEF WriteTemporary
<1>39. ASSUME NEW a \in Apps, Publish(a) PROVE [\A b \in Apps : EndsOnlyManaged(b)]_vars
  BY <1>39 DEF Publish
<1>40. ASSUME NEW a \in Apps, Establish(a) PROVE [\A b \in Apps : EndsOnlyManaged(b)]_vars
  <2>1. Return(a) /\ live' = live
    BY <1>40 DEF Establish
  <2>2. QED
    BY <2>1, QuietReturn
<1>41. ASSUME NEW a \in Apps, Cleanup(a) PROVE [\A b \in Apps : EndsOnlyManaged(b)]_vars
  <2>1. /\ pc[a] = "cleanup" /\ pc'[a] = "idle"
        /\ \A b \in Apps \ {a} : pc'[b] = pc[b] /\ forced'[b] = forced[b]
    BY <1>41 DEF Cleanup
  <2>2. QED
    BY <2>1
<1>42. ASSUME NEW a \in Apps, PublishFails(a) PROVE [\A b \in Apps : EndsOnlyManaged(b)]_vars
  BY <1>42 DEF PublishFails
<1>43. ASSUME NEW a \in Apps, EstablishInterrupted(a) PROVE [\A b \in Apps :
    EndsOnlyManaged(b)]_vars
  BY <1>43 DEF EstablishInterrupted
<1>44. ASSUME NEW a \in Apps, CleanupFails(a) PROVE [\A b \in Apps : EndsOnlyManaged(b)]_vars
  <2>1. Return(a) /\ live' = live
    BY <1>44 DEF CleanupFails, ForgetPopen
  <2>2. QED
    BY <2>1, QuietReturn
<1>45. ASSUME NEW a \in Apps, Fails(a) PROVE [\A b \in Apps : EndsOnlyManaged(b)]_vars
  BY <1>45 DEF Fails, Sweeping
<1>46. ASSUME NEW a \in Apps, Crash(a) PROVE [\A b \in Apps : EndsOnlyManaged(b)]_vars
  <2>1. Return(a) /\ live' = live
    BY <1>46 DEF Crash
  <2>2. QED
    BY <2>1, QuietReturn
<1>47. CASE UNCHANGED vars
  BY <1>47
<1>48. QED
  BY <1>1, <1>2, <1>3, <1>4, <1>5, <1>6, <1>7, <1>8, <1>9, <1>10, <1>11, <1>12, <1>13, <1>14,
      <1>15, <1>16, <1>17, <1>18, <1>19, <1>20, <1>21, <1>22, <1>23, <1>24, <1>25, <1>26, <1>27,
      <1>28, <1>29, <1>30, <1>31, <1>32, <1>33, <1>34, <1>35, <1>36, <1>37, <1>38, <1>39, <1>40,
      <1>41, <1>42, <1>43, <1>44, <1>45, <1>46, <1>47 DEF Next, Begins, Step, Mishap


(* The cleanup signals and ends no process of somebody else.                *)
THEOREM OnlyOursSignalled == Spec => SignalsOnlyOurs
<1>1. IInv /\ [Next]_vars => [\A a \in Apps : EndsOnlyOurs(a)]_vars
  BY NextEndsOnlyOurs
<1>2. QED
  BY <1>1, Invariance, PTL DEF Spec, SignalsOnlyOurs

(* The stop before a change of the settings ends the managed OBS only.      *)
THEOREM OnlyManagedSwept == Spec => SweepsOnlyManaged
<1>1. IInv /\ [Next]_vars => [\A a \in Apps : EndsOnlyManaged(a)]_vars
  BY NextEndsOnlyManaged
<1>2. QED
  BY <1>1, Invariance, PTL DEF Spec, SweepsOnlyManaged

-----------------------------------------------------------------------------
(* The lease implements its contract.                                       *)
Running == {id \in started : Live(id)}
Calm == /\ started' = started /\ lease' = lease
        /\ \A id \in started : Live(id)' => Live(id)

(* A step that starts nothing and leaves the lease alone ends at most one.  *)
LEMMA CalmRefines == ASSUME IInv, Calm PROVE [Contract!Next]_Contract!vars
<1>1. Running' \subseteq Running /\ \A i, j \in Running : i = j
  BY DEF IInv, OneInv, Running, Calm
<1>2. CASE Running' = Running
  BY <1>2 DEF Running, Calm, Contract!vars
<1>3. CASE Running' # Running
  <2>1. PICK id \in Running : Running' = Running \ {id}
    BY <1>1, <1>3
  <2>2. QED
    BY <2>1 DEF Running, Calm, Contract!Next, Contract!End
<1>4. QED
  BY <1>2, <1>3

(* The lease is taken away from an OBS that has ended.                      *)
LEMMA DropRefines ==
    ASSUME IInv, NEW a \in Apps, Drop(a) PROVE [Contract!Next]_Contract!vars
<1>1. lease' = NoLease /\ UNCHANGED <<osVars, started>> /\ ~Live(lease)
  BY DEF IInv, StepInv, Drop, pastVars
<1>2. Running' = Running /\ lease \notin Running
  BY <1>1 DEF Running, Live, osVars
<1>3. QED
  BY <1>1, <1>2 DEF Running, Contract!Next, Contract!Release, Contract!vars

(* The lease names the OBS that was just started.                           *)
LEMMA ClaimRefines ==
    ASSUME IInv, NEW a \in Apps, pc[a] = "publish", lease' = popen[a],
           UNCHANGED <<osVars, started>>
    PROVE  [Contract!Next]_Contract!vars
<1>1. lease = NoLease /\ Running \subseteq {popen[a]} /\ popen[a] \in Identities
  BY DEF IInv, Types, OwnType, StepInv, CallInv, Owning, Running
<1>2. Running' = Running
  BY DEF Running, Live, osVars
<1>3. QED
  BY <1>1, <1>2 DEF Running, Contract!Next, Contract!Claim

(* OBS is started when none of ours runs and there is no lease.             *)
LEMMA StartRefines ==
    ASSUME IInv, NEW a \in Apps, Popen(a) PROVE [Contract!Next]_Contract!vars
<1>1. lease = NoLease /\ lease' = lease /\ Running = {}
  BY DEF IInv, StepInv, Popen, Goto, fileVars, Running
<1>2. PICK p \in Pids : Spawn(p, "managed") /\ started' = started \union {table'[p]}
  BY DEF Popen
<1>3. PICK id \in Identities :
        /\ live' = live \union {p} /\ table[p] = NoLease /\ table' = [table EXCEPT ![p] = id]
        /\ id.pid = p /\ started' = started \union {id}
  BY <1>2, SpawnIs DEF IInv, Types, Exes
<1>4. \A q \in Pids \ {p} : table'[q] = table[q]
  BY <1>3 DEF IInv, Types, OsType
<1>5. table'[p] = id
  BY <1>3 DEF IInv, Types, OsType
<1>6. Live(id)'
  <2>1. id.pid \in live' /\ table'[id.pid] = id
    BY <1>3, <1>5
  <2>2. QED
    BY <1>3, <2>1 DEF Live
<1>7. ASSUME NEW i \in started, Live(i)' PROVE i = id
  <2>1. ~Live(i) /\ i \in Identities /\ i.pid \in live' /\ table'[i.pid] = i
    BY <1>1, <1>7 DEF Running, Live
  <2>2. i.pid \in Pids
    BY <2>1 DEF Identities
  <2>3. CASE i.pid = p
    BY <1>5, <2>1, <2>3
  <2>4. CASE i.pid # p
    <3>1. table[i.pid] = i /\ i.pid \in live
      BY <1>3, <1>4, <2>1, <2>2, <2>4
    <3>2. QED
      BY <2>1, <3>1 DEF Live
  <2>5. QED
    BY <2>3, <2>4
<1>8. Running' = {id}
  <2>1. Running' = {i \in started' : Live(i)'}
    BY DEF Running
  <2>2. QED
    BY <1>3, <1>6, <1>7, <2>1
<1>9. QED
  BY <1>1, <1>3, <1>8 DEF Running, Contract!Next, Contract!Start

(* Every step is a step of the contract, or none.                           *)
LEMMA NextRefines == IInv /\ [Next]_vars => [Contract!Next]_Contract!vars
<1> SUFFICES ASSUME IInv, [Next]_vars PROVE [Contract!Next]_Contract!vars
  OBVIOUS
<1> USE NamesAssumption DEF IInv, Types, OsType, FileType, ControlType, CallType, OwnType,
    PastType, TableInv, Calm, Live, Goto, SameWorld, SameCall, Return, Forget, Unlock, Fault,
    Ends, IsFree, osVars, fileVars, callVars, ownVars, pastVars, vars
<1>1. ASSUME NEW p \in Pids, Exits(p) PROVE [Contract!Next]_Contract!vars
  <2>1. Calm
    BY <1>1 DEF Exits
  <2>2. QED
    BY <2>1, CalmRefines
<1>2. ASSUME NEW p \in Pids, Reaped(p) PROVE [Contract!Next]_Contract!vars
  <2>1. Calm
    BY <1>2 DEF Reaped
  <2>2. QED
    BY <2>1, CalmRefines
<1>3. ASSUME NEW p \in Pids, OtherStarts(p) PROVE [Contract!Next]_Contract!vars
  <2>1. Calm
    BY <1>3, SpawnIs DEF OtherStarts, Exes
  <2>2. QED
    BY <2>1, CalmRefines
<1>4. ASSUME NEW a \in Apps, BeginLaunch(a) PROVE [Contract!Next]_Contract!vars
  <2>1. Calm
    BY <1>4 DEF BeginLaunch, Begin, NothingThere
  <2>2. QED
    BY <2>1, CalmRefines
<1>5. ASSUME NEW a \in Apps, BeginFind(a) PROVE [Contract!Next]_Contract!vars
  <2>1. Calm
    BY <1>5 DEF BeginFind, Begin, NothingThere
  <2>2. QED
    BY <2>1, CalmRefines
<1>6. ASSUME NEW a \in Apps, BeginKill(a) PROVE [Contract!Next]_Contract!vars
  <2>1. Calm
    BY <1>6 DEF BeginKill, Begin, NothingThere
  <2>2. QED
    BY <2>1, CalmRefines
<1>7. ASSUME NEW a \in Apps, BeginStop(a) PROVE [Contract!Next]_Contract!vars
  <2>1. Calm
    BY <1>7 DEF BeginStop, Begin, NothingThere
  <2>2. QED
    BY <2>1, CalmRefines
<1>8. ASSUME NEW a \in Apps, Acquire(a) PROVE [Contract!Next]_Contract!vars
  <2>1. Calm
    BY <1>8 DEF Acquire, Entry
  <2>2. QED
    BY <2>1, CalmRefines
<1>9. ASSUME NEW a \in Apps, LockTimesOut(a) PROVE [Contract!Next]_Contract!vars
  <2>1. Calm
    BY <1>9 DEF LockTimesOut
  <2>2. QED
    BY <2>1, CalmRefines
<1>10. ASSUME NEW a \in Apps, NoneOwned(a) PROVE [Contract!Next]_Contract!vars
  <2>1. Calm
    BY <1>10 DEF NoneOwned
  <2>2. QED
    BY <2>1, CalmRefines
<1>11. ASSUME NEW a \in Apps, FindStale(a) PROVE [Contract!Next]_Contract!vars
  <2>1. Calm
    BY <1>11, RowsAre DEF FindStale, PidListed
  <2>2. QED
    BY <2>1, CalmRefines
<1>12. ASSUME NEW a \in Apps, FindMismatch(a) PROVE [Contract!Next]_Contract!vars
  <2>1. Calm
    BY <1>12, RowsAre DEF FindMismatch, PidListed
  <2>2. QED
    BY <2>1, CalmRefines
<1>13. ASSUME NEW a \in Apps, FindOwned(a) PROVE [Contract!Next]_Contract!vars
  <2>1. Calm
    BY <1>13, RowsAre DEF FindOwned
  <2>2. QED
    BY <2>1, CalmRefines
<1>14. ASSUME NEW a \in Apps, Drop(a) PROVE [Contract!Next]_Contract!vars
  BY <1>14, DropRefines
<1>15. ASSUME NEW a \in Apps, Open(a) PROVE [Contract!Next]_Contract!vars
  <2>1. Calm
    BY <1>15 DEF Open
  <2>2. QED
    BY <2>1, CalmRefines
<1>16. ASSUME NEW a \in Apps, CheckExited(a) PROVE [Contract!Next]_Contract!vars
  <2>1. Calm
    BY <1>16 DEF CheckExited
  <2>2. QED
    BY <2>1, CalmRefines
<1>17. ASSUME NEW a \in Apps, CheckIdentity(a) PROVE [Contract!Next]_Contract!vars
  <2>1. Calm
    BY <1>17 DEF CheckIdentity
  <2>2. QED
    BY <2>1, CalmRefines
<1>18. ASSUME NEW a \in Apps, SignalGraceful(a) PROVE [Contract!Next]_Contract!vars
  <2>1. Calm
    BY <1>18 DEF SignalGraceful
  <2>2. QED
    BY <2>1, CalmRefines
<1>19. ASSUME NEW a \in Apps, Survives(a) PROVE [Contract!Next]_Contract!vars
  <2>1. Calm
    BY <1>19 DEF Survives
  <2>2. QED
    BY <2>1, CalmRefines
<1>20. ASSUME NEW a \in Apps, ForceByHandle(a) PROVE [Contract!Next]_Contract!vars
  <2>1. Calm
    BY <1>20 DEF ForceByHandle
  <2>2. QED
    BY <2>1, CalmRefines
<1>21. ASSUME NEW a \in Apps, StopUnauthorized(a) PROVE [Contract!Next]_Contract!vars
  <2>1. Calm
    BY <1>21 DEF StopUnauthorized
  <2>2. QED
    BY <2>1, CalmRefines
<1>22. ASSUME NEW a \in Apps, StopAuthorized(a) PROVE [Contract!Next]_Contract!vars
  <2>1. Calm
    BY <1>22 DEF StopAuthorized
  <2>2. QED
    BY <2>1, CalmRefines
<1>23. ASSUME NEW a \in Apps, Terminate(a) PROVE [Contract!Next]_Contract!vars
  <2>1. Calm
    BY <1>23 DEF Terminate
  <2>2. QED
    BY <2>1, CalmRefines
<1>24. ASSUME NEW a \in Apps, Adopt(a) PROVE [Contract!Next]_Contract!vars
  <2>1. Calm
    BY <1>24 DEF Adopt
  <2>2. QED
    BY <2>1, CalmRefines
<1>25. ASSUME NEW a \in Apps, Unreachable(a) PROVE [Contract!Next]_Contract!vars
  <2>1. Calm
    BY <1>25 DEF Unreachable
  <2>2. QED
    BY <2>1, CalmRefines
<1>26. ASSUME NEW a \in Apps, SweepFails(a) PROVE [Contract!Next]_Contract!vars
  <2>1. Calm
    BY <1>26 DEF SweepFails, Sweeping, SettingsBusy
  <2>2. QED
    BY <2>1, CalmRefines
<1>27. ASSUME NEW a \in Apps, Sweep(a) PROVE [Contract!Next]_Contract!vars
  <2>1. Calm
    BY <1>27, RowsAre DEF Sweep, Onward
  <2>2. QED
    BY <2>1, CalmRefines
<1>28. ASSUME NEW a \in Apps, SweepEach(a) PROVE [Contract!Next]_Contract!vars
  <2>1. Calm
    BY <1>28 DEF SweepEach
  <2>2. QED
    BY <2>1, CalmRefines
<1>29. ASSUME NEW a \in Apps, SweepOpen(a) PROVE [Contract!Next]_Contract!vars
  <2>1. Calm
    BY <1>29 DEF SweepOpen
  <2>2. QED
    BY <2>1, CalmRefines
<1>30. ASSUME NEW a \in Apps, SweepSignal(a) PROVE [Contract!Next]_Contract!vars
  <2>1. Calm
    BY <1>30 DEF SweepSignal
  <2>2. QED
    BY <2>1, CalmRefines
<1>31. ASSUME NEW a \in Apps, SweepForce(a) PROVE [Contract!Next]_Contract!vars
  <2>1. Calm
    BY <1>31 DEF SweepForce
  <2>2. QED
    BY <2>1, CalmRefines
<1>32. ASSUME NEW a \in Apps, SweepDone(a) PROVE [Contract!Next]_Contract!vars
  <2>1. Calm
    BY <1>32 DEF SweepDone, Onward
  <2>2. QED
    BY <2>1, CalmRefines
<1>33. ASSUME NEW a \in Apps, AdmitRefused(a) PROVE [Contract!Next]_Contract!vars
  <2>1. Calm
    BY <1>33 DEF AdmitRefused
  <2>2. QED
    BY <2>1, CalmRefines
<1>34. ASSUME NEW a \in Apps, Admit(a) PROVE [Contract!Next]_Contract!vars
  <2>1. Calm
    BY <1>34, RowsAre DEF Admit
  <2>2. QED
    BY <2>1, CalmRefines
<1>35. ASSUME NEW a \in Apps, Popen(a) PROVE [Contract!Next]_Contract!vars
  BY <1>35, StartRefines
<1>36. ASSUME NEW a \in Apps, PopenFails(a) PROVE [Contract!Next]_Contract!vars
  <2>1. Calm
    BY <1>36 DEF PopenFails
  <2>2. QED
    BY <2>1, CalmRefines
<1>37. ASSUME NEW a \in Apps, Validate(a) PROVE [Contract!Next]_Contract!vars
  <2>1. Calm
    BY <1>37 DEF Validate
  <2>2. QED
    BY <2>1, CalmRefines
<1>38. ASSUME NEW a \in Apps, WriteTemporary(a) PROVE [Contract!Next]_Contract!vars
  <2>1. Calm
    BY <1>38 DEF WriteTemporary
  <2>2. QED
    BY <2>1, CalmRefines
<1>39. ASSUME NEW a \in Apps, Publish(a) PROVE [Contract!Next]_Contract!vars
  BY <1>39, ClaimRefines DEF Publish
<1>40. ASSUME NEW a \in Apps, Establish(a) PROVE [Contract!Next]_Contract!vars
  <2>1. Calm
    BY <1>40 DEF Establish
  <2>2. QED
    BY <2>1, CalmRefines
<1>41. ASSUME NEW a \in Apps, Cleanup(a) PROVE [Contract!Next]_Contract!vars
  <2>1. Calm
    BY <1>41 DEF Cleanup, ForgetPopen
  <2>2. QED
    BY <2>1, CalmRefines
<1>42. ASSUME NEW a \in Apps, PublishFails(a) PROVE [Contract!Next]_Contract!vars
  <2>1. CASE lease' = lease
    <3>1. Calm
      BY <1>42, <2>1 DEF PublishFails
    <3>2. QED
      BY <3>1, CalmRefines
  <2>2. CASE lease' = popen[a]
    BY <1>42, <2>2, ClaimRefines DEF PublishFails
  <2>3. QED
    BY <1>42, <2>1, <2>2 DEF PublishFails
<1>43. ASSUME NEW a \in Apps, EstablishInterrupted(a) PROVE [Contract!Next]_Contract!vars
  <2>1. Calm
    BY <1>43 DEF EstablishInterrupted
  <2>2. QED
    BY <2>1, CalmRefines
<1>44. ASSUME NEW a \in Apps, CleanupFails(a) PROVE [Contract!Next]_Contract!vars
  <2>1. Calm
    BY <1>44 DEF CleanupFails, ForgetPopen
  <2>2. QED
    BY <2>1, CalmRefines
<1>45. ASSUME NEW a \in Apps, Fails(a) PROVE [Contract!Next]_Contract!vars
  <2>1. Calm
    BY <1>45 DEF Fails, Sweeping
  <2>2. QED
    BY <2>1, CalmRefines
<1>46. ASSUME NEW a \in Apps, Crash(a) PROVE [Contract!Next]_Contract!vars
  <2>1. Calm
    BY <1>46 DEF Crash
  <2>2. QED
    BY <2>1, CalmRefines
<1>47. CASE UNCHANGED vars
  <2>1. Calm
    BY <1>47
  <2>2. QED
    BY <2>1, CalmRefines
<1>48. QED
  BY <1>1, <1>2, <1>3, <1>4, <1>5, <1>6, <1>7, <1>8, <1>9, <1>10, <1>11, <1>12, <1>13, <1>14,
      <1>15, <1>16, <1>17, <1>18, <1>19, <1>20, <1>21, <1>22, <1>23, <1>24, <1>25, <1>26, <1>27,
      <1>28, <1>29, <1>30, <1>31, <1>32, <1>33, <1>34, <1>35, <1>36, <1>37, <1>38, <1>39, <1>40,
      <1>41, <1>42, <1>43, <1>44, <1>45, <1>46, <1>47 DEF Next, Begins, Step, Mishap


(* The lease keeps its promises.                                            *)
THEOREM LeaseImplementsContract == Spec => ImplementsContract
<1>1. Init => Contract!Init
  BY NamesAssumption DEF Init, Contract!Init
<1>2. IInv /\ [Next]_vars => [Contract!Next]_Contract!vars
  BY NextRefines
<1>3. QED
  BY <1>1, <1>2, Invariance, PTL DEF Spec, ImplementsContract, Contract!Spec

=============================================================================
