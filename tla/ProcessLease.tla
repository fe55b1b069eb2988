---------------------------- MODULE ProcessLease ----------------------------
(* The ownership of the managed OBS (obs_process.py, obs_runtime.py and the  *)
(* launch in recordtest.py).  The application starts OBS, records the pid    *)
(* and the creation time of the process in a lease file, and stops later     *)
(* only what the lease, or its own process handle, identifies: through a     *)
(* pid that Windows may have given to another program, with OBS ending at    *)
(* any moment, other instances of the application at work, and crashes       *)
(* between any two steps.                                                    *)
(*                                                                           *)
(* A process is known by its pid, its creation time and its image.  An       *)
(* exited process keeps its pid as long as somebody holds a handle to it.    *)
(* The strict query lists the running processes named obs64.exe; an exited   *)
(* row and a row that cannot be bound to a handle are not distinguished from *)
(* an absent one and from a failed query.  A step is one observation or one  *)
(* change, as far apart as the code has them.                                *)
EXTENDS Naturals, FiniteSets

CONSTANTS
    Apps,       \* processes of the application: window, command line, set-up
    Pids,
    Nobody,     \* the lock is free
    NoLease,    \* there is no lease; also: no process
    MaxBirths,  \* bound: processes created
    MaxFaults,  \* bound: failures of the operating system
    MaxCrashes, \* bound: crashes of the application
    ByHand      \* somebody may start the managed OBS by hand

Exes == {"managed", "regular", "other"}  \* "other" is not named obs64.exe
Identities == [pid : Pids, born : 1..MaxBirths, exe : Exes]
(* A lease of schema 1 has no creation time and identifies nobody.           *)
Legacy == [pid : Pids, born : {0}, exe : {"managed"}]

ASSUME NamesAssumption ==
    /\ Nobody \notin Apps /\ NoLease \notin Identities \union Legacy
    /\ MaxBirths \in Nat /\ MaxFaults \in Nat /\ MaxCrashes \in Nat /\ ByHand \in BOOLEAN

VARIABLES
    \* Windows
    table,      \* which process has a pid, NoLease when it is free
    live,       \* the pids whose process has not exited
    births,     \* the creation time of the last process
    \* the files beside OBS
    lease, temp, lockFile,
    lock,       \* which process holds the interprocess lock
    \* one call in each process of the application
    pc, op,
    target,     \* the identity the call works on
    expected,   \* sweep: what the first query showed; todo: still to be signalled
    todo,
    handles,    \* process handles opened by the call
    force,      \* allow_force
    forced,     \* force_sent
    popen,      \* the OBS this process started and has not stopped
    bound,      \* the lease attached to it
    \* what happened
    started,    \* the processes started by the application
    faults, crashes

osVars == <<table, live, births>>
fileVars == <<lease, temp, lockFile>>
callVars == <<target, expected, todo, handles, force, forced>>
ownVars == <<popen, bound>>
pastVars == <<started, faults, crashes>>
vars == <<osVars, fileVars, lock, pc, op, callVars, ownVars, pastVars>>

Live(id) == id \in Identities /\ id.pid \in live /\ table[id.pid] = id
Rows == {table[p] : p \in {q \in live : table[q].exe # "other"}}
Held(p) == \E a \in Apps : table[p] \in handles[a] \union {popen[a]}
IsFree(p) == table[p] = NoLease

Ops == {"none", "launch", "start", "find", "kill", "stop"}
PCs == {"idle", "lock", "find", "drop", "open", "check", "signal", "wait", "stop", "terminate",
        "connect", "sweep", "sweepEach", "sweepOpen", "sweepSignal", "sweepWait",
        "admit", "popen", "validate", "write", "publish", "published", "cleanup"}
(* The steps taken inside a lease transaction.                               *)
Locked == {"find", "drop", "open", "check", "signal", "wait", "stop", "terminate",
           "admit", "popen", "validate", "write", "publish", "published"}

Init ==
    /\ table = [p \in Pids |-> NoLease] /\ live = {} /\ births = 0
    /\ lease \in Legacy \union {NoLease} /\ temp = FALSE /\ lockFile = (lease # NoLease)
    /\ lock = Nobody
    /\ pc = [a \in Apps |-> "idle"] /\ op = [a \in Apps |-> "none"]
    /\ target = [a \in Apps |-> NoLease] /\ expected = [a \in Apps |-> {}]
    /\ todo = [a \in Apps |-> {}] /\ handles = [a \in Apps |-> {}]
    /\ force = [a \in Apps |-> TRUE] /\ forced = [a \in Apps |-> FALSE]
    /\ popen = [a \in Apps |-> NoLease] /\ bound = [a \in Apps |-> NoLease]
    /\ started = {} /\ faults = 0 /\ crashes = 0

-----------------------------------------------------------------------------
(* Shorthands.                                                               *)
Goto(a, from, to) == pc[a] = from /\ pc' = [pc EXCEPT ![a] = to]
SameWorld == UNCHANGED <<osVars, fileVars, lock, ownVars, pastVars>>
SameCall == UNCHANGED callVars
Unlock(a) == lock' = IF lock = a THEN Nobody ELSE lock

(* The end of a call: the transaction is left, its handles are closed.       *)
Forget(a) ==
    /\ op' = [op EXCEPT ![a] = "none"] /\ target' = [target EXCEPT ![a] = NoLease]
    /\ expected' = [expected EXCEPT ![a] = {}] /\ todo' = [todo EXCEPT ![a] = {}]
    /\ handles' = [handles EXCEPT ![a] = {}] /\ force' = [force EXCEPT ![a] = TRUE]
    /\ forced' = [forced EXCEPT ![a] = FALSE]
Return(a) == pc' = [pc EXCEPT ![a] = "idle"] /\ Forget(a) /\ Unlock(a)

Fault == faults < MaxFaults /\ faults' = faults + 1 /\ UNCHANGED <<started, crashes>>
Ends(ids) == live' = live \ {id.pid : id \in ids} /\ UNCHANGED <<table, births>>

-----------------------------------------------------------------------------
(* Windows: processes exit, and a pid without process and handle is given    *)
(* to the next one, be it the user's OBS or any other program.               *)
Exits(p) ==
    /\ p \in live /\ live' = live \ {p}
    /\ UNCHANGED <<table, births, fileVars, lock, pc, op, callVars, ownVars, pastVars>>

Reaped(p) ==
    /\ ~IsFree(p) /\ p \notin live /\ ~Held(p)
    /\ table' = [table EXCEPT ![p] = NoLease]
    /\ UNCHANGED <<live, births, fileVars, lock, pc, op, callVars, ownVars, pastVars>>

Spawn(p, exe) ==
    /\ IsFree(p) /\ births < MaxBirths /\ births' = births + 1
    /\ table' = [table EXCEPT ![p] = [pid |-> p, born |-> births + 1, exe |-> exe]]
    /\ live' = live \union {p}

OtherStarts(p) ==
    /\ \E exe \in Exes : (exe = "managed" => ByHand) /\ Spawn(p, exe)
    /\ UNCHANGED <<fileVars, lock, pc, op, callVars, ownVars, pastVars>>

(* The application is killed: its handles and its lock go, its OBS stays.    *)
Crash(a) ==
    /\ crashes < MaxCrashes /\ crashes' = crashes + 1
    /\ pc[a] # "idle" \/ popen[a] # NoLease
    /\ Return(a)
    /\ popen' = [popen EXCEPT ![a] = NoLease] /\ bound' = [bound EXCEPT ![a] = NoLease]
    /\ temp' \in IF pc[a] = "write" THEN {temp, TRUE} ELSE {temp}
    /\ UNCHANGED <<osVars, lease, lockFile, started, faults>>

-----------------------------------------------------------------------------
(* The start of a call.  A call that does not start OBS leaves a directory   *)
(* without lease, temporary and lock file alone and finds nothing.           *)
NothingThere == lease = NoLease /\ ~temp /\ ~lockFile

Begin(a, o, f, to) ==
    /\ Goto(a, "idle", to) /\ op' = [op EXCEPT ![a] = o] /\ force' = [force EXCEPT ![a] = f]
    /\ SameWorld /\ UNCHANGED <<target, expected, todo, handles, forced>>

(* open_recorder: an OBS of ours that answers is adopted, else one is        *)
(* launched.  The polls before the last one leave nothing behind.            *)
BeginLaunch(a) == popen[a] = NoLease /\ Begin(a, "launch", TRUE, IF NothingThere THEN "sweep" ELSE "lock")
BeginFind(a) == ~NothingThere /\ Begin(a, "find", TRUE, "lock")
BeginKill(a) == ~NothingThere /\ \E f \in BOOLEAN : Begin(a, "kill", f, "lock")
BeginStop(a) == popen[a] # NoLease /\ ~NothingThere /\ \E f \in BOOLEAN : Begin(a, "stop", f, "lock")

(* The transaction: the lock, then the temporaries a crash left behind.      *)
Entry == [none |-> "idle", launch |-> "find", find |-> "find", kill |-> "find", stop |-> "stop",
          start |-> "admit"]

(* Mutant: the temporaries of a dead writer stay.                            *)
AcquireUnrecovered(a) ==
    /\ lock = Nobody /\ lock' = a /\ Goto(a, "lock", Entry[op[a]])
    /\ lockFile' = TRUE
    /\ UNCHANGED <<osVars, lease, temp, op, callVars, ownVars, pastVars>>

Acquire(a) ==
    /\ lock = Nobody /\ lock' = a /\ Goto(a, "lock", Entry[op[a]])
    /\ temp' = FALSE /\ lockFile' = TRUE
    /\ UNCHANGED <<osVars, lease, op, callVars, ownVars, pastVars>>

LockTimesOut(a) ==
    /\ pc[a] = "lock" /\ lock # Nobody /\ Return(a)
    /\ UNCHANGED <<osVars, fileVars, ownVars, pastVars>>

-----------------------------------------------------------------------------
(* _find_owned_process_locked and _query_owned_process_for_lease.  A row     *)
(* with the pid of the lease is the very process of the lease, or an error:  *)
(* never a reason to take the lease for stale.                               *)
PidListed == \E r \in Rows : r.pid = lease.pid

NoneOwned(a) ==
    /\ pc[a] = "find" /\ lease = NoLease
    /\ IF op[a] = "launch"
         THEN Goto(a, "find", "sweep") /\ Unlock(a) /\ SameCall /\ UNCHANGED op
         ELSE Return(a)
    /\ UNCHANGED <<osVars, fileVars, ownVars, pastVars>>

FindStale(a) ==
    /\ lease # NoLease /\ ~PidListed /\ Goto(a, "find", "drop")
    /\ SameWorld /\ SameCall /\ UNCHANGED op

FindMismatch(a) ==
    /\ pc[a] = "find" /\ lease # NoLease /\ PidListed /\ lease \notin Rows /\ Return(a)
    /\ UNCHANGED <<osVars, fileVars, ownVars, pastVars>>

FindOwned(a) ==
    /\ pc[a] = "find" /\ lease # NoLease /\ lease \in Rows
    /\ \/ /\ op[a] = "kill" /\ Goto(a, "find", "open") /\ target' = [target EXCEPT ![a] = lease]
          /\ UNCHANGED <<lock, op, expected, todo, handles, force, forced>>
       \/ op[a] = "launch" /\ Goto(a, "find", "connect") /\ Unlock(a) /\ SameCall /\ UNCHANGED op
       \/ op[a] = "find" /\ Return(a)
    /\ UNCHANGED <<osVars, fileVars, ownVars, pastVars>>

(* _delete_process_lease_snapshot_locked, and what the caller does next.     *)
Drop(a) ==
    /\ pc[a] = "drop" /\ lease' = NoLease
    /\ IF op[a] = "launch"
         THEN Goto(a, "drop", "sweep") /\ Unlock(a) /\ SameCall /\ UNCHANGED op
         ELSE Return(a)
    /\ IF op[a] = "stop"
         THEN popen' = [popen EXCEPT ![a] = NoLease] /\ bound' = [bound EXCEPT ![a] = NoLease]
         ELSE UNCHANGED ownVars
    /\ UNCHANGED <<osVars, temp, lockFile, pastVars>>

-----------------------------------------------------------------------------
(* _terminate_owned_process_with_windows_handle, for kill_stale_owned_       *)
(* processes: the handle is opened on whatever has the pid by then.          *)
Open(a) ==
    /\ pc[a] = "open"
    /\ IF IsFree(target[a].pid)
         THEN Goto(a, "open", "drop") /\ UNCHANGED handles
         ELSE /\ Goto(a, "open", "check")
              /\ handles' = [handles EXCEPT ![a] = {table[target[a].pid]}]
    /\ SameWorld /\ UNCHANGED <<op, target, expected, todo, force, forced>>

CheckExited(a) ==
    /\ pc[a] \in {"check", "signal", "wait"} /\ target[a].pid \notin live
    /\ Goto(a, pc[a], "drop")
    /\ SameWorld /\ SameCall /\ UNCHANGED op

(* Mutant: any process that has the pid is taken for ours.                   *)
CheckPidOnly(a) ==
    /\ Goto(a, "check", "signal") /\ target[a].pid \in live /\ SameCall /\ UNCHANGED <<op, lock>>
    /\ UNCHANGED <<osVars, fileVars, ownVars, pastVars>>

CheckIdentity(a) ==
    /\ pc[a] = "check" /\ target[a].pid \in live
    /\ IF handles[a] = {target[a]}
         THEN Goto(a, "check", "signal") /\ SameCall /\ UNCHANGED <<op, lock>>
         ELSE Return(a)
    /\ UNCHANGED <<osVars, fileVars, ownVars, pastVars>>

(* taskkill asks the process that has the pid now to close; it may do so     *)
(* later, or not at all.                                                     *)
SignalGraceful(a) ==
    /\ Goto(a, "signal", "wait") /\ target[a].pid \in live
    /\ SameWorld /\ SameCall /\ UNCHANGED op

(* Mutant: an OBS that survives loses its lease.                             *)
SurvivesWithoutLease(a) ==
    /\ Goto(a, "wait", "drop") /\ target[a].pid \in live /\ (force[a] => forced[a])
    /\ SameWorld /\ SameCall /\ UNCHANGED op

Survives(a) ==
    /\ pc[a] = "wait" /\ target[a].pid \in live /\ (force[a] => forced[a]) /\ Return(a)
    /\ UNCHANGED <<osVars, fileVars, ownVars, pastVars>>

ForceByHandle(a) ==
    /\ pc[a] = "wait" /\ force[a] /\ ~forced[a]
    /\ target[a].pid \in live /\ Ends(handles[a])
    /\ forced' = [forced EXCEPT ![a] = TRUE]
    /\ UNCHANGED <<fileVars, lock, pc, op, target, expected, todo, handles, force, ownVars, pastVars>>

-----------------------------------------------------------------------------
(* _terminate_popen_process: only the handle of the Popen is used, and only  *)
(* while the lease on disk is the one attached to it.  The terminate of a    *)
(* Popen is TerminateProcess on Windows, with or without allow_force.        *)
StopUnauthorized(a) ==
    /\ pc[a] = "stop" /\ (bound[a] = NoLease \/ lease # bound[a]) /\ Return(a)
    /\ UNCHANGED <<osVars, fileVars, ownVars, pastVars>>

(* Mutant: without force the lease is dropped and OBS left alone.            *)
StopUnlessForced(a) ==
    /\ bound[a] # NoLease /\ lease = bound[a]
    /\ Goto(a, "stop", IF Live(popen[a]) /\ force[a] THEN "terminate" ELSE "drop")
    /\ SameWorld /\ SameCall /\ UNCHANGED op

StopAuthorized(a) ==
    /\ bound[a] # NoLease /\ lease = bound[a]
    /\ Goto(a, "stop", IF Live(popen[a]) THEN "terminate" ELSE "drop")
    /\ SameWorld /\ SameCall /\ UNCHANGED op

Terminate(a) ==
    /\ Goto(a, "terminate", "drop") /\ Ends({popen[a]})
    /\ UNCHANGED <<fileVars, lock, op, callVars, ownVars, pastVars>>

-----------------------------------------------------------------------------
(* wait_for_owned_obs_connection: an OBS that is ours and answers is taken   *)
(* over without a Popen; one that does not answer in time is replaced.       *)
Adopt(a) == pc[a] = "connect" /\ Return(a) /\ UNCHANGED <<osVars, fileVars, ownVars, pastVars>>
Unreachable(a) == Goto(a, "connect", "sweep") /\ SameWorld /\ SameCall /\ UNCHANGED op

(* terminate_expected_obs_processes_strict, called under the settings lock   *)
(* by the launch: every OBS must be the managed one, exactly the ones the    *)
(* first query showed are signalled, and none may be left.  The lease file   *)
(* is not part of it.                                                        *)
Sweeping == {"sweepEach", "sweepOpen", "sweepSignal", "sweepWait"}
SettingsBusy(a) == \E b \in Apps \ {a} : pc[b] \in Sweeping
Onward(a) == /\ pc' = [pc EXCEPT ![a] = "lock"] /\ op' = [op EXCEPT ![a] = "start"]
             /\ handles' = [handles EXCEPT ![a] = {}] /\ target' = [target EXCEPT ![a] = NoLease]
             /\ expected' = [expected EXCEPT ![a] = {}] /\ forced' = [forced EXCEPT ![a] = FALSE]
             /\ UNCHANGED <<todo, force, lock>>
SweepFails(a) ==
    /\ \/ pc[a] = "sweep" /\ (SettingsBusy(a) \/ \E r \in Rows : r.exe # "managed")
       \/ pc[a] = "sweepEach" /\ todo[a] # {} /\ ~(todo[a] \subseteq Rows /\ Rows \subseteq expected[a])
       \/ pc[a] = "sweepOpen" /\ IsFree(target[a].pid)
       \/ pc[a] = "sweepSignal" /\ (target[a] \notin handles[a] \/ target[a].pid \notin live)
       \/ pc[a] = "sweepWait" /\ ~(Rows \subseteq expected[a])
    /\ Return(a) /\ UNCHANGED <<osVars, fileVars, ownVars, pastVars>>

Sweep(a) ==
    /\ pc[a] = "sweep" /\ ~SettingsBusy(a) /\ \A r \in Rows : r.exe = "managed"
    /\ IF Rows = {}
         THEN Onward(a)
         ELSE /\ Goto(a, "sweep", "sweepEach")
              /\ expected' = [expected EXCEPT ![a] = Rows] /\ todo' = [todo EXCEPT ![a] = Rows]
              /\ UNCHANGED <<op, target, handles, force, forced, lock>>
    /\ UNCHANGED <<osVars, fileVars, ownVars, pastVars>>

SweepEach(a) ==
    /\ IF todo[a] = {}
         THEN Goto(a, "sweepEach", "sweepWait") /\ UNCHANGED target
         ELSE /\ todo[a] \subseteq Rows /\ Rows \subseteq expected[a]
              /\ Goto(a, "sweepEach", "sweepOpen")
              /\ \E id \in todo[a] : target' = [target EXCEPT ![a] = id]
    /\ SameWorld /\ UNCHANGED <<op, expected, todo, handles, force, forced>>

SweepOpen(a) ==
    /\ Goto(a, "sweepOpen", "sweepSignal") /\ ~IsFree(target[a].pid)
    /\ handles' = [handles EXCEPT ![a] = @ \union {table[target[a].pid]}]
    /\ SameWorld /\ UNCHANGED <<op, target, expected, todo, force, forced>>

SweepSignal(a) ==
    /\ Goto(a, "sweepSignal", "sweepEach") /\ target[a] \in handles[a] /\ target[a].pid \in live
    /\ todo' = [todo EXCEPT ![a] = @ \ {target[a]}]
    /\ SameWorld /\ UNCHANGED <<op, target, expected, handles, force, forced>>

SweepForce(a) ==
    /\ pc[a] = "sweepWait" /\ Rows # {} /\ Rows \subseteq expected[a] /\ ~forced[a]
    /\ Ends(handles[a]) /\ forced' = [forced EXCEPT ![a] = TRUE]
    /\ UNCHANGED <<fileVars, lock, pc, op, target, expected, todo, handles, force, ownVars, pastVars>>

SweepDone(a) ==
    /\ pc[a] = "sweepWait" /\ Rows = {} /\ Onward(a)
    /\ UNCHANGED <<osVars, fileVars, ownVars, pastVars>>

-----------------------------------------------------------------------------
(* start_obs, in one transaction from the admission to the published lease.  *)
AdmitRefused(a) ==
    /\ pc[a] = "admit" /\ (lease # NoLease \/ \E r \in Rows : r.exe = "managed") /\ Return(a)
    /\ UNCHANGED <<osVars, fileVars, ownVars, pastVars>>

Admit(a) ==
    /\ lease = NoLease /\ (\A r \in Rows : r.exe # "managed") /\ Goto(a, "admit", "popen")
    /\ SameWorld /\ SameCall /\ UNCHANGED op

Popen(a) ==
    /\ Goto(a, "popen", "validate")
    /\ \E p \in Pids : /\ Spawn(p, "managed") /\ popen' = [popen EXCEPT ![a] = table'[p]]
                       /\ started' = started \union {table'[p]}
    /\ UNCHANGED <<fileVars, lock, op, callVars, bound, faults, crashes>>

PopenFails(a) ==
    /\ pc[a] = "popen" /\ (births = MaxBirths \/ \A p \in Pids : ~IsFree(p)) /\ Return(a)
    /\ UNCHANGED <<osVars, fileVars, ownVars, pastVars>>

Validate(a) ==
    /\ Goto(a, "validate", IF Live(popen[a]) /\ lease = NoLease THEN "write" ELSE "cleanup")
    /\ SameWorld /\ SameCall /\ UNCHANGED op

(* The identity is read again, then goes to an exclusive temporary.          *)
WriteTemporary(a) ==
    /\ Goto(a, "write", IF Live(popen[a]) THEN "publish" ELSE "cleanup") /\ temp' = Live(popen[a])
    /\ UNCHANGED <<osVars, lease, lockFile, lock, op, callVars, ownVars, pastVars>>

(* The temporary becomes the lease, never in the place of another one.       *)
Publish(a) ==
    /\ lease = NoLease /\ lease' = popen[a] /\ temp' = FALSE /\ Goto(a, "publish", "published")
    /\ bound' = [bound EXCEPT ![a] = popen[a]]
    /\ UNCHANGED <<osVars, lockFile, lock, op, callVars, popen, pastVars>>

(* A failure before the commit removes the temporary if it can; after it the *)
(* lease is left as it is, and the Popen gets none.                          *)
PublishFails(a) ==
    /\ Fault /\ Goto(a, "publish", "cleanup")
    /\ \/ temp' \in BOOLEAN /\ UNCHANGED lease
       \/ temp' = FALSE /\ lease' = popen[a]
    /\ UNCHANGED <<osVars, lockFile, lock, op, callVars, ownVars>>

Establish(a) ==
    /\ pc[a] = "published" /\ Return(a)
    /\ UNCHANGED <<osVars, fileVars, ownVars, pastVars>>

(* The release of the transaction is interrupted.                            *)
EstablishInterrupted(a) ==
    /\ Fault /\ Goto(a, "published", "cleanup") /\ Unlock(a)
    /\ UNCHANGED <<osVars, fileVars, op, callVars, ownVars>>

(* _terminate_unleased_popen_process, by the handle, whatever the lease is.  *)
ForgetPopen(a) == popen' = [popen EXCEPT ![a] = NoLease] /\ bound' = [bound EXCEPT ![a] = NoLease]

Cleanup(a) ==
    /\ pc[a] = "cleanup" /\ Return(a) /\ Ends({popen[a]}) /\ ForgetPopen(a)
    /\ UNCHANGED <<fileVars, pastVars>>

CleanupFails(a) ==
    /\ pc[a] = "cleanup" /\ Return(a) /\ Fault /\ ForgetPopen(a)
    /\ UNCHANGED <<osVars, fileVars>>

-----------------------------------------------------------------------------
(* A query, a handle or a file operation fails: the call ends, or the new    *)
(* OBS is cleaned up; what is on disk stays.                                 *)
Fails(a) ==
    /\ Fault /\ UNCHANGED <<osVars, fileVars, ownVars>>
    /\ \/ /\ pc[a] \in (Locked \union Sweeping \union {"sweep"})
                       \ {"validate", "write", "publish", "published"}
          /\ Return(a)
       \/ /\ pc[a] \in {"validate", "write"} /\ Goto(a, pc[a], "cleanup")
          /\ SameCall /\ UNCHANGED <<lock, op>>

Begins(a) == BeginLaunch(a) \/ BeginFind(a) \/ BeginKill(a) \/ BeginStop(a)
Step(a) ==
    \/ Acquire(a) \/ LockTimesOut(a)
    \/ NoneOwned(a) \/ FindStale(a) \/ FindMismatch(a) \/ FindOwned(a) \/ Drop(a)
    \/ Open(a) \/ CheckExited(a) \/ CheckIdentity(a) \/ SignalGraceful(a) \/ Survives(a)
    \/ ForceByHandle(a)
    \/ StopUnauthorized(a) \/ StopAuthorized(a) \/ Terminate(a)
    \/ Adopt(a) \/ Unreachable(a)
    \/ SweepFails(a) \/ Sweep(a) \/ SweepEach(a) \/ SweepOpen(a) \/ SweepSignal(a)
    \/ SweepForce(a) \/ SweepDone(a)
    \/ AdmitRefused(a) \/ Admit(a) \/ Popen(a) \/ PopenFails(a) \/ Validate(a)
    \/ WriteTemporary(a) \/ Publish(a) \/ Establish(a) \/ Cleanup(a)
Mishap(a) == PublishFails(a) \/ EstablishInterrupted(a) \/ CleanupFails(a) \/ Fails(a) \/ Crash(a)

Next ==
    \/ \E p \in Pids : Exits(p) \/ Reaped(p) \/ OtherStarts(p)
    \/ \E a \in Apps : Begins(a) \/ Step(a) \/ Mishap(a)

Spec == Init /\ [][Next]_vars

-----------------------------------------------------------------------------
(* Every variable has its type.                                              *)
TypeOK ==
    /\ table \in [Pids -> Identities \union {NoLease}] /\ live \subseteq Pids
    /\ births \in 0..MaxBirths
    /\ lease \in Identities \union Legacy \union {NoLease}
    /\ temp \in BOOLEAN /\ lockFile \in BOOLEAN /\ lock \in Apps \union {Nobody}
    /\ pc \in [Apps -> PCs] /\ op \in [Apps -> Ops]
    /\ target \in [Apps -> Identities \union {NoLease}]
    /\ expected \in [Apps -> SUBSET Identities] /\ todo \in [Apps -> SUBSET Identities]
    /\ handles \in [Apps -> SUBSET Identities]
    /\ force \in [Apps -> BOOLEAN] /\ forced \in [Apps -> BOOLEAN]
    /\ popen \in [Apps -> Identities \union {NoLease}]
    /\ bound \in [Apps -> Identities \union {NoLease}]
    /\ started \subseteq Identities
    /\ faults \in 0..MaxFaults /\ crashes \in 0..MaxCrashes

(* The cleanup of an owned OBS reaches no process that the application did   *)
(* not start, however often the pid has been given away since the lease was  *)
(* written (kill_stale_owned_processes, terminate_process).                  *)
EndsOnlyOurs(a) ==
    /\ pc[a] = "signal" /\ pc'[a] = "wait" => table[target[a].pid] \in started
    /\ pc[a] \in {"wait", "terminate", "cleanup"} /\ (pc'[a] # pc[a] \/ forced'[a] # forced[a])
         => \A p \in live \ live' : table[p] \in started
SignalsOnlyOurs == [][\A a \in Apps : EndsOnlyOurs(a)]_vars

(* The stop before a change of the settings signals the managed OBS only:    *)
(* the user's own OBS is never closed for it.                                *)
EndsOnlyManaged(a) ==
    /\ pc[a] = "sweepSignal" /\ pc'[a] = "sweepEach" => table[target[a].pid].exe = "managed"
    /\ pc[a] = "sweepWait" /\ forced'[a] # forced[a]
         => \A p \in live \ live' : table[p].exe = "managed"
SweepsOnlyManaged == [][\A a \in Apps : EndsOnlyManaged(a)]_vars

(* Whoever is inside a transaction sees no temporary of a dead writer, and   *)
(* nobody takes the temporary away that is about to become the lease.        *)
TemporaryIsTheHolders ==
    \A a \in Apps : /\ pc[a] = "publish" => temp
                    /\ pc[a] \in Locked \ {"publish"} => ~temp

(* Without a crash or a failure an OBS that was started is never left alone: *)
(* the lease names it, or the transaction that starts it still runs.         *)
EveryObsIsOwned ==
    \A id \in started :
        Live(id) => \/ lease = id
                    \/ \E a \in Apps : popen[a] = id /\ pc[a] \notin {"idle", "lock"}
                    \/ faults + crashes > 0

(* The lease keeps its promises.                                             *)
Contract == INSTANCE LeaseContract WITH
    Identities <- Identities \union Legacy, running <- {id \in started : Live(id)}
ImplementsContract == Contract!Spec

(* A stop that may not use force, as the update shutdown asks for, does not  *)
(* end the process of OBS by force.                                          *)
UpdateNeverForces ==
    [][\A a \in Apps : pc[a] \in {"terminate", "wait"} /\ pc'[a] # pc[a] /\ live' # live => force[a]]_vars

=============================================================================
