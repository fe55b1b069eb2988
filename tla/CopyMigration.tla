---------------------------- MODULE CopyMigration ----------------------------
(* The copy of an old OBS installation to the managed one (obs_bootstrap.py, *)
(* migrate_legacy_obs_installation, and launch_obs in recordtest.py, which   *)
(* calls it and then starts OBS from the destination).                       *)
(*                                                                           *)
(* A journal in the destination names the source and the fingerprint of its  *)
(* inventory from before the first file is copied until the managed files    *)
(* are settled.  A crash leaves the journal, perhaps a temporary of it, and  *)
(* perhaps temporaries of files; the next call resumes from them or refuses. *)
(* The fingerprint is modelled by the inventory itself, and an inventory is  *)
(* one read.  The creation of a temporary, its bytes and the rename over the *)
(* target are one action whose half-way states are those a crash or a        *)
(* failure leaves.  The owner token only names temporaries and markers of    *)
(* one migration; a marker other than the one probed is the value Changed.   *)
EXTENDS Naturals, FiniteSets

CONSTANTS
    Procs,      \* processes that may migrate or launch: window, command line
    Nobody,     \* the lock is free
    NSources,   \* old installations, in the order they are tried
    Files, Exe, \* the files of an installation; OBS itself
    Managed,    \* the files the finalizer may write
    Contents, Absent,
    Desired,    \* what the finalizer puts into the managed files
    NoJournal, Torn, Changed,
    InitSources, InitDestinations,
    MaxEdits,   \* bound: changes made from outside
    MaxMishaps  \* bound: crashes and failing file operations

Sources == 1..NSources
NoSource == 0
Trees == [Files -> Contents \union {Absent}]
Phases == {"copying", "finalize_pending"}
Journals == [source : Sources, entries : Trees, phase : Phases]
Present(t) == {f \in Files : t[f] # Absent}
Valid(t) == t[Exe] # Absent
Settled(t) == [f \in Files |-> IF f \in Managed THEN Desired ELSE t[f]]

ASSUME ConstantsAssumption ==
    /\ NSources \in Nat /\ Exe \in Files /\ Managed \subseteq Files \ {Exe}
    /\ Absent \notin Contents /\ Desired \in Contents /\ Nobody \notin Procs
    /\ NoJournal \notin Journals /\ Torn \notin Journals \union {NoJournal}
    /\ Changed \notin Journals \union {NoJournal} /\ NoJournal \notin Trees
    /\ InitSources \subseteq Trees /\ InitDestinations \subseteq Trees
    /\ MaxEdits \in Nat /\ MaxMishaps \in Nat

VARIABLES
    src,      \* the old installations
    dst,      \* the files of the destination
    marker,   \* the journal on disk
    temp,     \* a temporary of the journal
    temps,    \* the files of which a temporary is left
    lock,     \* the lock of the destination
    pc,
    probed,   \* per process: the marker read before the lock
    source,   \* per process: the source chosen
    entries,  \* the inventory of the process that holds the lock
    todo,     \* the files it has still to write
    touched,  \* somebody changed the destination while the journal was there
    edits, mishaps

fileVars == <<marker, temp, temps>>
callVars == <<probed, source, entries, todo>>
boundVars == <<edits, mishaps>>
vars == <<src, dst, fileVars, lock, pc, callVars, touched, boundVars>>

PCs == {"idle", "lock", "enter", "begin", "recover", "journal", "subset", "copy", "pend",
        "check", "finalize", "unmark", "guard", "start", "running"}
(* The steps of a migration after its inventory was taken.                   *)
Inventoried == {"recover", "journal", "subset", "copy", "pend", "check", "finalize", "unmark"}

Init ==
    /\ src \in [Sources -> InitSources] /\ dst \in InitDestinations
    /\ marker = NoJournal /\ temp = NoJournal /\ temps = {}
    /\ lock = Nobody /\ pc = [p \in Procs |-> "idle"]
    /\ probed = [p \in Procs |-> NoJournal] /\ source = [p \in Procs |-> NoSource]
    /\ entries = NoJournal /\ todo = {} /\ touched = FALSE
    /\ edits = 0 /\ mishaps = 0

-----------------------------------------------------------------------------
(* Shorthands.                                                               *)
Goto(p, from, to) == pc[p] = from /\ pc' = [pc EXCEPT ![p] = to]
SameWorld == UNCHANGED <<src, dst, touched, boundVars>>
SameCall == UNCHANGED <<callVars, lock>>

(* The end of a call, with or without success.                               *)
Return(p) ==
    /\ pc' = [pc EXCEPT ![p] = "idle"]
    /\ source' = [source EXCEPT ![p] = NoSource]
    /\ IF lock = p
         THEN lock' = Nobody /\ entries' = NoJournal /\ todo' = {}
         ELSE UNCHANGED <<lock, entries, todo>>
(* The marker a process read before the lock is outdated by any change.      *)
Forget(p) == probed' = [probed EXCEPT ![p] = NoJournal]
Refuse(p) == Return(p) /\ Forget(p) /\ SameWorld /\ UNCHANGED fileVars
SetMarker(p, j) ==
    /\ marker' = j
    /\ probed' = [q \in Procs |-> IF q # p /\ probed[q] # NoJournal THEN Changed ELSE probed[q]]

Phase(p) == IF probed[p] = NoJournal THEN "copying" ELSE probed[p].phase
Journal(p, phase) == [source |-> source[p], entries |-> entries, phase |-> phase]

-----------------------------------------------------------------------------
(* Before the lock: a marker fixes the source, else the first valid one is   *)
(* taken.  Without source and without destination there is nothing to do.    *)
Candidates == {s \in Sources : Valid(src[s])}
FirstCandidate == CHOOSE s \in Candidates : \A t \in Candidates : s <= t

Probe(p) ==
    /\ Goto(p, "idle", "lock")
    /\ IF marker = NoJournal
         THEN IF Candidates = {}
                THEN UNCHANGED source
                ELSE source' = [source EXCEPT ![p] = FirstCandidate]
         ELSE marker.source \in Candidates /\ source' = [source EXCEPT ![p] = marker.source]
    /\ probed' = [probed EXCEPT ![p] = marker]
    /\ SameWorld /\ UNCHANGED <<fileVars, lock, entries, todo>>

Lock(p) ==
    /\ lock = Nobody /\ lock' = p /\ Goto(p, "lock", "enter")
    /\ SameWorld /\ UNCHANGED <<fileVars, callVars>>

LockBusy(p) == pc[p] = "lock" /\ lock # Nobody /\ Refuse(p)

-----------------------------------------------------------------------------
(* Temporaries without a marker: only a whole journal of the first phase     *)
(* whose source is still the same is known to have preceded every copy.      *)
Leftovers == temps # {} \/ temp # NoJournal
Prejournal ==
    /\ temps = {} /\ temp \in Journals /\ temp.phase = "copying"
    /\ Valid(src[temp.source]) /\ temp.entries = src[temp.source]

RecoverPrejournal(p) ==
    /\ pc[p] = "enter" /\ marker = NoJournal /\ Leftovers /\ Prejournal
    /\ temp' = NoJournal
    /\ SameWorld /\ SameCall /\ UNCHANGED <<marker, temps, pc>>

RefuseLeftovers(p) ==
    /\ pc[p] = "enter" /\ marker = NoJournal /\ Leftovers /\ ~Prejournal /\ Refuse(p)

(* The marker must be the one probed.                                        *)
MarkerChanged(p) == pc[p] = "enter" /\ marker # probed[p] /\ ~(marker = NoJournal /\ Leftovers) /\ Refuse(p)

NothingToDo(p) ==
    /\ pc[p] = "enter" /\ marker = NoJournal /\ probed[p] = NoJournal /\ ~Leftovers
    /\ Valid(dst) \/ source[p] = NoSource
    /\ Refuse(p)

Enter(p) ==
    /\ pc[p] = "enter" /\ marker = probed[p]
    /\ marker = NoJournal => ~Leftovers /\ ~Valid(dst) /\ source[p] # NoSource
    /\ IF Valid(src[source[p]])
         THEN Goto(p, "enter", "begin") /\ SameCall /\ UNCHANGED fileVars /\ SameWorld
         ELSE Refuse(p)

(* Mutant: the inventory is not compared with the journal's.                 *)
InventoryUnchecked(p) ==
    /\ pc[p] = "begin" /\ Valid(src[source[p]])
    /\ Goto(p, "begin", IF probed[p] = NoJournal THEN "journal" ELSE "recover")
    /\ entries' = src[source[p]]
    /\ SameWorld /\ UNCHANGED <<fileVars, lock, probed, source, todo>>

(* prepare_source stops the OBS of the source in the first phase; what it    *)
(* flushes is a change of the source as any other.  Then the inventory.      *)
Inventory(p) ==
    /\ pc[p] = "begin" /\ Valid(src[source[p]])
    /\ probed[p] # NoJournal => probed[p].entries = src[source[p]]
    /\ Goto(p, "begin", IF probed[p] = NoJournal THEN "journal" ELSE "recover")
    /\ entries' = src[source[p]]
    /\ SameWorld /\ UNCHANGED <<fileVars, lock, probed, source, todo>>

SourceChanged(p) ==
    /\ pc[p] = "begin"
    /\ ~Valid(src[source[p]]) \/ (probed[p] # NoJournal /\ probed[p].entries # src[source[p]])
    /\ Refuse(p)

(* Mutant: nothing of an earlier call is removed.                            *)
RecoverNone(p) ==
    /\ Goto(p, "recover", "journal")
    /\ SameWorld /\ SameCall /\ UNCHANGED fileVars

(* _recover_owned_transaction_temporaries: the temporaries that this         *)
(* migration may have left, known by name.                                   *)
RecoverTemporaries(p) ==
    /\ Goto(p, "recover", "journal") /\ temps' = {} /\ temp' = NoJournal
    /\ SameWorld /\ SameCall /\ UNCHANGED marker

-----------------------------------------------------------------------------
(* The journal is written anew on every call, through an exclusive           *)
(* temporary: whatever an earlier call left of it must be gone by then.      *)
WriteJournal(p) ==
    /\ temp = NoJournal
    /\ Goto(p, "journal", IF Phase(p) = "copying" THEN "subset" ELSE "check")
    /\ SetMarker(p, Journal(p, Phase(p)))
    /\ SameWorld /\ UNCHANGED <<temp, temps, lock, source, entries, todo>>

(* The destination may hold nothing that the source has not.                 *)
Subset(p) ==
    /\ pc[p] = "subset"
    /\ IF Present(dst) \subseteq Present(entries) /\ temps = {}
         THEN Goto(p, "subset", "copy") /\ todo' = Present(entries)
              /\ SameWorld /\ UNCHANGED <<fileVars, lock, probed, source, entries>>
         ELSE Refuse(p)

(* One file: read from the source, compared with the inventory, published.   *)
CopyFile(p) ==
    /\ pc[p] = "copy" /\ todo # {}
    /\ \E f \in todo :
         IF src[source[p]][f] = entries[f]
           THEN /\ dst' = [dst EXCEPT ![f] = entries[f]] /\ todo' = todo \ {f}
                /\ UNCHANGED <<src, touched, boundVars, fileVars, lock, pc, probed, source, entries>>
           ELSE Refuse(p)

(* The source did not change meanwhile, and both sides are the same.         *)
Verify(p) ==
    /\ pc[p] = "copy" /\ todo = {}
    /\ IF src[source[p]] = entries /\ dst = entries /\ temps = {}
         THEN Goto(p, "copy", "pend") /\ SameWorld /\ SameCall /\ UNCHANGED fileVars
         ELSE Refuse(p)

Pend(p) ==
    /\ temp = NoJournal /\ Goto(p, "pend", "finalize")
    /\ SetMarker(p, Journal(p, "finalize_pending"))
    /\ todo' = Managed
    /\ SameWorld /\ UNCHANGED <<temp, temps, lock, source, entries>>

(* A migration resumed in the second phase: outside the managed files the    *)
(* destination must be what was copied.                                      *)
Unmanaged(t) == [f \in Files \ Managed |-> t[f]]
CheckPending(p) ==
    /\ pc[p] = "check"
    /\ IF Unmanaged(dst) = Unmanaged(entries)
         THEN Goto(p, "check", "finalize") /\ todo' = Managed
              /\ SameWorld /\ UNCHANGED <<fileVars, lock, probed, source, entries>>
         ELSE Refuse(p)

-----------------------------------------------------------------------------
(* finalize_destination: the managed files, one after the other, without a   *)
(* journal of their own; a call that fails on the way is repeated as a whole *)
(* by the next migration.                                                    *)
Finalize(p) ==
    /\ pc[p] = "finalize" /\ todo # {}
    /\ \E f \in todo :
         IF f \in temps
           THEN Refuse(p)
           ELSE /\ dst' = [dst EXCEPT ![f] = Desired] /\ todo' = todo \ {f}
                /\ UNCHANGED <<src, touched, boundVars, fileVars, lock, pc, probed, source, entries>>

(* The temporaries, and last the journal.                                    *)
Clean(p) ==
    /\ todo = {} /\ Goto(p, "finalize", "unmark") /\ temps' = {} /\ temp' = NoJournal
    /\ SameWorld /\ SameCall /\ UNCHANGED marker

Unmark(p) ==
    /\ pc[p] = "unmark" /\ Return(p) /\ SetMarker(p, NoJournal) /\ touched' = FALSE
    /\ UNCHANGED <<src, dst, temp, temps, boundVars>>

-----------------------------------------------------------------------------
(* launch_obs after the migration: no copy under way, a valid installation,  *)
(* and the guard of the settings transaction under the same lock; OBS is     *)
(* started after that lock was left.                                         *)
NoCopyPending == marker = NoJournal /\ temp = NoJournal

Launch(p) ==
    /\ NoCopyPending /\ Valid(dst) /\ Goto(p, "idle", "guard")
    /\ SameWorld /\ SameCall /\ UNCHANGED fileVars

(* Mutant: the guard does not ask for the journal.                           *)
GuardUnmarked(p) ==
    /\ pc[p] = "guard" /\ lock = Nobody /\ Goto(p, "guard", "start")
    /\ SameWorld /\ SameCall /\ UNCHANGED fileVars

Guard(p) ==
    /\ pc[p] = "guard"
    /\ IF lock = Nobody /\ marker = NoJournal /\ Valid(dst)
         THEN Goto(p, "guard", "start") /\ SameWorld /\ SameCall /\ UNCHANGED fileVars
         ELSE Refuse(p)

StartObs(p) ==
    /\ Goto(p, "start", "running")
    /\ SameWorld /\ SameCall /\ UNCHANGED fileVars

ObsEnds(p) == pc[p] = "running" /\ Refuse(p)

-----------------------------------------------------------------------------
(* What the end of a call in the middle of a write leaves behind.            *)
Leaves(p) ==
    /\ temp' \in IF pc[p] \in {"journal", "pend"} /\ temp = NoJournal
                   THEN {temp, Torn, Journal(p, IF pc[p] = "pend" THEN "finalize_pending" ELSE Phase(p))}
                   ELSE {temp}
    /\ \/ UNCHANGED temps
       \/ pc[p] \in {"copy", "finalize"} /\ \E f \in todo : temps' = temps \union {f}

(* The application is killed, a file operation fails, or the source is       *)
(* locked by a settings update of it: the call ends.  After a failure the    *)
(* temporary is removed, if that does not fail too.                          *)
Fails(p) ==
    /\ pc[p] \in Inventoried \union {"lock", "enter", "begin"}
    /\ mishaps < MaxMishaps /\ mishaps' = mishaps + 1
    /\ Return(p) /\ Leaves(p) /\ Forget(p)
    /\ UNCHANGED <<src, dst, marker, touched, edits>>

(* The old installations belong to others: their OBS, their user, a settings *)
(* update.  So does the destination, except while the lock of it is held and *)
(* except for the executable of a running OBS, which Windows keeps.          *)
Edit == edits < MaxEdits /\ edits' = edits + 1 /\ UNCHANGED mishaps
SourceEdited ==
    /\ \E s \in Sources, f \in Files, c \in Contents \union {Absent} :
         /\ Edit /\ c # src[s][f] /\ src' = [src EXCEPT ![s][f] = c]
    /\ UNCHANGED <<dst, fileVars, lock, pc, callVars, touched>>

InUse == \E p \in Procs : pc[p] \in {"start", "running"}
DestinationEdited ==
    /\ lock = Nobody
    /\ \E f \in Files, c \in Contents \union {Absent} :
         /\ f = Exe => ~InUse
         /\ Edit /\ c # dst[f] /\ dst' = [dst EXCEPT ![f] = c]
    /\ touched' = (touched \/ marker # NoJournal)
    /\ UNCHANGED <<src, fileVars, lock, pc, callVars>>

Migrate(p) ==
    \/ Probe(p) \/ Lock(p) \/ LockBusy(p)
    \/ RecoverPrejournal(p) \/ RefuseLeftovers(p) \/ MarkerChanged(p) \/ NothingToDo(p) \/ Enter(p)
    \/ Inventory(p) \/ SourceChanged(p) \/ RecoverTemporaries(p)
    \/ WriteJournal(p) \/ Subset(p)
    \/ CopyFile(p) \/ Verify(p) \/ Pend(p) \/ CheckPending(p)
    \/ Finalize(p) \/ Clean(p) \/ Unmark(p)
Start(p) == Launch(p) \/ Guard(p) \/ StartObs(p) \/ ObsEnds(p)

Next ==
    \/ \E p \in Procs : Migrate(p) \/ Start(p) \/ Fails(p)
    \/ SourceEdited \/ DestinationEdited

(* Somebody keeps starting the application: every attempt to record, and     *)
(* every opening of the set-up, calls the migration.                         *)
Fairness == \A p \in Procs : WF_vars(Migrate(p)) /\ WF_vars(ObsEnds(p) \/ Guard(p) \/ StartObs(p))

Spec == Init /\ [][Next]_vars /\ Fairness

-----------------------------------------------------------------------------
(* Every variable has its type.                                              *)
TypeOK ==
    /\ src \in [Sources -> Trees] /\ dst \in Trees
    /\ marker \in Journals \union {NoJournal}
    /\ temp \in Journals \union {NoJournal, Torn} /\ temps \subseteq Files
    /\ lock \in Procs \union {Nobody} /\ pc \in [Procs -> PCs]
    /\ probed \in [Procs -> Journals \union {NoJournal, Changed}]
    /\ source \in [Procs -> Sources \union {NoSource}]
    /\ entries \in Trees \union {NoJournal} /\ todo \subseteq Files
    /\ touched \in BOOLEAN
    /\ edits \in 0..MaxEdits /\ mishaps \in 0..MaxMishaps

(* A temporary of a file never outlives the journal: without its journal     *)
(* nobody could remove it, and every later migration would refuse.           *)
TemporariesHaveAJournal == temps # {} => marker # NoJournal

(* While OBS runs from the destination no copy into it is under way.         *)
RunsOnWhole == \A p \in Procs : pc[p] = "running" => marker = NoJournal

(* The destination keeps its promise.                                        *)
Contract == INSTANCE CopyContract WITH
    Trees <- Trees, Nothing <- NoJournal, Usable <- Valid, Settled <- Settled,
    sources <- {src[s] : s \in Sources}, snapshot <- entries,
    pinned <- IF marker = NoJournal THEN NoJournal ELSE marker.entries,
    view <- IF marker = NoJournal THEN dst ELSE NoJournal
ImplementsContract == Contract!Spec

(* An interrupted copy is finished by later starts, unless it needs the      *)
(* user: the source was changed, the destination was changed, or it held     *)
(* from the beginning what the source does not have.                         *)
NeedsUser == \/ touched \/ src[marker.source] # marker.entries
             \/ ~(Present(dst) \subseteq Present(marker.entries))
PendingResolved == marker # NoJournal ~> (marker = NoJournal \/ NeedsUser)

(* A copy that is taken up again is refused only for the user's sake: unless *)
(* source or destination was changed, or the destination held from the       *)
(* beginning what the source does not have, the process that holds the lock  *)
(* goes on to the end, and finds nothing of an earlier call in its way.      *)
ResumeIsNotRefused ==
    [][\A p \in Procs :
          Migrate(p) /\ pc[p] \in Inventoried \union {"begin"} /\ marker # NoJournal /\ ~NeedsUser
            => pc'[p] # "idle" \/ marker' = NoJournal]_vars

=============================================================================
