------------------------- MODULE CopyMigrationProofs -------------------------
(***************************************************************************)
(* Proofs about CopyMigration, for any number of processes, of old         *)
(* installations, of files and their contents, and of crashes and failures.*)
(***************************************************************************)
EXTENDS CopyMigration, NaturalsInduction, WellFoundedInduction, TLAPS

Working == Inventoried \union {"begin"}
Inside  == Working \union {"enter"}
Pinned  == {"subset", "copy", "pend", "check", "finalize", "unmark"}

WorldType ==
    /\ src \in [Sources -> Trees] /\ dst \in Trees
    /\ marker \in Journals \union {NoJournal}
    /\ temp \in Journals \union {NoJournal, Torn} /\ temps \subseteq Files
    /\ edits \in 0 .. MaxEdits /\ mishaps \in 0 .. MaxMishaps
FlagType == touched \in BOOLEAN
ControlType == lock \in Procs \union {Nobody} /\ pc \in [Procs -> PCs]
CallType ==
    /\ probed \in [Procs -> Journals \union {NoJournal, Changed}]
    /\ source \in [Procs -> Sources \union {NoSource}]
    /\ entries \in Trees \union {NoJournal} /\ todo \subseteq Files
Types == WorldType /\ FlagType /\ ControlType /\ CallType

(* Whoever is past the lock holds it, and is alone.                         *)
LockInv == \A q \in Procs : lock = q <=> pc[q] \in Inside
(* What a process read before the lock fixes its source.                    *)
SourceInv ==
    \A q \in Procs :
        /\ pc[q] \in Inside \union {"lock"} /\ probed[q] \in Journals => source[q] =
            probed[q].source
        /\ pc[q] \in Working => source[q] \in Sources
(* The marker is the one probed until the journal is written; from then on  *)
(* it stands for the inventory.                                             *)
MarkerInv ==
    \A q \in Procs :
        /\ pc[q] \in {"begin", "recover", "journal"} => probed[q] = marker
        /\ pc[q] \in {"begin", "recover", "journal"} /\ marker = NoJournal => ~Valid(dst)
        /\ pc[q] \in Inventoried => entries \in Trees
        /\ pc[q] \in {"recover", "journal"} /\ marker # NoJournal => marker.entries = entries
        /\ pc[q] \in Pinned => marker \in Journals /\ marker.entries = entries
(* How far the destination has become what the journal stands for.          *)
CopiedInv ==
    \A q \in Procs :
        /\ pc[q] = "pend" => Unmanaged(dst) = Unmanaged(entries)
        /\ pc[q] = "finalize" =>
             /\ todo \subseteq Managed /\ Unmanaged(dst) = Unmanaged(entries)
             /\ \A f \in Managed \ todo : dst[f] = Desired
        /\ pc[q] = "unmark" => dst = Settled(entries)
(* A temporary of a file is left only beside the journal.                   *)
TempsInv ==
    /\ TemporariesHaveAJournal
    /\ \A q \in Procs : pc[q] = "unmark" => temps = {}
(* An installation OBS was started from is whole, and nobody copies into it.*)
UseInv ==
    InUse => /\ marker = NoJournal /\ Valid(dst)
             /\ \A q \in Procs : pc[q] \notin Working
IInv == Types /\ LockInv /\ SourceInv /\ MarkerInv /\ CopiedInv /\ TempsInv /\ UseInv

-----------------------------------------------------------------------------
(* The types of the proofs and of the specification are the same.           *)
LEMMA TypesAgree == Types <=> TypeOK
  BY DEF Types, WorldType, FlagType, ControlType, CallType, TypeOK

(* The first candidate is a candidate.                                      *)
LEMMA FirstIsCandidate == Candidates # {} => FirstCandidate \in Candidates
<1> SUFFICES ASSUME Candidates # {} PROVE FirstCandidate \in Candidates
  OBVIOUS
<1>1. Candidates \subseteq Nat
  BY ConstantsAssumption DEF Candidates, Sources
<1>2. PICK s \in Candidates : \A t \in Candidates : <<t, s>> \notin OpToRel(<, Nat)
  BY <1>1, NatLessThanWellFounded, WFMin
<1>3. ASSUME NEW t \in Candidates PROVE s <= t
  <2>1. <<t, s>> \in Nat \X Nat /\ <<t, s>>[1] = t /\ <<t, s>>[2] = s
    BY <1>1
  <2>2. ~(t < s)
    BY <1>2, <2>1, Zenon DEF OpToRel
  <2>3. QED
    BY <1>1, <2>2
<1>4. QED
  BY <1>3 DEF FirstCandidate

(* A tree with one file replaced is a tree.                                 *)
LEMMA TreeUpdate ==
    ASSUME NEW t \in Trees, NEW f \in Files, NEW c \in Contents \union {Absent}
    PROVE  [t EXCEPT ![f] = c] \in Trees
  BY DEF Trees

(* What the marker becomes, and what the others remember of it.             *)
LEMMA SetMarkerIs ==
    ASSUME CallType, NEW p \in Procs, NEW j \in Journals \union {NoJournal}, SetMarker(p, j)
    PROVE  /\ marker' = j /\ probed' \in [Procs -> Journals \union {NoJournal, Changed}]
           /\ probed'[p] = probed[p]
           /\ \A q \in Procs \ {p} : probed'[q] \in {NoJournal, Changed}
  BY DEF CallType, SetMarker

(* The journal a process writes.                                            *)
LEMMA JournalIs ==
    ASSUME NEW p \in Procs, NEW ph \in Phases, source[p] \in Sources, entries \in Trees
    PROVE  Journal(p, ph) \in Journals /\ Journal(p, ph).entries = entries
  BY DEF Journal, Journals

(* A call that ends leaves its lock, its inventory and its source.          *)
LEMMA ReturnIs ==
    ASSUME Types, NEW p \in Procs, Return(p)
    PROVE  /\ pc'[p] = "idle" /\ (\A q \in Procs \ {p} : pc'[q] = pc[q] /\ source'[q] = source[q])
           /\ pc' \in [Procs -> PCs] /\ source' \in [Procs -> Sources \union {NoSource}]
           /\ lock # p => entries' = entries /\ todo' = todo /\ lock' = lock
           /\ lock = p => entries' = NoJournal /\ todo' = {} /\ lock' = Nobody
<1>1. pc' = [pc EXCEPT ![p] = "idle"] /\ source' = [source EXCEPT ![p] = NoSource]
  BY DEF Return
<1>2. IF lock = p
        THEN lock' = Nobody /\ entries' = NoJournal /\ todo' = {}
        ELSE lock' = lock /\ entries' = entries /\ todo' = todo
  BY DEF Return
<1>3. QED
  BY <1>1, <1>2 DEF Types, ControlType, CallType, PCs

(* A refused call changes nothing else.                                     *)
LEMMA RefuseIs ==
    ASSUME Types, NEW p \in Procs, Refuse(p)
    PROVE  /\ Return(p) /\ UNCHANGED <<src, dst, marker, temp, temps, touched, edits, mishaps>>
           /\ probed' \in [Procs -> Journals \union {NoJournal, Changed}]
           /\ \A q \in Procs \ {p} : probed'[q] = probed[q]
  BY DEF Types, CallType, Refuse, Forget, SameWorld, fileVars, boundVars

(* The journal as it is written, before the copies and after them.          *)
LEMMA JournalWritten ==
    ASSUME IInv, NEW p \in Procs, WriteJournal(p)
    PROVE  /\ pc[p] = "journal"
           /\ pc' = [pc EXCEPT ![p] = IF Phase(p) = "copying" THEN "subset" ELSE "check"]
           /\ marker' \in Journals /\ marker'.entries = entries
           /\ probed' \in [Procs -> Journals \union {NoJournal, Changed}] /\ probed'[p]
               = probed[p]
           /\ \A q \in Procs \ {p} : probed'[q] \in {NoJournal, Changed}
           /\ UNCHANGED <<src, dst, temp, temps, lock, source, entries, todo, touched,
               edits, mishaps>>
<1>1. probed[p] \in Journals \union {NoJournal} /\ source[p] \in Sources /\ entries \in Trees
  BY DEF IInv, Types, WorldType, MarkerInv, SourceInv, WriteJournal, Goto, Working, Inventoried
<1>2. Phase(p) \in Phases
  BY <1>1 DEF Phase, Phases, Journals
<1>3. Journal(p, Phase(p)) \in Journals /\ Journal(p, Phase(p)).entries = entries
  BY <1>1, <1>2, JournalIs
<1>4. SetMarker(p, Journal(p, Phase(p)))
  BY DEF WriteJournal
<1>5. QED
  BY <1>3, <1>4, SetMarkerIs DEF IInv, Types, WriteJournal, Goto, SameWorld, boundVars

LEMMA PendWritten ==
    ASSUME IInv, NEW p \in Procs, Pend(p)
    PROVE  /\ pc[p] = "pend" /\ pc' = [pc EXCEPT ![p] = "finalize"]
           /\ marker' \in Journals /\ marker'.entries = entries
           /\ probed' \in [Procs -> Journals \union {NoJournal, Changed}] /\ probed'[p]
               = probed[p]
           /\ \A q \in Procs \ {p} : probed'[q] \in {NoJournal, Changed}
           /\ todo' = Managed
           /\ UNCHANGED <<src, dst, temp, temps, lock, source, entries, touched, edits, mishaps>>
<1>1. source[p] \in Sources /\ entries \in Trees
  BY DEF IInv, MarkerInv, SourceInv, Pend, Goto, Working, Inventoried
<1>2. /\ Journal(p, "finalize_pending") \in Journals
      /\ Journal(p, "finalize_pending").entries = entries
  BY <1>1, JournalIs DEF Phases
<1>3. SetMarker(p, Journal(p, "finalize_pending"))
  BY DEF Pend
<1>4. QED
  BY <1>2, <1>3, SetMarkerIs DEF IInv, Types, Pend, Goto, SameWorld, boundVars

(* The end of a migration.                                                  *)
LEMMA UnmarkIs ==
    ASSUME IInv, NEW p \in Procs, Unmark(p)
    PROVE  /\ pc[p] = "unmark" /\ pc'[p] = "idle" /\ pc' \in [Procs -> PCs]
           /\ \A q \in Procs \ {p} : pc'[q] = pc[q] /\ source'[q] = source[q]
           /\ source' \in [Procs -> Sources \union {NoSource}]
           /\ lock = p /\ lock' = Nobody /\ entries' = NoJournal /\ todo' = {}
           /\ marker' = NoJournal /\ touched' = FALSE
           /\ probed' \in [Procs -> Journals \union {NoJournal, Changed}]
           /\ \A q \in Procs \ {p} : probed'[q] \in {NoJournal, Changed}
           /\ UNCHANGED <<src, dst, temp, temps, edits, mishaps>>
<1>1. pc[p] = "unmark" /\ Return(p) /\ SetMarker(p, NoJournal)
  BY DEF Unmark
<1>2. lock = p
  BY <1>1 DEF IInv, LockInv, Inside, Working, Inventoried
<1>3. QED
  BY <1>1, <1>2, ReturnIs, SetMarkerIs DEF IInv, Types, Unmark, boundVars

(* A crash or a failure.                                                    *)
LEMMA FailsIs ==
    ASSUME IInv, NEW p \in Procs, Fails(p)
    PROVE  /\ pc[p] \in Inside \union {"lock"} /\ Return(p)
           /\ temp' \in Journals \union {NoJournal, Torn}
           /\ temps' = temps \/ (pc[p] \in {"copy", "finalize"} /\ temps' \subseteq Files)
           /\ mishaps' \in 0 .. MaxMishaps
           /\ probed' \in [Procs -> Journals \union {NoJournal, Changed}]
           /\ \A q \in Procs \ {p} : probed'[q] = probed[q]
           /\ UNCHANGED <<src, dst, marker, touched, edits>>
<1>1. pc[p] \in Inside \union {"lock"} /\ Return(p) /\ Leaves(p)
  BY DEF Fails, Inside, Working
<1>2. ASSUME pc[p] \in {"journal", "pend"}
      PROVE  Journal(p, IF pc[p] = "pend" THEN "finalize_pending" ELSE Phase(p)) \in Journals
  <2>1. source[p] \in Sources /\ entries \in Trees
    BY <1>2 DEF IInv, MarkerInv, SourceInv, Working, Inventoried
  <2>2. pc[p] = "journal" => Phase(p) \in Phases
    BY DEF IInv, Types, WorldType, MarkerInv, Phase, Phases, Journals
  <2>3. (IF pc[p] = "pend" THEN "finalize_pending" ELSE Phase(p)) \in Phases
    BY <1>2, <2>2 DEF Phases
  <2>4. QED
    BY <2>1, <2>3, JournalIs
<1>3. temp' \in Journals \union {NoJournal, Torn}
  BY <1>1, <1>2 DEF Leaves, IInv, Types, WorldType
<1>4. temps' = temps \/ (pc[p] \in {"copy", "finalize"} /\ temps' \subseteq Files)
  BY <1>1 DEF Leaves, IInv, Types, WorldType, CallType
<1>5. QED
  BY <1>1, <1>3, <1>4, ConstantsAssumption
  DEF Fails, Forget, IInv, Types, WorldType, CallType

(* A change of an old installation.                                         *)
LEMMA SourceEditIs ==
    ASSUME IInv, SourceEdited
    PROVE  /\ src' \in [Sources -> Trees] /\ edits' \in 0 .. MaxEdits
           /\ UNCHANGED <<dst, marker, temp, temps, lock, pc, probed, source, entries,
               todo, touched,
                          mishaps>>
<1>1. PICK s \in Sources, f \in Files, c \in Contents \union {Absent} :
        Edit /\ src' = [src EXCEPT ![s][f] = c]
  BY DEF SourceEdited
<1>2. [src[s] EXCEPT ![f] = c] \in Trees
  BY TreeUpdate DEF IInv, Types, WorldType
<1>3. src' \in [Sources -> Trees]
  BY <1>1, <1>2 DEF IInv, Types, WorldType
<1>4. QED
  BY <1>1, <1>3, ConstantsAssumption
  DEF SourceEdited, Edit, IInv, Types, WorldType, fileVars, callVars

(* A refused call keeps the invariant.                                      *)
LEMMA RefuseKeeps == ASSUME IInv, NEW p \in Procs, Refuse(p) PROVE IInv'
<1>1. /\ pc'[p] = "idle" /\ (\A q \in Procs \ {p} : pc'[q] = pc[q] /\ source'[q] = source[q])
      /\ pc' \in [Procs -> PCs] /\ source' \in [Procs -> Sources \union {NoSource}]
      /\ lock # p => entries' = entries /\ todo' = todo /\ lock' = lock
      /\ lock = p => entries' = NoJournal /\ todo' = {} /\ lock' = Nobody
      /\ UNCHANGED <<src, dst, marker, temp, temps, touched, edits, mishaps>>
      /\ probed' \in [Procs -> Journals \union {NoJournal, Changed}]
      /\ \A q \in Procs \ {p} : probed'[q] = probed[q]
  BY ReturnIs, RefuseIs DEF IInv
<1>2. Types'
  BY <1>1 DEF IInv, Types, WorldType, FlagType, ControlType, CallType
<1>3. LockInv'
  BY <1>1, ConstantsAssumption DEF IInv, LockInv, Inside, Working, Inventoried
<1>4. SourceInv'
  BY <1>1 DEF IInv, SourceInv, Inside, Working, Inventoried
<1>5. \A q \in Procs : pc'[q] \in Inside => q # p /\ lock # p
  BY <1>1, <1>3 DEF IInv, LockInv, Inside, Working, Inventoried
<1>6. MarkerInv'
  BY <1>1, <1>5 DEF IInv, MarkerInv, Inside, Working, Inventoried, Pinned
<1>7. CopiedInv'
  BY <1>1, <1>5 DEF IInv, CopiedInv, Inside, Working, Inventoried
<1>8. TempsInv'
  BY <1>1 DEF IInv, TempsInv, TemporariesHaveAJournal
<1>9. UseInv'
  BY <1>1 DEF IInv, UseInv, InUse, Working, Inventoried
<1>10. QED
  BY <1>2, <1>3, <1>4, <1>6, <1>7, <1>8, <1>9 DEF IInv

-----------------------------------------------------------------------------
(* Every step keeps WorldType.                                              *)
LEMMA NextWorldType == IInv /\ [Next]_vars => WorldType'
<1> SUFFICES ASSUME IInv, [Next]_vars PROVE WorldType'
  OBVIOUS
<1> USE ConstantsAssumption DEF IInv, Types, WorldType, CallType, SourceInv, MarkerInv, Working,
    Inventoried, Pinned, Goto, SameWorld, SameCall, Edit, fileVars, callVars, boundVars, vars
<1>1. ASSUME NEW p \in Procs, Probe(p) PROVE WorldType'
  BY <1>1, FirstIsCandidate DEF Probe
<1>2. ASSUME NEW p \in Procs, Lock(p) PROVE WorldType'
  BY <1>2 DEF Lock
<1>3. ASSUME NEW p \in Procs, LockBusy(p) PROVE WorldType'
  BY <1>3, RefuseKeeps DEF LockBusy
<1>4. ASSUME NEW p \in Procs, RecoverPrejournal(p) PROVE WorldType'
  BY <1>4 DEF RecoverPrejournal
<1>5. ASSUME NEW p \in Procs, RefuseLeftovers(p) PROVE WorldType'
  BY <1>5, RefuseKeeps DEF RefuseLeftovers
<1>6. ASSUME NEW p \in Procs, MarkerChanged(p) PROVE WorldType'
  BY <1>6, RefuseKeeps DEF MarkerChanged
<1>7. ASSUME NEW p \in Procs, NothingToDo(p) PROVE WorldType'
  BY <1>7, RefuseKeeps DEF NothingToDo
<1>8. ASSUME NEW p \in Procs, Enter(p) PROVE WorldType'
  <2>1. CASE Refuse(p)
    BY <2>1, RefuseKeeps
  <2>2. CASE ~Refuse(p)
    BY <1>8, <2>2 DEF Enter
  <2>3. QED
    BY <2>1, <2>2
<1>9. ASSUME NEW p \in Procs, Inventory(p) PROVE WorldType'
  BY <1>9 DEF Inventory
<1>10. ASSUME NEW p \in Procs, SourceChanged(p) PROVE WorldType'
  BY <1>10, RefuseKeeps DEF SourceChanged
<1>11. ASSUME NEW p \in Procs, RecoverTemporaries(p) PROVE WorldType'
  BY <1>11 DEF RecoverTemporaries
<1>12. ASSUME NEW p \in Procs, WriteJournal(p) PROVE WorldType'
  BY <1>12, JournalWritten
<1>13. ASSUME NEW p \in Procs, Subset(p) PROVE WorldType'
  <2>1. CASE Refuse(p)
    BY <2>1, RefuseKeeps
  <2>2. CASE ~Refuse(p)
    BY <1>13, <2>2 DEF Subset, Present
  <2>3. QED
    BY <2>1, <2>2
<1>14. ASSUME NEW p \in Procs, CopyFile(p) PROVE WorldType'
  <2>1. CASE Refuse(p)
    BY <2>1, RefuseKeeps
  <2>2. CASE ~Refuse(p)
    <3>1. PICK f \in todo :
            /\ dst' = [dst EXCEPT ![f] = entries[f]]
            /\ UNCHANGED <<src, touched, boundVars, fileVars>>
      BY <1>14, <2>2 DEF CopyFile
    <3>2. f \in Files /\ entries[f] \in Contents \union {Absent}
      BY <1>14, <3>1 DEF CopyFile, Trees
    <3>3. [dst EXCEPT ![f] = entries[f]] \in Trees
      BY <3>2, TreeUpdate
    <3>4. QED
      BY <3>1, <3>3
  <2>3. QED
    BY <2>1, <2>2
<1>15. ASSUME NEW p \in Procs, Verify(p) PROVE WorldType'
  <2>1. CASE Refuse(p)
    BY <2>1, RefuseKeeps
  <2>2. CASE ~Refuse(p)
    BY <1>15, <2>2 DEF Verify
  <2>3. QED
    BY <2>1, <2>2
<1>16. ASSUME NEW p \in Procs, Pend(p) PROVE WorldType'
  BY <1>16, PendWritten
<1>17. ASSUME NEW p \in Procs, CheckPending(p) PROVE WorldType'
  <2>1. CASE Refuse(p)
    BY <2>1, RefuseKeeps
  <2>2. CASE ~Refuse(p)
    BY <1>17, <2>2 DEF CheckPending
  <2>3. QED
    BY <2>1, <2>2
<1>18. ASSUME NEW p \in Procs, Finalize(p) PROVE WorldType'
  <2>1. CASE Refuse(p)
    BY <2>1, RefuseKeeps
  <2>2. CASE ~Refuse(p)
    BY <1>18, <2>2, TreeUpdate DEF Finalize
  <2>3. QED
    BY <2>1, <2>2
<1>19. ASSUME NEW p \in Procs, Clean(p) PROVE WorldType'
  BY <1>19 DEF Clean
<1>20. ASSUME NEW p \in Procs, Unmark(p) PROVE WorldType'
  BY <1>20, UnmarkIs
<1>21. ASSUME NEW p \in Procs, Launch(p) PROVE WorldType'
  BY <1>21 DEF Launch, NoCopyPending
<1>22. ASSUME NEW p \in Procs, Guard(p) PROVE WorldType'
  <2>1. CASE Refuse(p)
    BY <2>1, RefuseKeeps
  <2>2. CASE ~Refuse(p)
    BY <1>22, <2>2 DEF Guard
  <2>3. QED
    BY <2>1, <2>2
<1>23. ASSUME NEW p \in Procs, StartObs(p) PROVE WorldType'
  BY <1>23 DEF StartObs
<1>24. ASSUME NEW p \in Procs, ObsEnds(p) PROVE WorldType'
  BY <1>24, RefuseKeeps DEF ObsEnds
<1>25. ASSUME NEW p \in Procs, Fails(p) PROVE WorldType'
  BY <1>25, FailsIs, ReturnIs
<1>26. ASSUME SourceEdited PROVE WorldType'
  BY <1>26, SourceEditIs
<1>27. ASSUME DestinationEdited PROVE WorldType'
  <2>1. PICK f \in Files, c \in Contents \union {Absent} :
          Edit /\ dst' = [dst EXCEPT ![f] = c]
    BY <1>27 DEF DestinationEdited
  <2>2. [dst EXCEPT ![f] = c] \in Trees
    BY TreeUpdate
  <2>3. edits' \in 0 .. MaxEdits /\ mishaps' = mishaps
    BY <2>1
  <2>4. UNCHANGED <<src, marker, temp, temps>>
    BY <1>27 DEF DestinationEdited
  <2>5. QED
    BY <2>1, <2>2, <2>3, <2>4
<1>28. CASE UNCHANGED vars
  BY <1>28
<1>29. QED
  BY <1>1, <1>2, <1>3, <1>4, <1>5, <1>6, <1>7, <1>8, <1>9, <1>10, <1>11, <1>12, <1>13, <1>14,
      <1>15, <1>16, <1>17, <1>18, <1>19, <1>20, <1>21, <1>22, <1>23, <1>24, <1>25, <1>26, <1>27,
      <1>28 DEF Next, Migrate, Start

(* Every step keeps FlagType.                                               *)
LEMMA NextFlagType == IInv /\ [Next]_vars => FlagType'
<1> SUFFICES ASSUME IInv, [Next]_vars PROVE FlagType'
  OBVIOUS
<1> USE ConstantsAssumption DEF IInv, Types, FlagType, Goto, SameWorld, SameCall, Edit, fileVars,
    callVars, boundVars, vars
<1>1. ASSUME NEW p \in Procs, Probe(p) PROVE FlagType'
  BY <1>1, FirstIsCandidate DEF Probe
<1>2. ASSUME NEW p \in Procs, Lock(p) PROVE FlagType'
  BY <1>2 DEF Lock
<1>3. ASSUME NEW p \in Procs, LockBusy(p) PROVE FlagType'
  BY <1>3, RefuseKeeps DEF LockBusy
<1>4. ASSUME NEW p \in Procs, RecoverPrejournal(p) PROVE FlagType'
  BY <1>4 DEF RecoverPrejournal
<1>5. ASSUME NEW p \in Procs, RefuseLeftovers(p) PROVE FlagType'
  BY <1>5, RefuseKeeps DEF RefuseLeftovers
<1>6. ASSUME NEW p \in Procs, MarkerChanged(p) PROVE FlagType'
  BY <1>6, RefuseKeeps DEF MarkerChanged
<1>7. ASSUME NEW p \in Procs, NothingToDo(p) PROVE FlagType'
  BY <1>7, RefuseKeeps DEF NothingToDo
<1>8. ASSUME NEW p \in Procs, Enter(p) PROVE FlagType'
  <2>1. CASE Refuse(p)
    BY <2>1, RefuseKeeps
  <2>2. CASE ~Refuse(p)
    BY <1>8, <2>2 DEF Enter
  <2>3. QED
    BY <2>1, <2>2
<1>9. ASSUME NEW p \in Procs, Inventory(p) PROVE FlagType'
  BY <1>9 DEF Inventory
<1>10. ASSUME NEW p \in Procs, SourceChanged(p) PROVE FlagType'
  BY <1>10, RefuseKeeps DEF SourceChanged
<1>11. ASSUME NEW p \in Procs, RecoverTemporaries(p) PROVE FlagType'
  BY <1>11 DEF RecoverTemporaries
<1>12. ASSUME NEW p \in Procs, WriteJournal(p) PROVE FlagType'
  BY <1>12, JournalWritten
<1>13. ASSUME NEW p \in Procs, Subset(p) PROVE FlagType'
  <2>1. CASE Refuse(p)
    BY <2>1, RefuseKeeps
  <2>2. CASE ~Refuse(p)
    BY <1>13, <2>2 DEF Subset, Present
  <2>3. QED
    BY <2>1, <2>2
<1>14. ASSUME NEW p \in Procs, CopyFile(p) PROVE FlagType'
  <2>1. CASE Refuse(p)
    BY <2>1, RefuseKeeps
  <2>2. CASE ~Refuse(p)
    BY <1>14, <2>2, TreeUpdate DEF CopyFile
  <2>3. QED
    BY <2>1, <2>2
<1>15. ASSUME NEW p \in Procs, Verify(p) PROVE FlagType'
  <2>1. CASE Refuse(p)
    BY <2>1, RefuseKeeps
  <2>2. CASE ~Refuse(p)
    BY <1>15, <2>2 DEF Verify
  <2>3. QED
    BY <2>1, <2>2
<1>16. ASSUME NEW p \in Procs, Pend(p) PROVE FlagType'
  BY <1>16, PendWritten
<1>17. ASSUME NEW p \in Procs, CheckPending(p) PROVE FlagType'
  <2>1. CASE Refuse(p)
    BY <2>1, RefuseKeeps
  <2>2. CASE ~Refuse(p)
    BY <1>17, <2>2 DEF CheckPending
  <2>3. QED
    BY <2>1, <2>2
<1>18. ASSUME NEW p \in Procs, Finalize(p) PROVE FlagType'
  <2>1. CASE Refuse(p)
    BY <2>1, RefuseKeeps
  <2>2. CASE ~Refuse(p)
    BY <1>18, <2>2, TreeUpdate DEF Finalize
  <2>3. QED
    BY <2>1, <2>2
<1>19. ASSUME NEW p \in Procs, Clean(p) PROVE FlagType'
  BY <1>19 DEF Clean
<1>20. ASSUME NEW p \in Procs, Unmark(p) PROVE FlagType'
  BY <1>20, UnmarkIs
<1>21. ASSUME NEW p \in Procs, Launch(p) PROVE FlagType'
  BY <1>21 DEF Launch, NoCopyPending
<1>22. ASSUME NEW p \in Procs, Guard(p) PROVE FlagType'
  <2>1. CASE Refuse(p)
    BY <2>1, RefuseKeeps
  <2>2. CASE ~Refuse(p)
    BY <1>22, <2>2 DEF Guard
  <2>3. QED
    BY <2>1, <2>2
<1>23. ASSUME NEW p \in Procs, StartObs(p) PROVE FlagType'
  BY <1>23 DEF StartObs
<1>24. ASSUME NEW p \in Procs, ObsEnds(p) PROVE FlagType'
  BY <1>24, RefuseKeeps DEF ObsEnds
<1>25. ASSUME NEW p \in Procs, Fails(p) PROVE FlagType'
  BY <1>25, FailsIs, ReturnIs
<1>26. ASSUME SourceEdited PROVE FlagType'
  BY <1>26, SourceEditIs
<1>27. ASSUME DestinationEdited PROVE FlagType'
  BY <1>27, TreeUpdate DEF DestinationEdited
<1>28. CASE UNCHANGED vars
  BY <1>28
<1>29. QED
  BY <1>1, <1>2, <1>3, <1>4, <1>5, <1>6, <1>7, <1>8, <1>9, <1>10, <1>11, <1>12, <1>13, <1>14,
      <1>15, <1>16, <1>17, <1>18, <1>19, <1>20, <1>21, <1>22, <1>23, <1>24, <1>25, <1>26, <1>27,
      <1>28 DEF Next, Migrate, Start

(* Every step keeps ControlType.                                            *)
LEMMA NextControlType == IInv /\ [Next]_vars => ControlType'
<1> SUFFICES ASSUME IInv, [Next]_vars PROVE ControlType'
  OBVIOUS
<1> USE ConstantsAssumption DEF IInv, Types, ControlType, PCs, Goto, SameWorld, SameCall, Edit,
    fileVars, callVars, boundVars, vars
<1>1. ASSUME NEW p \in Procs, Probe(p) PROVE ControlType'
  BY <1>1, FirstIsCandidate DEF Probe
<1>2. ASSUME NEW p \in Procs, Lock(p) PROVE ControlType'
  BY <1>2 DEF Lock
<1>3. ASSUME NEW p \in Procs, LockBusy(p) PROVE ControlType'
  BY <1>3, RefuseKeeps DEF LockBusy
<1>4. ASSUME NEW p \in Procs, RecoverPrejournal(p) PROVE ControlType'
  BY <1>4 DEF RecoverPrejournal
<1>5. ASSUME NEW p \in Procs, RefuseLeftovers(p) PROVE ControlType'
  BY <1>5, RefuseKeeps DEF RefuseLeftovers
<1>6. ASSUME NEW p \in Procs, MarkerChanged(p) PROVE ControlType'
  BY <1>6, RefuseKeeps DEF MarkerChanged
<1>7. ASSUME NEW p \in Procs, NothingToDo(p) PROVE ControlType'
  BY <1>7, RefuseKeeps DEF NothingToDo
<1>8. ASSUME NEW p \in Procs, Enter(p) PROVE ControlType'
  <2>1. CASE Refuse(p)
    BY <2>1, RefuseKeeps
  <2>2. CASE ~Refuse(p)
    BY <1>8, <2>2 DEF Enter
  <2>3. QED
    BY <2>1, <2>2
<1>9. ASSUME NEW p \in Procs, Inventory(p) PROVE ControlType'
  BY <1>9 DEF Inventory
<1>10. ASSUME NEW p \in Procs, SourceChanged(p) PROVE ControlType'
  BY <1>10, RefuseKeeps DEF SourceChanged
<1>11. ASSUME NEW p \in Procs, RecoverTemporaries(p) PROVE ControlType'
  BY <1>11 DEF RecoverTemporaries
<1>12. ASSUME NEW p \in Procs, WriteJournal(p) PROVE ControlType'
  BY <1>12, JournalWritten
<1>13. ASSUME NEW p \in Procs, Subset(p) PROVE ControlType'
  <2>1. CASE Refuse(p)
    BY <2>1, RefuseKeeps
  <2>2. CASE ~Refuse(p)
    BY <1>13, <2>2 DEF Subset, Present
  <2>3. QED
    BY <2>1, <2>2
<1>14. ASSUME NEW p \in Procs, CopyFile(p) PROVE ControlType'
  <2>1. CASE Refuse(p)
    BY <2>1, RefuseKeeps
  <2>2. CASE ~Refuse(p)
    BY <1>14, <2>2, TreeUpdate DEF CopyFile
  <2>3. QED
    BY <2>1, <2>2
<1>15. ASSUME NEW p \in Procs, Verify(p) PROVE ControlType'
  <2>1. CASE Refuse(p)
    BY <2>1, RefuseKeeps
  <2>2. CASE ~Refuse(p)
    BY <1>15, <2>2 DEF Verify
  <2>3. QED
    BY <2>1, <2>2
<1>16. ASSUME NEW p \in Procs, Pend(p) PROVE ControlType'
  BY <1>16, PendWritten
<1>17. ASSUME NEW p \in Procs, CheckPending(p) PROVE ControlType'
  <2>1. CASE Refuse(p)
    BY <2>1, RefuseKeeps
  <2>2. CASE ~Refuse(p)
    BY <1>17, <2>2 DEF CheckPending
  <2>3. QED
    BY <2>1, <2>2
<1>18. ASSUME NEW p \in Procs, Finalize(p) PROVE ControlType'
  <2>1. CASE Refuse(p)
    BY <2>1, RefuseKeeps
  <2>2. CASE ~Refuse(p)
    BY <1>18, <2>2, TreeUpdate DEF Finalize
  <2>3. QED
    BY <2>1, <2>2
<1>19. ASSUME NEW p \in Procs, Clean(p) PROVE ControlType'
  BY <1>19 DEF Clean
<1>20. ASSUME NEW p \in Procs, Unmark(p) PROVE ControlType'
  BY <1>20, UnmarkIs
<1>21. ASSUME NEW p \in Procs, Launch(p) PROVE ControlType'
  BY <1>21 DEF Launch, NoCopyPending
<1>22. ASSUME NEW p \in Procs, Guard(p) PROVE ControlType'
  <2>1. CASE Refuse(p)
    BY <2>1, RefuseKeeps
  <2>2. CASE ~Refuse(p)
    BY <1>22, <2>2 DEF Guard
  <2>3. QED
    BY <2>1, <2>2
<1>23. ASSUME NEW p \in Procs, StartObs(p) PROVE ControlType'
  BY <1>23 DEF StartObs
<1>24. ASSUME NEW p \in Procs, ObsEnds(p) PROVE ControlType'
  BY <1>24, RefuseKeeps DEF ObsEnds
<1>25. ASSUME NEW p \in Procs, Fails(p) PROVE ControlType'
  BY <1>25, FailsIs, ReturnIs
<1>26. ASSUME SourceEdited PROVE ControlType'
  BY <1>26, SourceEditIs
<1>27. ASSUME DestinationEdited PROVE ControlType'
  BY <1>27, TreeUpdate DEF DestinationEdited
<1>28. CASE UNCHANGED vars
  BY <1>28
<1>29. QED
  BY <1>1, <1>2, <1>3, <1>4, <1>5, <1>6, <1>7, <1>8, <1>9, <1>10, <1>11, <1>12, <1>13, <1>14,
      <1>15, <1>16, <1>17, <1>18, <1>19, <1>20, <1>21, <1>22, <1>23, <1>24, <1>25, <1>26, <1>27,
      <1>28 DEF Next, Migrate, Start

(* Every step keeps CallType.                                               *)
LEMMA NextCallType == IInv /\ [Next]_vars => CallType'
<1> SUFFICES ASSUME IInv, [Next]_vars PROVE CallType'
  OBVIOUS
<1> USE ConstantsAssumption DEF IInv, Types, WorldType, CallType, SourceInv, Working, Candidates,
    Sources, Goto, SameWorld, SameCall, Edit, fileVars, callVars, boundVars, vars
<1>1. ASSUME NEW p \in Procs, Probe(p) PROVE CallType'
  BY <1>1, FirstIsCandidate DEF Probe
<1>2. ASSUME NEW p \in Procs, Lock(p) PROVE CallType'
  BY <1>2 DEF Lock
<1>3. ASSUME NEW p \in Procs, LockBusy(p) PROVE CallType'
  BY <1>3, RefuseKeeps DEF LockBusy
<1>4. ASSUME NEW p \in Procs, RecoverPrejournal(p) PROVE CallType'
  BY <1>4 DEF RecoverPrejournal
<1>5. ASSUME NEW p \in Procs, RefuseLeftovers(p) PROVE CallType'
  BY <1>5, RefuseKeeps DEF RefuseLeftovers
<1>6. ASSUME NEW p \in Procs, MarkerChanged(p) PROVE CallType'
  BY <1>6, RefuseKeeps DEF MarkerChanged
<1>7. ASSUME NEW p \in Procs, NothingToDo(p) PROVE CallType'
  BY <1>7, RefuseKeeps DEF NothingToDo
<1>8. ASSUME NEW p \in Procs, Enter(p) PROVE CallType'
  <2>1. CASE Refuse(p)
    BY <2>1, RefuseKeeps
  <2>2. CASE ~Refuse(p)
    BY <1>8, <2>2 DEF Enter
  <2>3. QED
    BY <2>1, <2>2
<1>9. ASSUME NEW p \in Procs, Inventory(p) PROVE CallType'
  BY <1>9 DEF Inventory
<1>10. ASSUME NEW p \in Procs, SourceChanged(p) PROVE CallType'
  BY <1>10, RefuseKeeps DEF SourceChanged
<1>11. ASSUME NEW p \in Procs, RecoverTemporaries(p) PROVE CallType'
  BY <1>11 DEF RecoverTemporaries
<1>12. ASSUME NEW p \in Procs, WriteJournal(p) PROVE CallType'
  BY <1>12, JournalWritten
<1>13. ASSUME NEW p \in Procs, Subset(p) PROVE CallType'
  <2>1. CASE Refuse(p)
    BY <2>1, RefuseKeeps
  <2>2. CASE ~Refuse(p)
    BY <1>13, <2>2 DEF Subset, Present
  <2>3. QED
    BY <2>1, <2>2
<1>14. ASSUME NEW p \in Procs, CopyFile(p) PROVE CallType'
  <2>1. CASE Refuse(p)
    BY <2>1, RefuseKeeps
  <2>2. CASE ~Refuse(p)
    BY <1>14, <2>2, TreeUpdate DEF CopyFile
  <2>3. QED
    BY <2>1, <2>2
<1>15. ASSUME NEW p \in Procs, Verify(p) PROVE CallType'
  <2>1. CASE Refuse(p)
    BY <2>1, RefuseKeeps
  <2>2. CASE ~Refuse(p)
    BY <1>15, <2>2 DEF Verify
  <2>3. QED
    BY <2>1, <2>2
<1>16. ASSUME NEW p \in Procs, Pend(p) PROVE CallType'
  BY <1>16, PendWritten
<1>17. ASSUME NEW p \in Procs, CheckPending(p) PROVE CallType'
  <2>1. CASE Refuse(p)
    BY <2>1, RefuseKeeps
  <2>2. CASE ~Refuse(p)
    BY <1>17, <2>2 DEF CheckPending
  <2>3. QED
    BY <2>1, <2>2
<1>18. ASSUME NEW p \in Procs, Finalize(p) PROVE CallType'
  <2>1. CASE Refuse(p)
    BY <2>1, RefuseKeeps
  <2>2. CASE ~Refuse(p)
    BY <1>18, <2>2, TreeUpdate DEF Finalize
  <2>3. QED
    BY <2>1, <2>2
<1>19. ASSUME NEW p \in Procs, Clean(p) PROVE CallType'
  BY <1>19 DEF Clean
<1>20. ASSUME NEW p \in Procs, Unmark(p) PROVE CallType'
  BY <1>20, UnmarkIs
<1>21. ASSUME NEW p \in Procs, Launch(p) PROVE CallType'
  BY <1>21 DEF Launch, NoCopyPending
<1>22. ASSUME NEW p \in Procs, Guard(p) PROVE CallType'
  <2>1. CASE Refuse(p)
    BY <2>1, RefuseKeeps
  <2>2. CASE ~Refuse(p)
    BY <1>22, <2>2 DEF Guard
  <2>3. QED
    BY <2>1, <2>2
<1>23. ASSUME NEW p \in Procs, StartObs(p) PROVE CallType'
  BY <1>23 DEF StartObs
<1>24. ASSUME NEW p \in Procs, ObsEnds(p) PROVE CallType'
  BY <1>24, RefuseKeeps DEF ObsEnds
<1>25. ASSUME NEW p \in Procs, Fails(p) PROVE CallType'
  BY <1>25, FailsIs, ReturnIs
<1>26. ASSUME SourceEdited PROVE CallType'
  BY <1>26, SourceEditIs
<1>27. ASSUME DestinationEdited PROVE CallType'
  BY <1>27, TreeUpdate DEF DestinationEdited
<1>28. CASE UNCHANGED vars
  BY <1>28
<1>29. QED
  BY <1>1, <1>2, <1>3, <1>4, <1>5, <1>6, <1>7, <1>8, <1>9, <1>10, <1>11, <1>12, <1>13, <1>14,
      <1>15, <1>16, <1>17, <1>18, <1>19, <1>20, <1>21, <1>22, <1>23, <1>24, <1>25, <1>26, <1>27,
      <1>28 DEF Next, Migrate, Start

(* Every step keeps LockInv.                                                *)
LEMMA NextLockInv == IInv /\ [Next]_vars => LockInv'
<1> SUFFICES ASSUME IInv, [Next]_vars PROVE LockInv'
  OBVIOUS
<1> USE ConstantsAssumption DEF IInv, Types, ControlType, LockInv, Inside, Working, Inventoried,
    Goto, SameWorld, SameCall, Edit, fileVars, callVars, boundVars, vars
<1>1. ASSUME NEW p \in Procs, Probe(p) PROVE LockInv'
  BY <1>1, FirstIsCandidate DEF Probe
<1>2. ASSUME NEW p \in Procs, Lock(p) PROVE LockInv'
  BY <1>2 DEF Lock
<1>3. ASSUME NEW p \in Procs, LockBusy(p) PROVE LockInv'
  BY <1>3, RefuseKeeps DEF LockBusy
<1>4. ASSUME NEW p \in Procs, RecoverPrejournal(p) PROVE LockInv'
  BY <1>4 DEF RecoverPrejournal
<1>5. ASSUME NEW p \in Procs, RefuseLeftovers(p) PROVE LockInv'
  BY <1>5, RefuseKeeps DEF RefuseLeftovers
<1>6. ASSUME NEW p \in Procs, MarkerChanged(p) PROVE LockInv'
  BY <1>6, RefuseKeeps DEF MarkerChanged
<1>7. ASSUME NEW p \in Procs, NothingToDo(p) PROVE LockInv'
  BY <1>7, RefuseKeeps DEF NothingToDo
<1>8. ASSUME NEW p \in Procs, Enter(p) PROVE LockInv'
  <2>1. CASE Refuse(p)
    BY <2>1, RefuseKeeps
  <2>2. CASE ~Refuse(p)
    BY <1>8, <2>2 DEF Enter
  <2>3. QED
    BY <2>1, <2>2
<1>9. ASSUME NEW p \in Procs, Inventory(p) PROVE LockInv'
  BY <1>9 DEF Inventory
<1>10. ASSUME NEW p \in Procs, SourceChanged(p) PROVE LockInv'
  BY <1>10, RefuseKeeps DEF SourceChanged
<1>11. ASSUME NEW p \in Procs, RecoverTemporaries(p) PROVE LockInv'
  BY <1>11 DEF RecoverTemporaries
<1>12. ASSUME NEW p \in Procs, WriteJournal(p) PROVE LockInv'
  BY <1>12, JournalWritten
<1>13. ASSUME NEW p \in Procs, Subset(p) PROVE LockInv'
  <2>1. CASE Refuse(p)
    BY <2>1, RefuseKeeps
  <2>2. CASE ~Refuse(p)
    BY <1>13, <2>2 DEF Subset, Present
  <2>3. QED
    BY <2>1, <2>2
<1>14. ASSUME NEW p \in Procs, CopyFile(p) PROVE LockInv'
  <2>1. CASE Refuse(p)
    BY <2>1, RefuseKeeps
  <2>2. CASE ~Refuse(p)
    BY <1>14, <2>2, TreeUpdate DEF CopyFile
  <2>3. QED
    BY <2>1, <2>2
<1>15. ASSUME NEW p \in Procs, Verify(p) PROVE LockInv'
  <2>1. CASE Refuse(p)
    BY <2>1, RefuseKeeps
  <2>2. CASE ~Refuse(p)
    BY <1>15, <2>2 DEF Verify
  <2>3. QED
    BY <2>1, <2>2
<1>16. ASSUME NEW p \in Procs, Pend(p) PROVE LockInv'
  BY <1>16, PendWritten
<1>17. ASSUME NEW p \in Procs, CheckPending(p) PROVE LockInv'
  <2>1. CASE Refuse(p)
    BY <2>1, RefuseKeeps
  <2>2. CASE ~Refuse(p)
    BY <1>17, <2>2 DEF CheckPending
  <2>3. QED
    BY <2>1, <2>2
<1>18. ASSUME NEW p \in Procs, Finalize(p) PROVE LockInv'
  <2>1. CASE Refuse(p)
    BY <2>1, RefuseKeeps
  <2>2. CASE ~Refuse(p)
    BY <1>18, <2>2, TreeUpdate DEF Finalize
  <2>3. QED
    BY <2>1, <2>2
<1>19. ASSUME NEW p \in Procs, Clean(p) PROVE LockInv'
  BY <1>19 DEF Clean
<1>20. ASSUME NEW p \in Procs, Unmark(p) PROVE LockInv'
  BY <1>20, UnmarkIs
<1>21. ASSUME NEW p \in Procs, Launch(p) PROVE LockInv'
  BY <1>21 DEF Launch, NoCopyPending
<1>22. ASSUME NEW p \in Procs, Guard(p) PROVE LockInv'
  <2>1. CASE Refuse(p)
    BY <2>1, RefuseKeeps
  <2>2. CASE ~Refuse(p)
    BY <1>22, <2>2 DEF Guard
  <2>3. QED
    BY <2>1, <2>2
<1>23. ASSUME NEW p \in Procs, StartObs(p) PROVE LockInv'
  BY <1>23 DEF StartObs
<1>24. ASSUME NEW p \in Procs, ObsEnds(p) PROVE LockInv'
  BY <1>24, RefuseKeeps DEF ObsEnds
<1>25. ASSUME NEW p \in Procs, Fails(p) PROVE LockInv'
  BY <1>25, FailsIs, ReturnIs
<1>26. ASSUME SourceEdited PROVE LockInv'
  BY <1>26, SourceEditIs
<1>27. ASSUME DestinationEdited PROVE LockInv'
  BY <1>27, TreeUpdate DEF DestinationEdited
<1>28. CASE UNCHANGED vars
  BY <1>28
<1>29. QED
  BY <1>1, <1>2, <1>3, <1>4, <1>5, <1>6, <1>7, <1>8, <1>9, <1>10, <1>11, <1>12, <1>13, <1>14,
      <1>15, <1>16, <1>17, <1>18, <1>19, <1>20, <1>21, <1>22, <1>23, <1>24, <1>25, <1>26, <1>27,
      <1>28 DEF Next, Migrate, Start

(* Every step keeps SourceInv.                                              *)
LEMMA NextSourceInv == IInv /\ [Next]_vars => SourceInv'
<1> SUFFICES ASSUME IInv, [Next]_vars PROVE SourceInv'
  OBVIOUS
<1> USE ConstantsAssumption DEF IInv, Types, WorldType, ControlType, CallType, SourceInv,
    Candidates, Journals, Sources, Inside, Working, Inventoried, Goto, SameWorld, SameCall, Edit,
    fileVars, callVars, boundVars, vars
<1>1. ASSUME NEW p \in Procs, Probe(p) PROVE SourceInv'
  BY <1>1, FirstIsCandidate DEF Probe
<1>2. ASSUME NEW p \in Procs, Lock(p) PROVE SourceInv'
  BY <1>2 DEF Lock
<1>3. ASSUME NEW p \in Procs, LockBusy(p) PROVE SourceInv'
  BY <1>3, RefuseKeeps DEF LockBusy
<1>4. ASSUME NEW p \in Procs, RecoverPrejournal(p) PROVE SourceInv'
  BY <1>4 DEF RecoverPrejournal
<1>5. ASSUME NEW p \in Procs, RefuseLeftovers(p) PROVE SourceInv'
  BY <1>5, RefuseKeeps DEF RefuseLeftovers
<1>6. ASSUME NEW p \in Procs, MarkerChanged(p) PROVE SourceInv'
  BY <1>6, RefuseKeeps DEF MarkerChanged
<1>7. ASSUME NEW p \in Procs, NothingToDo(p) PROVE SourceInv'
  BY <1>7, RefuseKeeps DEF NothingToDo
<1>8. ASSUME NEW p \in Procs, Enter(p) PROVE SourceInv'
  <2>1. CASE Refuse(p)
    BY <2>1, RefuseKeeps
  <2>2. CASE ~Refuse(p)
    BY <1>8, <2>2 DEF Enter
  <2>3. QED
    BY <2>1, <2>2
<1>9. ASSUME NEW p \in Procs, Inventory(p) PROVE SourceInv'
  BY <1>9 DEF Inventory
<1>10. ASSUME NEW p \in Procs, SourceChanged(p) PROVE SourceInv'
  BY <1>10, RefuseKeeps DEF SourceChanged
<1>11. ASSUME NEW p \in Procs, RecoverTemporaries(p) PROVE SourceInv'
  BY <1>11 DEF RecoverTemporaries
<1>12. ASSUME NEW p \in Procs, WriteJournal(p) PROVE SourceInv'
  BY <1>12, JournalWritten
<1>13. ASSUME NEW p \in Procs, Subset(p) PROVE SourceInv'
  <2>1. CASE Refuse(p)
    BY <2>1, RefuseKeeps
  <2>2. CASE ~Refuse(p)
    BY <1>13, <2>2 DEF Subset, Present
  <2>3. QED
    BY <2>1, <2>2
<1>14. ASSUME NEW p \in Procs, CopyFile(p) PROVE SourceInv'
  <2>1. CASE Refuse(p)
    BY <2>1, RefuseKeeps
  <2>2. CASE ~Refuse(p)
    BY <1>14, <2>2, TreeUpdate DEF CopyFile
  <2>3. QED
    BY <2>1, <2>2
<1>15. ASSUME NEW p \in Procs, Verify(p) PROVE SourceInv'
  <2>1. CASE Refuse(p)
    BY <2>1, RefuseKeeps
  <2>2. CASE ~Refuse(p)
    BY <1>15, <2>2 DEF Verify
  <2>3. QED
    BY <2>1, <2>2
<1>16. ASSUME NEW p \in Procs, Pend(p) PROVE SourceInv'
  BY <1>16, PendWritten
<1>17. ASSUME NEW p \in Procs, CheckPending(p) PROVE SourceInv'
  <2>1. CASE Refuse(p)
    BY <2>1, RefuseKeeps
  <2>2. CASE ~Refuse(p)
    BY <1>17, <2>2 DEF CheckPending
  <2>3. QED
    BY <2>1, <2>2
<1>18. ASSUME NEW p \in Procs, Finalize(p) PROVE SourceInv'
  <2>1. CASE Refuse(p)
    BY <2>1, RefuseKeeps
  <2>2. CASE ~Refuse(p)
    BY <1>18, <2>2, TreeUpdate DEF Finalize
  <2>3. QED
    BY <2>1, <2>2
<1>19. ASSUME NEW p \in Procs, Clean(p) PROVE SourceInv'
  BY <1>19 DEF Clean
<1>20. ASSUME NEW p \in Procs, Unmark(p) PROVE SourceInv'
  BY <1>20, UnmarkIs
<1>21. ASSUME NEW p \in Procs, Launch(p) PROVE SourceInv'
  BY <1>21 DEF Launch, NoCopyPending
<1>22. ASSUME NEW p \in Procs, Guard(p) PROVE SourceInv'
  <2>1. CASE Refuse(p)
    BY <2>1, RefuseKeeps
  <2>2. CASE ~Refuse(p)
    BY <1>22, <2>2 DEF Guard
  <2>3. QED
    BY <2>1, <2>2
<1>23. ASSUME NEW p \in Procs, StartObs(p) PROVE SourceInv'
  BY <1>23 DEF StartObs
<1>24. ASSUME NEW p \in Procs, ObsEnds(p) PROVE SourceInv'
  BY <1>24, RefuseKeeps DEF ObsEnds
<1>25. ASSUME NEW p \in Procs, Fails(p) PROVE SourceInv'
  BY <1>25, FailsIs, ReturnIs
<1>26. ASSUME SourceEdited PROVE SourceInv'
  BY <1>26, SourceEditIs
<1>27. ASSUME DestinationEdited PROVE SourceInv'
  BY <1>27, TreeUpdate DEF DestinationEdited
<1>28. CASE UNCHANGED vars
  BY <1>28
<1>29. QED
  BY <1>1, <1>2, <1>3, <1>4, <1>5, <1>6, <1>7, <1>8, <1>9, <1>10, <1>11, <1>12, <1>13, <1>14,
      <1>15, <1>16, <1>17, <1>18, <1>19, <1>20, <1>21, <1>22, <1>23, <1>24, <1>25, <1>26, <1>27,
      <1>28 DEF Next, Migrate, Start

(* Every step keeps MarkerInv.                                              *)
LEMMA NextMarkerInv == IInv /\ [Next]_vars => MarkerInv'
<1> SUFFICES ASSUME IInv, [Next]_vars PROVE MarkerInv'
  OBVIOUS
<1> USE ConstantsAssumption DEF IInv, Types, WorldType, ControlType, CallType, LockInv, MarkerInv,
    Inside, Working, Inventoried, Pinned, Goto, SameWorld, SameCall, Edit, fileVars, callVars,
    boundVars, vars
<1>1. ASSUME NEW p \in Procs, Probe(p) PROVE MarkerInv'
  BY <1>1, FirstIsCandidate DEF Probe
<1>2. ASSUME NEW p \in Procs, Lock(p) PROVE MarkerInv'
  BY <1>2 DEF Lock
<1>3. ASSUME NEW p \in Procs, LockBusy(p) PROVE MarkerInv'
  BY <1>3, RefuseKeeps DEF LockBusy
<1>4. ASSUME NEW p \in Procs, RecoverPrejournal(p) PROVE MarkerInv'
  BY <1>4 DEF RecoverPrejournal
<1>5. ASSUME NEW p \in Procs, RefuseLeftovers(p) PROVE MarkerInv'
  BY <1>5, RefuseKeeps DEF RefuseLeftovers
<1>6. ASSUME NEW p \in Procs, MarkerChanged(p) PROVE MarkerInv'
  BY <1>6, RefuseKeeps DEF MarkerChanged
<1>7. ASSUME NEW p \in Procs, NothingToDo(p) PROVE MarkerInv'
  BY <1>7, RefuseKeeps DEF NothingToDo
<1>8. ASSUME NEW p \in Procs, Enter(p) PROVE MarkerInv'
  <2>1. CASE Refuse(p)
    BY <2>1, RefuseKeeps
  <2>2. CASE ~Refuse(p)
    BY <1>8, <2>2 DEF Enter
  <2>3. QED
    BY <2>1, <2>2
<1>9. ASSUME NEW p \in Procs, Inventory(p) PROVE MarkerInv'
  <2>1. /\ pc[p] = "begin" /\ pc'[p] \in {"recover", "journal"} /\ lock = p
        /\ \A q \in Procs \ {p} : pc'[q] = pc[q] /\ pc[q] \notin Inside
        /\ UNCHANGED <<dst, marker, probed>>
    BY <1>9 DEF Inventory
  <2>2. entries' = src[source[p]] /\ entries' \in Trees
    BY <1>9 DEF Inventory, SourceInv
  <2>3. marker # NoJournal => marker.entries = entries'
    BY <1>9, <2>1, <2>2 DEF Inventory
  <2>4. QED
    BY <2>1, <2>2, <2>3
<1>10. ASSUME NEW p \in Procs, SourceChanged(p) PROVE MarkerInv'
  BY <1>10, RefuseKeeps DEF SourceChanged
<1>11. ASSUME NEW p \in Procs, RecoverTemporaries(p) PROVE MarkerInv'
  BY <1>11 DEF RecoverTemporaries
<1>12. ASSUME NEW p \in Procs, WriteJournal(p) PROVE MarkerInv'
  BY <1>12, JournalWritten
<1>13. ASSUME NEW p \in Procs, Subset(p) PROVE MarkerInv'
  <2>1. CASE Refuse(p)
    BY <2>1, RefuseKeeps
  <2>2. CASE ~Refuse(p)
    BY <1>13, <2>2 DEF Subset, Present
  <2>3. QED
    BY <2>1, <2>2
<1>14. ASSUME NEW p \in Procs, CopyFile(p) PROVE MarkerInv'
  <2>1. CASE Refuse(p)
    BY <2>1, RefuseKeeps
  <2>2. CASE ~Refuse(p)
    BY <1>14, <2>2, TreeUpdate DEF CopyFile
  <2>3. QED
    BY <2>1, <2>2
<1>15. ASSUME NEW p \in Procs, Verify(p) PROVE MarkerInv'
  <2>1. CASE Refuse(p)
    BY <2>1, RefuseKeeps
  <2>2. CASE ~Refuse(p)
    BY <1>15, <2>2 DEF Verify
  <2>3. QED
    BY <2>1, <2>2
<1>16. ASSUME NEW p \in Procs, Pend(p) PROVE MarkerInv'
  BY <1>16, PendWritten
<1>17. ASSUME NEW p \in Procs, CheckPending(p) PROVE MarkerInv'
  <2>1. CASE Refuse(p)
    BY <2>1, RefuseKeeps
  <2>2. CASE ~Refuse(p)
    BY <1>17, <2>2 DEF CheckPending
  <2>3. QED
    BY <2>1, <2>2
<1>18. ASSUME NEW p \in Procs, Finalize(p) PROVE MarkerInv'
  <2>1. CASE Refuse(p)
    BY <2>1, RefuseKeeps
  <2>2. CASE ~Refuse(p)
    BY <1>18, <2>2, TreeUpdate DEF Finalize
  <2>3. QED
    BY <2>1, <2>2
<1>19. ASSUME NEW p \in Procs, Clean(p) PROVE MarkerInv'
  BY <1>19 DEF Clean
<1>20. ASSUME NEW p \in Procs, Unmark(p) PROVE MarkerInv'
  <2>1. \A q \in Procs : pc'[q] \notin Inside
    BY <1>20, UnmarkIs
  <2>2. QED
    BY <2>1
<1>21. ASSUME NEW p \in Procs, Launch(p) PROVE MarkerInv'
  BY <1>21 DEF Launch, NoCopyPending
<1>22. ASSUME NEW p \in Procs, Guard(p) PROVE MarkerInv'
  <2>1. CASE Refuse(p)
    BY <2>1, RefuseKeeps
  <2>2. CASE ~Refuse(p)
    BY <1>22, <2>2 DEF Guard
  <2>3. QED
    BY <2>1, <2>2
<1>23. ASSUME NEW p \in Procs, StartObs(p) PROVE MarkerInv'
  BY <1>23 DEF StartObs
<1>24. ASSUME NEW p \in Procs, ObsEnds(p) PROVE MarkerInv'
  BY <1>24, RefuseKeeps DEF ObsEnds
<1>25. ASSUME NEW p \in Procs, Fails(p) PROVE MarkerInv'
  BY <1>25, FailsIs, ReturnIs
<1>26. ASSUME SourceEdited PROVE MarkerInv'
  BY <1>26, SourceEditIs
<1>27. ASSUME DestinationEdited PROVE MarkerInv'
  BY <1>27, TreeUpdate DEF DestinationEdited
<1>28. CASE UNCHANGED vars
  BY <1>28
<1>29. QED
  BY <1>1, <1>2, <1>3, <1>4, <1>5, <1>6, <1>7, <1>8, <1>9, <1>10, <1>11, <1>12, <1>13, <1>14,
      <1>15, <1>16, <1>17, <1>18, <1>19, <1>20, <1>21, <1>22, <1>23, <1>24, <1>25, <1>26, <1>27,
      <1>28 DEF Next, Migrate, Start

(* Every step keeps CopiedInv.                                              *)
LEMMA NextCopiedInv == IInv /\ [Next]_vars => CopiedInv'
<1> SUFFICES ASSUME IInv, [Next]_vars PROVE CopiedInv'
  OBVIOUS
<1> USE ConstantsAssumption DEF IInv, Types, WorldType, ControlType, CallType, LockInv, MarkerInv,
    CopiedInv, Inside, Working, Inventoried, Pinned, Goto, SameWorld, SameCall, Edit, fileVars,
    callVars, boundVars, vars
<1>1. ASSUME NEW p \in Procs, Probe(p) PROVE CopiedInv'
  BY <1>1, FirstIsCandidate DEF Probe
<1>2. ASSUME NEW p \in Procs, Lock(p) PROVE CopiedInv'
  BY <1>2 DEF Lock
<1>3. ASSUME NEW p \in Procs, LockBusy(p) PROVE CopiedInv'
  BY <1>3, RefuseKeeps DEF LockBusy
<1>4. ASSUME NEW p \in Procs, RecoverPrejournal(p) PROVE CopiedInv'
  BY <1>4 DEF RecoverPrejournal
<1>5. ASSUME NEW p \in Procs, RefuseLeftovers(p) PROVE CopiedInv'
  BY <1>5, RefuseKeeps DEF RefuseLeftovers
<1>6. ASSUME NEW p \in Procs, MarkerChanged(p) PROVE CopiedInv'
  BY <1>6, RefuseKeeps DEF MarkerChanged
<1>7. ASSUME NEW p \in Procs, NothingToDo(p) PROVE CopiedInv'
  BY <1>7, RefuseKeeps DEF NothingToDo
<1>8. ASSUME NEW p \in Procs, Enter(p) PROVE CopiedInv'
  <2>1. CASE Refuse(p)
    BY <2>1, RefuseKeeps
  <2>2. CASE ~Refuse(p)
    BY <1>8, <2>2 DEF Enter
  <2>3. QED
    BY <2>1, <2>2
<1>9. ASSUME NEW p \in Procs, Inventory(p) PROVE CopiedInv'
  BY <1>9 DEF Inventory
<1>10. ASSUME NEW p \in Procs, SourceChanged(p) PROVE CopiedInv'
  BY <1>10, RefuseKeeps DEF SourceChanged
<1>11. ASSUME NEW p \in Procs, RecoverTemporaries(p) PROVE CopiedInv'
  BY <1>11 DEF RecoverTemporaries
<1>12. ASSUME NEW p \in Procs, WriteJournal(p) PROVE CopiedInv'
  BY <1>12, JournalWritten
<1>13. ASSUME NEW p \in Procs, Subset(p) PROVE CopiedInv'
  <2>1. CASE Refuse(p)
    BY <2>1, RefuseKeeps
  <2>2. CASE ~Refuse(p)
    BY <1>13, <2>2 DEF Subset, Present
  <2>3. QED
    BY <2>1, <2>2
<1>14. ASSUME NEW p \in Procs, CopyFile(p) PROVE CopiedInv'
  <2>1. CASE Refuse(p)
    BY <2>1, RefuseKeeps
  <2>2. CASE ~Refuse(p)
    BY <1>14, <2>2, TreeUpdate DEF CopyFile
  <2>3. QED
    BY <2>1, <2>2
<1>15. ASSUME NEW p \in Procs, Verify(p) PROVE CopiedInv'
  <2>1. CASE Refuse(p)
    BY <2>1, RefuseKeeps
  <2>2. CASE ~Refuse(p)
    BY <1>15, <2>2 DEF Verify
  <2>3. QED
    BY <2>1, <2>2
<1>16. ASSUME NEW p \in Procs, Pend(p) PROVE CopiedInv'
  BY <1>16, PendWritten
<1>17. ASSUME NEW p \in Procs, CheckPending(p) PROVE CopiedInv'
  <2>1. CASE Refuse(p)
    BY <2>1, RefuseKeeps
  <2>2. CASE ~Refuse(p)
    BY <1>17, <2>2 DEF CheckPending
  <2>3. QED
    BY <2>1, <2>2
<1>18. ASSUME NEW p \in Procs, Finalize(p) PROVE CopiedInv'
  <2>1. CASE Refuse(p)
    BY <2>1, RefuseKeeps
  <2>2. CASE ~Refuse(p)
    <3>1. PICK f \in todo :
            dst' = [dst EXCEPT ![f] = Desired] /\ todo' = todo \ {f} /\ UNCHANGED <<pc, entries>>
      BY <1>18, <2>2 DEF Finalize
    <3>2. pc[p] = "finalize" /\ \A q \in Procs \ {p} : pc[q] \notin Inside
      BY <1>18 DEF Finalize
    <3>3. todo \subseteq Managed
      BY <3>2
    <3>4. \A g \in Files : dst'[g] = IF g = f THEN Desired ELSE dst[g]
      BY <3>1 DEF Trees
    <3>5. Unmanaged(dst') = Unmanaged(dst)
      BY <3>1, <3>3, <3>4 DEF Unmanaged
    <3>6. QED
      BY <3>1, <3>2, <3>3, <3>4, <3>5
  <2>3. QED
    BY <2>1, <2>2
<1>19. ASSUME NEW p \in Procs, Clean(p) PROVE CopiedInv'
  <2>1. /\ pc[p] = "finalize" /\ pc' = [pc EXCEPT ![p] = "unmark"] /\ todo = {}
        /\ dst' = dst /\ entries' = entries
    BY <1>19 DEF Clean
  <2>2. \A f \in Files : dst[f] = IF f \in Managed THEN Desired ELSE entries[f]
    <3>1. ASSUME NEW f \in Files \ Managed PROVE dst[f] = entries[f]
      <4>1. Unmanaged(dst)[f] = Unmanaged(entries)[f]
        BY <2>1
      <4>2. QED
        BY <4>1 DEF Unmanaged
    <3>2. QED
      BY <2>1, <3>1
  <2>3. dst = Settled(entries)
    <3>1. dst = [f \in Files |-> dst[f]]
      BY DEF Trees
    <3>2. QED
      BY <2>2, <3>1 DEF Settled
  <2>4. \A q \in Procs \ {p} : pc'[q] = pc[q]
    BY <2>1
  <2>5. pc'[p] = "unmark" /\ lock = p
    BY <2>1
  <2>6. \A q \in Procs \ {p} : pc[q] \notin Inside
    BY <2>5
  <2>7. QED
    BY <2>1, <2>3, <2>4, <2>5, <2>6
<1>20. ASSUME NEW p \in Procs, Unmark(p) PROVE CopiedInv'
  BY <1>20, UnmarkIs
<1>21. ASSUME NEW p \in Procs, Launch(p) PROVE CopiedInv'
  BY <1>21 DEF Launch, NoCopyPending
<1>22. ASSUME NEW p \in Procs, Guard(p) PROVE CopiedInv'
  <2>1. CASE Refuse(p)
    BY <2>1, RefuseKeeps
  <2>2. CASE ~Refuse(p)
    BY <1>22, <2>2 DEF Guard
  <2>3. QED
    BY <2>1, <2>2
<1>23. ASSUME NEW p \in Procs, StartObs(p) PROVE CopiedInv'
  BY <1>23 DEF StartObs
<1>24. ASSUME NEW p \in Procs, ObsEnds(p) PROVE CopiedInv'
  BY <1>24, RefuseKeeps DEF ObsEnds
<1>25. ASSUME NEW p \in Procs, Fails(p) PROVE CopiedInv'
  BY <1>25, FailsIs, ReturnIs
<1>26. ASSUME SourceEdited PROVE CopiedInv'
  BY <1>26, SourceEditIs
<1>27. ASSUME DestinationEdited PROVE CopiedInv'
  BY <1>27, TreeUpdate DEF DestinationEdited
<1>28. CASE UNCHANGED vars
  BY <1>28
<1>29. QED
  BY <1>1, <1>2, <1>3, <1>4, <1>5, <1>6, <1>7, <1>8, <1>9, <1>10, <1>11, <1>12, <1>13, <1>14,
      <1>15, <1>16, <1>17, <1>18, <1>19, <1>20, <1>21, <1>22, <1>23, <1>24, <1>25, <1>26, <1>27,
      <1>28 DEF Next, Migrate, Start

(* Every step keeps TempsInv.                                               *)
LEMMA NextTempsInv == IInv /\ [Next]_vars => TempsInv'
<1> SUFFICES ASSUME IInv, [Next]_vars PROVE TempsInv'
  OBVIOUS
<1> USE ConstantsAssumption DEF IInv, Types, WorldType, ControlType, LockInv, MarkerInv, TempsInv,
    TemporariesHaveAJournal, Inside, Working, Inventoried, Pinned, Goto, SameWorld, SameCall,
    Edit, fileVars, callVars, boundVars, vars
<1>1. ASSUME NEW p \in Procs, Probe(p) PROVE TempsInv'
  BY <1>1, FirstIsCandidate DEF Probe
<1>2. ASSUME NEW p \in Procs, Lock(p) PROVE TempsInv'
  BY <1>2 DEF Lock
<1>3. ASSUME NEW p \in Procs, LockBusy(p) PROVE TempsInv'
  BY <1>3, RefuseKeeps DEF LockBusy
<1>4. ASSUME NEW p \in Procs, RecoverPrejournal(p) PROVE TempsInv'
  BY <1>4 DEF RecoverPrejournal
<1>5. ASSUME NEW p \in Procs, RefuseLeftovers(p) PROVE TempsInv'
  BY <1>5, RefuseKeeps DEF RefuseLeftovers
<1>6. ASSUME NEW p \in Procs, MarkerChanged(p) PROVE TempsInv'
  BY <1>6, RefuseKeeps DEF MarkerChanged
<1>7. ASSUME NEW p \in Procs, NothingToDo(p) PROVE TempsInv'
  BY <1>7, RefuseKeeps DEF NothingToDo
<1>8. ASSUME NEW p \in Procs, Enter(p) PROVE TempsInv'
  <2>1. CASE Refuse(p)
    BY <2>1, RefuseKeeps
  <2>2. CASE ~Refuse(p)
    BY <1>8, <2>2 DEF Enter
  <2>3. QED
    BY <2>1, <2>2
<1>9. ASSUME NEW p \in Procs, Inventory(p) PROVE TempsInv'
  BY <1>9 DEF Inventory
<1>10. ASSUME NEW p \in Procs, SourceChanged(p) PROVE TempsInv'
  BY <1>10, RefuseKeeps DEF SourceChanged
<1>11. ASSUME NEW p \in Procs, RecoverTemporaries(p) PROVE TempsInv'
  BY <1>11 DEF RecoverTemporaries
<1>12. ASSUME NEW p \in Procs, WriteJournal(p) PROVE TempsInv'
  BY <1>12, JournalWritten
<1>13. ASSUME NEW p \in Procs, Subset(p) PROVE TempsInv'
  <2>1. CASE Refuse(p)
    BY <2>1, RefuseKeeps
  <2>2. CASE ~Refuse(p)
    BY <1>13, <2>2 DEF Subset, Present
  <2>3. QED
    BY <2>1, <2>2
<1>14. ASSUME NEW p \in Procs, CopyFile(p) PROVE TempsInv'
  <2>1. CASE Refuse(p)
    BY <2>1, RefuseKeeps
  <2>2. CASE ~Refuse(p)
    BY <1>14, <2>2, TreeUpdate DEF CopyFile
  <2>3. QED
    BY <2>1, <2>2
<1>15. ASSUME NEW p \in Procs, Verify(p) PROVE TempsInv'
  <2>1. CASE Refuse(p)
    BY <2>1, RefuseKeeps
  <2>2. CASE ~Refuse(p)
    BY <1>15, <2>2 DEF Verify
  <2>3. QED
    BY <2>1, <2>2
<1>16. ASSUME NEW p \in Procs, Pend(p) PROVE TempsInv'
  BY <1>16, PendWritten
<1>17. ASSUME NEW p \in Procs, CheckPending(p) PROVE TempsInv'
  <2>1. CASE Refuse(p)
    BY <2>1, RefuseKeeps
  <2>2. CASE ~Refuse(p)
    BY <1>17, <2>2 DEF CheckPending
  <2>3. QED
    BY <2>1, <2>2
<1>18. ASSUME NEW p \in Procs, Finalize(p) PROVE TempsInv'
  <2>1. CASE Refuse(p)
    BY <2>1, RefuseKeeps
  <2>2. CASE ~Refuse(p)
    BY <1>18, <2>2, TreeUpdate DEF Finalize
  <2>3. QED
    BY <2>1, <2>2
<1>19. ASSUME NEW p \in Procs, Clean(p) PROVE TempsInv'
  BY <1>19 DEF Clean
<1>20. ASSUME NEW p \in Procs, Unmark(p) PROVE TempsInv'
  BY <1>20, UnmarkIs
<1>21. ASSUME NEW p \in Procs, Launch(p) PROVE TempsInv'
  BY <1>21 DEF Launch, NoCopyPending
<1>22. ASSUME NEW p \in Procs, Guard(p) PROVE TempsInv'
  <2>1. CASE Refuse(p)
    BY <2>1, RefuseKeeps
  <2>2. CASE ~Refuse(p)
    BY <1>22, <2>2 DEF Guard
  <2>3. QED
    BY <2>1, <2>2
<1>23. ASSUME NEW p \in Procs, StartObs(p) PROVE TempsInv'
  BY <1>23 DEF StartObs
<1>24. ASSUME NEW p \in Procs, ObsEnds(p) PROVE TempsInv'
  BY <1>24, RefuseKeeps DEF ObsEnds
<1>25. ASSUME NEW p \in Procs, Fails(p) PROVE TempsInv'
  BY <1>25, FailsIs, ReturnIs
<1>26. ASSUME SourceEdited PROVE TempsInv'
  BY <1>26, SourceEditIs
<1>27. ASSUME DestinationEdited PROVE TempsInv'
  BY <1>27, TreeUpdate DEF DestinationEdited
<1>28. CASE UNCHANGED vars
  BY <1>28
<1>29. QED
  BY <1>1, <1>2, <1>3, <1>4, <1>5, <1>6, <1>7, <1>8, <1>9, <1>10, <1>11, <1>12, <1>13, <1>14,
      <1>15, <1>16, <1>17, <1>18, <1>19, <1>20, <1>21, <1>22, <1>23, <1>24, <1>25, <1>26, <1>27,
      <1>28 DEF Next, Migrate, Start

(* Every step keeps UseInv.                                                 *)
LEMMA NextUseInv == IInv /\ [Next]_vars => UseInv'
<1> SUFFICES ASSUME IInv, [Next]_vars PROVE UseInv'
  OBVIOUS
<1> USE ConstantsAssumption DEF IInv, Types, WorldType, ControlType, LockInv, MarkerInv, UseInv,
    InUse, Inside, Working, Inventoried, Pinned, Goto, SameWorld, SameCall, Edit, fileVars,
    callVars, boundVars, vars
<1>1. ASSUME NEW p \in Procs, Probe(p) PROVE UseInv'
  BY <1>1, FirstIsCandidate DEF Probe
<1>2. ASSUME NEW p \in Procs, Lock(p) PROVE UseInv'
  BY <1>2 DEF Lock
<1>3. ASSUME NEW p \in Procs, LockBusy(p) PROVE UseInv'
  BY <1>3, RefuseKeeps DEF LockBusy
<1>4. ASSUME NEW p \in Procs, RecoverPrejournal(p) PROVE UseInv'
  BY <1>4 DEF RecoverPrejournal
<1>5. ASSUME NEW p \in Procs, RefuseLeftovers(p) PROVE UseInv'
  BY <1>5, RefuseKeeps DEF RefuseLeftovers
<1>6. ASSUME NEW p \in Procs, MarkerChanged(p) PROVE UseInv'
  BY <1>6, RefuseKeeps DEF MarkerChanged
<1>7. ASSUME NEW p \in Procs, NothingToDo(p) PROVE UseInv'
  BY <1>7, RefuseKeeps DEF NothingToDo
<1>8. ASSUME NEW p \in Procs, Enter(p) PROVE UseInv'
  <2>1. CASE Refuse(p)
    BY <2>1, RefuseKeeps
  <2>2. CASE ~Refuse(p)
    BY <1>8, <2>2 DEF Enter
  <2>3. QED
    BY <2>1, <2>2
<1>9. ASSUME NEW p \in Procs, Inventory(p) PROVE UseInv'
  BY <1>9 DEF Inventory
<1>10. ASSUME NEW p \in Procs, SourceChanged(p) PROVE UseInv'
  BY <1>10, RefuseKeeps DEF SourceChanged
<1>11. ASSUME NEW p \in Procs, RecoverTemporaries(p) PROVE UseInv'
  BY <1>11 DEF RecoverTemporaries
<1>12. ASSUME NEW p \in Procs, WriteJournal(p) PROVE UseInv'
  BY <1>12, JournalWritten
<1>13. ASSUME NEW p \in Procs, Subset(p) PROVE UseInv'
  <2>1. CASE Refuse(p)
    BY <2>1, RefuseKeeps
  <2>2. CASE ~Refuse(p)
    BY <1>13, <2>2 DEF Subset, Present
  <2>3. QED
    BY <2>1, <2>2
<1>14. ASSUME NEW p \in Procs, CopyFile(p) PROVE UseInv'
  <2>1. CASE Refuse(p)
    BY <2>1, RefuseKeeps
  <2>2. CASE ~Refuse(p)
    BY <1>14, <2>2, TreeUpdate DEF CopyFile
  <2>3. QED
    BY <2>1, <2>2
<1>15. ASSUME NEW p \in Procs, Verify(p) PROVE UseInv'
  <2>1. CASE Refuse(p)
    BY <2>1, RefuseKeeps
  <2>2. CASE ~Refuse(p)
    BY <1>15, <2>2 DEF Verify
  <2>3. QED
    BY <2>1, <2>2
<1>16. ASSUME NEW p \in Procs, Pend(p) PROVE UseInv'
  BY <1>16, PendWritten
<1>17. ASSUME NEW p \in Procs, CheckPending(p) PROVE UseInv'
  <2>1. CASE Refuse(p)
    BY <2>1, RefuseKeeps
  <2>2. CASE ~Refuse(p)
    BY <1>17, <2>2 DEF CheckPending
  <2>3. QED
    BY <2>1, <2>2
<1>18. ASSUME NEW p \in Procs, Finalize(p) PROVE UseInv'
  <2>1. CASE Refuse(p)
    BY <2>1, RefuseKeeps
  <2>2. CASE ~Refuse(p)
    BY <1>18, <2>2, TreeUpdate DEF Finalize
  <2>3. QED
    BY <2>1, <2>2
<1>19. ASSUME NEW p \in Procs, Clean(p) PROVE UseInv'
  BY <1>19 DEF Clean
<1>20. ASSUME NEW p \in Procs, Unmark(p) PROVE UseInv'
  BY <1>20, UnmarkIs
<1>21. ASSUME NEW p \in Procs, Launch(p) PROVE UseInv'
  BY <1>21 DEF Launch, NoCopyPending
<1>22. ASSUME NEW p \in Procs, Guard(p) PROVE UseInv'
  <2>1. CASE Refuse(p)
    BY <2>1, RefuseKeeps
  <2>2. CASE ~Refuse(p)
    BY <1>22, <2>2 DEF Guard
  <2>3. QED
    BY <2>1, <2>2
<1>23. ASSUME NEW p \in Procs, StartObs(p) PROVE UseInv'
  BY <1>23 DEF StartObs
<1>24. ASSUME NEW p \in Procs, ObsEnds(p) PROVE UseInv'
  BY <1>24, RefuseKeeps DEF ObsEnds
<1>25. ASSUME NEW p \in Procs, Fails(p) PROVE UseInv'
  BY <1>25, FailsIs, ReturnIs
<1>26. ASSUME SourceEdited PROVE UseInv'
  BY <1>26, SourceEditIs
<1>27. ASSUME DestinationEdited PROVE UseInv'
  <2>1. pc' = pc /\ marker' = marker /\ (InUse' <=> InUse)
    BY <1>27 DEF DestinationEdited
  <2>2. CASE ~InUse
    BY <2>1, <2>2
  <2>3. CASE InUse
    <3>1. PICK f \in Files \ {Exe}, c \in Contents \union {Absent} : dst' = [dst EXCEPT ![f] = c]
      BY <1>27, <2>3 DEF DestinationEdited
    <3>2. dst'[Exe] = dst[Exe]
      BY <3>1 DEF Trees
    <3>3. QED
      BY <2>1, <2>3, <3>2 DEF Valid
  <2>4. QED
    BY <2>2, <2>3
<1>28. CASE UNCHANGED vars
  BY <1>28
<1>29. QED
  BY <1>1, <1>2, <1>3, <1>4, <1>5, <1>6, <1>7, <1>8, <1>9, <1>10, <1>11, <1>12, <1>13, <1>14,
      <1>15, <1>16, <1>17, <1>18, <1>19, <1>20, <1>21, <1>22, <1>23, <1>24, <1>25, <1>26, <1>27,
      <1>28 DEF Next, Migrate, Start

-----------------------------------------------------------------------------
(* The invariant holds initially.                                           *)
LEMMA InitIInv == Init => IInv
<1> SUFFICES ASSUME Init PROVE IInv
  OBVIOUS
<1>1. Types
  <2>1. src \in [Sources -> Trees] /\ dst \in Trees
    BY ConstantsAssumption DEF Init
  <2>2. WorldType /\ CallType
    BY <2>1, ConstantsAssumption DEF Init, WorldType, CallType
  <2>3. FlagType /\ ControlType
    BY DEF Init, FlagType, ControlType, PCs
  <2>4. QED
    BY <2>2, <2>3 DEF Types
<1>2. LockInv /\ SourceInv /\ MarkerInv /\ CopiedInv
  BY ConstantsAssumption
  DEF Init, LockInv, SourceInv, MarkerInv, CopiedInv, Inside, Working, Inventoried, Pinned
<1>3. TempsInv /\ UseInv
  BY DEF Init, TempsInv, TemporariesHaveAJournal, UseInv, InUse
<1>4. QED
  BY <1>1, <1>2, <1>3 DEF IInv

(* The invariant holds in every reachable state.                            *)
THEOREM Invariance == Spec => []IInv
<1>1. IInv /\ [Next]_vars => IInv'
  BY NextWorldType, NextFlagType, NextControlType, NextCallType, NextLockInv, NextSourceInv,
     NextMarkerInv, NextCopiedInv, NextTempsInv, NextUseInv DEF IInv, Types
<1>2. QED
  BY <1>1, InitIInv, PTL DEF Spec

(* Every variable has its type.                                             *)
THEOREM TypeCorrect == Spec => []TypeOK
<1>1. IInv => TypeOK
  BY TypesAgree DEF IInv
<1>2. QED
  BY <1>1, Invariance, PTL

(* A temporary of a file never outlives the journal, through any number of  *)
(* crashes and failing file operations.                                     *)
THEOREM TemporariesKept == Spec => []TemporariesHaveAJournal
<1>1. IInv => TemporariesHaveAJournal
  BY DEF IInv, TempsInv
<1>2. QED
  BY <1>1, Invariance, PTL

(* While OBS runs from the destination no copy into it is under way.        *)
THEOREM ObsRunsOnWhole == Spec => []RunsOnWhole
<1>1. IInv => RunsOnWhole
  BY DEF IInv, UseInv, InUse, RunsOnWhole
<1>2. QED
  BY <1>1, Invariance, PTL

-----------------------------------------------------------------------------
(* What the journal pins, and what the sources are.                         *)
PinnedTo == IF marker = NoJournal THEN NoJournal ELSE marker.entries
SourceStates == {src[s] : s \in Sources}

(* A step that leaves the sources, the marker and what is seen of the       *)
(* destination alone takes at most the inventory away.                      *)
LEMMA QuietRefines ==
    ASSUME src' = src, marker' = marker, marker = NoJournal => dst' = dst,
           entries' \in {entries, NoJournal}
    PROVE  [Contract!Next]_Contract!vars
  BY DEF Contract!Next, Contract!Leave, Contract!vars

(* A refused call is such a step.                                           *)
LEMMA RefuseRefines ==
    ASSUME IInv, NEW p \in Procs, Refuse(p) PROVE [Contract!Next]_Contract!vars
<1>1. src' = src /\ marker' = marker /\ dst' = dst /\ entries' \in {entries, NoJournal}
  BY RefuseIs, ReturnIs DEF IInv
<1>2. QED
  BY <1>1, QuietRefines

(* The inventory is a state a source has, the pinned one after a restart.   *)
LEMMA InventoryRefines ==
    ASSUME IInv, NEW p \in Procs, Inventory(p) PROVE [Contract!Next]_Contract!vars
<1>1. /\ entries' = src[source[p]] /\ source[p] \in Sources
      /\ probed[p] = marker /\ (marker # NoJournal => marker.entries = src[source[p]])
      /\ UNCHANGED <<src, dst, marker>>
  BY DEF IInv, SourceInv, MarkerInv, Inventory, Goto, Working, SameWorld, fileVars
<1>2. PinnedTo = NoJournal \/ PinnedTo = entries'
  BY <1>1 DEF PinnedTo
<1>3. entries' \in SourceStates
  BY <1>1 DEF SourceStates
<1>4. QED
  BY <1>1, <1>2, <1>3 DEF PinnedTo, SourceStates, Contract!Next, Contract!Take

(* The first journal pins a destination that cannot be used.                *)
LEMMA JournalRefines ==
    ASSUME IInv, NEW p \in Procs, WriteJournal(p) PROVE [Contract!Next]_Contract!vars
<1>1. /\ marker' \in Journals /\ marker'.entries = entries /\ entries \in Trees
      /\ marker # NoJournal => marker.entries = entries
      /\ marker = NoJournal => ~Valid(dst)
      /\ UNCHANGED <<src, dst, entries>>
  BY JournalWritten DEF IInv, MarkerInv, Inventoried
<1>2. marker' # NoJournal
  BY <1>1, ConstantsAssumption
<1>3. CASE marker = NoJournal
  <2>1. CASE entries = NoJournal
    BY <1>1, <2>1, ConstantsAssumption
  <2>2. CASE entries # NoJournal
    BY <1>1, <1>2, <1>3, <2>2 DEF Contract!Next, Contract!Pin
  <2>3. QED
    BY <2>1, <2>2
<1>4. CASE marker # NoJournal
  BY <1>1, <1>2, <1>4 DEF Contract!vars
<1>5. QED
  BY <1>3, <1>4

(* The second journal stands for the same.                                  *)
LEMMA PendRefines ==
    ASSUME IInv, NEW p \in Procs, Pend(p) PROVE [Contract!Next]_Contract!vars
<1>1. /\ marker' \in Journals /\ marker'.entries = entries
      /\ marker \in Journals /\ marker.entries = entries
      /\ UNCHANGED <<src, dst, entries>>
  BY PendWritten DEF IInv, MarkerInv, Pinned
<1>2. QED
  BY <1>1, ConstantsAssumption DEF Contract!vars

(* What is finally shown is the pinned state with the managed files settled.*)
LEMMA UnmarkRefines ==
    ASSUME IInv, NEW p \in Procs, Unmark(p) PROVE [Contract!Next]_Contract!vars
<1>1. /\ pc[p] = "unmark" /\ marker' = NoJournal /\ entries' = NoJournal
      /\ UNCHANGED <<src, dst>>
  BY UnmarkIs
<1>2. /\ marker \in Journals /\ marker.entries = entries /\ entries \in Trees
      /\ dst = Settled(entries)
  BY <1>1 DEF IInv, MarkerInv, CopiedInv, Pinned, Inventoried
<1>3. marker # NoJournal
  BY <1>2, ConstantsAssumption
<1>4. QED
  BY <1>1, <1>2, <1>3 DEF Contract!Next, Contract!Commit

(* Others change the sources.                                               *)
LEMMA SourceRefines == ASSUME IInv, SourceEdited PROVE [Contract!Next]_Contract!vars
<1>1. src' \in [Sources -> Trees] /\ UNCHANGED <<dst, marker, entries>>
  BY SourceEditIs
<1>2. {src'[s] : s \in Sources} \in SUBSET Trees
  BY <1>1
<1>3. QED
  BY <1>1, <1>2 DEF Contract!Next, Contract!Source

(* The user changes the destination.                                        *)
LEMMA DestinationRefines == ASSUME IInv, DestinationEdited PROVE [Contract!Next]_Contract!vars
<1>1. UNCHANGED <<src, marker, entries>>
  BY DEF DestinationEdited, fileVars, callVars
<1>2. dst \in Trees /\ dst' \in Trees
  BY NextWorldType DEF IInv, Types, WorldType, Next
<1>3. CASE marker = NoJournal
  BY <1>1, <1>2, <1>3 DEF Contract!Next, Contract!Edit
<1>4. CASE marker # NoJournal
  BY <1>1, <1>4 DEF Contract!vars
<1>5. QED
  BY <1>3, <1>4

(* Every step is a step of the contract, or none.                           *)
LEMMA NextRefines == IInv /\ [Next]_vars => [Contract!Next]_Contract!vars
<1> SUFFICES ASSUME IInv, [Next]_vars PROVE [Contract!Next]_Contract!vars
  OBVIOUS
<1> USE ConstantsAssumption DEF IInv, Types, MarkerInv, Inventoried, Pinned, Goto, SameWorld,
    SameCall, Edit, fileVars, callVars, boundVars, vars
<1>1. ASSUME NEW p \in Procs, Probe(p) PROVE [Contract!Next]_Contract!vars
  <2>1. /\ src' = src /\ marker' = marker /\ (marker = NoJournal => dst' = dst)
        /\ entries' \in {entries, NoJournal}
    BY <1>1 DEF Probe
  <2>2. QED
    BY <2>1, QuietRefines
<1>2. ASSUME NEW p \in Procs, Lock(p) PROVE [Contract!Next]_Contract!vars
  <2>1. /\ src' = src /\ marker' = marker /\ (marker = NoJournal => dst' = dst)
        /\ entries' \in {entries, NoJournal}
    BY <1>2 DEF Lock
  <2>2. QED
    BY <2>1, QuietRefines
<1>3. ASSUME NEW p \in Procs, LockBusy(p) PROVE [Contract!Next]_Contract!vars
  BY <1>3, RefuseRefines DEF LockBusy
<1>4. ASSUME NEW p \in Procs, RecoverPrejournal(p) PROVE [Contract!Next]_Contract!vars
  <2>1. /\ src' = src /\ marker' = marker /\ (marker = NoJournal => dst' = dst)
        /\ entries' \in {entries, NoJournal}
    BY <1>4 DEF RecoverPrejournal
  <2>2. QED
    BY <2>1, QuietRefines
<1>5. ASSUME NEW p \in Procs, RefuseLeftovers(p) PROVE [Contract!Next]_Contract!vars
  BY <1>5, RefuseRefines DEF RefuseLeftovers
<1>6. ASSUME NEW p \in Procs, MarkerChanged(p) PROVE [Contract!Next]_Contract!vars
  BY <1>6, RefuseRefines DEF MarkerChanged
<1>7. ASSUME NEW p \in Procs, NothingToDo(p) PROVE [Contract!Next]_Contract!vars
  BY <1>7, RefuseRefines DEF NothingToDo
<1>8. ASSUME NEW p \in Procs, Enter(p) PROVE [Contract!Next]_Contract!vars
  <2>1. CASE Refuse(p)
    BY <2>1, RefuseRefines
  <2>2. CASE ~Refuse(p)
    <3>1. /\ src' = src /\ marker' = marker /\ (marker = NoJournal => dst' = dst)
          /\ entries' \in {entries, NoJournal}
      BY <1>8, <2>2 DEF Enter
    <3>2. QED
      BY <3>1, QuietRefines
  <2>3. QED
    BY <2>1, <2>2
<1>9. ASSUME NEW p \in Procs, Inventory(p) PROVE [Contract!Next]_Contract!vars
  BY <1>9, InventoryRefines
<1>10. ASSUME NEW p \in Procs, SourceChanged(p) PROVE [Contract!Next]_Contract!vars
  BY <1>10, RefuseRefines DEF SourceChanged
<1>11. ASSUME NEW p \in Procs, RecoverTemporaries(p) PROVE [Contract!Next]_Contract!vars
  <2>1. /\ src' = src /\ marker' = marker /\ (marker = NoJournal => dst' = dst)
        /\ entries' \in {entries, NoJournal}
    BY <1>11 DEF RecoverTemporaries
  <2>2. QED
    BY <2>1, QuietRefines
<1>12. ASSUME NEW p \in Procs, WriteJournal(p) PROVE [Contract!Next]_Contract!vars
  BY <1>12, JournalRefines
<1>13. ASSUME NEW p \in Procs, Subset(p) PROVE [Contract!Next]_Contract!vars
  <2>1. CASE Refuse(p)
    BY <2>1, RefuseRefines
  <2>2. CASE ~Refuse(p)
    <3>1. /\ src' = src /\ marker' = marker /\ (marker = NoJournal => dst' = dst)
          /\ entries' \in {entries, NoJournal}
      BY <1>13, <2>2 DEF Subset, Present
    <3>2. QED
      BY <3>1, QuietRefines
  <2>3. QED
    BY <2>1, <2>2
<1>14. ASSUME NEW p \in Procs, CopyFile(p) PROVE [Contract!Next]_Contract!vars
  <2>1. CASE Refuse(p)
    BY <2>1, RefuseRefines
  <2>2. CASE ~Refuse(p)
    <3>1. /\ src' = src /\ marker' = marker /\ (marker = NoJournal => dst' = dst)
          /\ entries' \in {entries, NoJournal}
      BY <1>14, <2>2 DEF CopyFile
    <3>2. QED
      BY <3>1, QuietRefines
  <2>3. QED
    BY <2>1, <2>2
<1>15. ASSUME NEW p \in Procs, Verify(p) PROVE [Contract!Next]_Contract!vars
  <2>1. CASE Refuse(p)
    BY <2>1, RefuseRefines
  <2>2. CASE ~Refuse(p)
    <3>1. /\ src' = src /\ marker' = marker /\ (marker = NoJournal => dst' = dst)
          /\ entries' \in {entries, NoJournal}
      BY <1>15, <2>2 DEF Verify
    <3>2. QED
      BY <3>1, QuietRefines
  <2>3. QED
    BY <2>1, <2>2
<1>16. ASSUME NEW p \in Procs, Pend(p) PROVE [Contract!Next]_Contract!vars
  BY <1>16, PendRefines
<1>17. ASSUME NEW p \in Procs, CheckPending(p) PROVE [Contract!Next]_Contract!vars
  <2>1. CASE Refuse(p)
    BY <2>1, RefuseRefines
  <2>2. CASE ~Refuse(p)
    <3>1. /\ src' = src /\ marker' = marker /\ (marker = NoJournal => dst' = dst)
          /\ entries' \in {entries, NoJournal}
      BY <1>17, <2>2 DEF CheckPending
    <3>2. QED
      BY <3>1, QuietRefines
  <2>3. QED
    BY <2>1, <2>2
<1>18. ASSUME NEW p \in Procs, Finalize(p) PROVE [Contract!Next]_Contract!vars
  <2>1. CASE Refuse(p)
    BY <2>1, RefuseRefines
  <2>2. CASE ~Refuse(p)
    <3>1. /\ src' = src /\ marker' = marker /\ (marker = NoJournal => dst' = dst)
          /\ entries' \in {entries, NoJournal}
      BY <1>18, <2>2 DEF Finalize
    <3>2. QED
      BY <3>1, QuietRefines
  <2>3. QED
    BY <2>1, <2>2
<1>19. ASSUME NEW p \in Procs, Clean(p) PROVE [Contract!Next]_Contract!vars
  <2>1. /\ src' = src /\ marker' = marker /\ (marker = NoJournal => dst' = dst)
        /\ entries' \in {entries, NoJournal}
    BY <1>19 DEF Clean
  <2>2. QED
    BY <2>1, QuietRefines
<1>20. ASSUME NEW p \in Procs, Unmark(p) PROVE [Contract!Next]_Contract!vars
  BY <1>20, UnmarkRefines
<1>21. ASSUME NEW p \in Procs, Launch(p) PROVE [Contract!Next]_Contract!vars
  <2>1. /\ src' = src /\ marker' = marker /\ (marker = NoJournal => dst' = dst)
        /\ entries' \in {entries, NoJournal}
    BY <1>21 DEF Launch, NoCopyPending
  <2>2. QED
    BY <2>1, QuietRefines
<1>22. ASSUME NEW p \in Procs, Guard(p) PROVE [Contract!Next]_Contract!vars
  <2>1. CASE Refuse(p)
    BY <2>1, RefuseRefines
  <2>2. CASE ~Refuse(p)
    <3>1. /\ src' = src /\ marker' = marker /\ (marker = NoJournal => dst' = dst)
          /\ entries' \in {entries, NoJournal}
      BY <1>22, <2>2 DEF Guard
    <3>2. QED
      BY <3>1, QuietRefines
  <2>3. QED
    BY <2>1, <2>2
<1>23. ASSUME NEW p \in Procs, StartObs(p) PROVE [Contract!Next]_Contract!vars
  <2>1. /\ src' = src /\ marker' = marker /\ (marker = NoJournal => dst' = dst)
        /\ entries' \in {entries, NoJournal}
    BY <1>23 DEF StartObs
  <2>2. QED
    BY <2>1, QuietRefines
<1>24. ASSUME NEW p \in Procs, ObsEnds(p) PROVE [Contract!Next]_Contract!vars
  BY <1>24, RefuseRefines DEF ObsEnds
<1>25. ASSUME NEW p \in Procs, Fails(p) PROVE [Contract!Next]_Contract!vars
  <2>1. /\ src' = src /\ marker' = marker /\ (marker = NoJournal => dst' = dst)
        /\ entries' \in {entries, NoJournal}
    BY <1>25, FailsIs, ReturnIs
  <2>2. QED
    BY <2>1, QuietRefines
<1>26. ASSUME SourceEdited PROVE [Contract!Next]_Contract!vars
  BY <1>26, SourceRefines
<1>27. ASSUME DestinationEdited PROVE [Contract!Next]_Contract!vars
  BY <1>27, DestinationRefines
<1>28. CASE UNCHANGED vars
  BY <1>28, QuietRefines
<1>29. QED
  BY <1>1, <1>2, <1>3, <1>4, <1>5, <1>6, <1>7, <1>8, <1>9, <1>10, <1>11, <1>12, <1>13, <1>14,
      <1>15, <1>16, <1>17, <1>18, <1>19, <1>20, <1>21, <1>22, <1>23, <1>24, <1>25, <1>26, <1>27,
      <1>28 DEF Next, Migrate, Start


(* The destination keeps its promise.                                       *)
THEOREM CopyImplementsContract == Spec => ImplementsContract
<1>1. Init => Contract!Init
  <2> SUFFICES ASSUME Init PROVE Contract!Init
    OBVIOUS
  <2>1. {src[s] : s \in Sources} \subseteq Trees /\ dst \in Trees
    BY ConstantsAssumption DEF Init
  <2>2. QED
    BY <2>1 DEF Init, Contract!Init
<1>2. IInv /\ [Next]_vars => [Contract!Next]_Contract!vars
  BY NextRefines
<1>3. QED
  BY <1>1, <1>2, Invariance, PTL DEF Spec, ImplementsContract, Contract!Spec

-----------------------------------------------------------------------------
(* A copy that is taken up again.                                           *)

(* Nothing of an earlier call is in the way of who writes.                  *)
ClearInv ==
    \A q \in Procs :
        /\ pc[q] \in {"journal", "subset", "copy", "pend", "check", "finalize"} =>
             temps = {} /\ temp = NoJournal
        /\ pc[q] \in {"begin", "recover"} /\ marker = NoJournal => temps = {} /\ temp = NoJournal
(* The journal is the holder's, and a resumed second phase is in it.        *)
MineInv ==
    \A q \in Procs :
        /\ pc[q] \in Pinned => marker.source = source[q]
        /\ pc[q] = "check" => marker.phase = "finalize_pending"
(* An inventory was one of an OBS that can be started.                      *)
ValidInv ==
    /\ marker # NoJournal => Valid(marker.entries)
    /\ \A q \in Procs : pc[q] \in Inventoried => Valid(entries)
(* What was written so far is what the inventory says.                      *)
WrittenInv ==
    \A q \in Procs : pc[q] = "copy" => \A f \in Files \ todo : dst[f] = entries[f]
(* A finished copy stays what it is, unless somebody changed it.            *)
SettledInv ==
    marker # NoJournal /\ marker.phase = "finalize_pending" /\ ~touched =>
        Unmanaged(dst) = Unmanaged(marker.entries)
ResumeInv == ClearInv /\ MineInv /\ ValidInv /\ WrittenInv /\ SettledInv

(* Whoever is inside is alone.                                              *)
LEMMA Alone ==
    ASSUME IInv, NEW p \in Procs, pc[p] \in Inside
    PROVE  lock = p /\ \A q \in Procs \ {p} : pc[q] \notin Inside
  BY DEF IInv, LockInv

(* Once the journal is gone nobody is inside.                               *)
LEMMA UnmarkLeaves ==
    ASSUME IInv, NEW p \in Procs, Unmark(p)
    PROVE  \A q \in Procs : pc'[q] \notin Inside
<1>1. pc[p] \in Inside
  BY UnmarkIs DEF Inside, Working, Inventoried
<1>2. \A q \in Procs \ {p} : pc[q] \notin Inside
  BY <1>1, Alone
<1>3. pc'[p] = "idle" /\ \A q \in Procs \ {p} : pc'[q] = pc[q]
  BY UnmarkIs
<1>4. QED
  BY <1>2, <1>3 DEF Inside, Working, Inventoried

(* What the journal says when it is written.                                *)
LEMMA JournalSays ==
    ASSUME IInv, NEW p \in Procs, WriteJournal(p)
    PROVE  /\ marker'.source = source[p] /\ marker'.phase = Phase(p) /\ Phase(p) \in Phases
           /\ marker # NoJournal => marker'.phase = marker.phase /\ marker'.entries =
               marker.entries
           /\ marker = NoJournal => marker'.phase = "copying"
<1>1. marker' = Journal(p, Phase(p)) /\ pc[p] = "journal"
  BY DEF WriteJournal, SetMarker, Goto
<1>2. probed[p] = marker /\ marker \in Journals \union {NoJournal}
  BY <1>1 DEF IInv, MarkerInv, Types, WorldType
<1>3. Phase(p) = IF marker = NoJournal THEN "copying" ELSE marker.phase
  BY <1>2 DEF Phase
<1>4. marker # NoJournal => marker.entries = entries
  BY <1>1 DEF IInv, MarkerInv
<1>5. Phase(p) \in Phases
  BY <1>2, <1>3 DEF Phases, Journals
<1>6. QED
  BY <1>1, <1>3, <1>4, <1>5 DEF Journal

(* A refused call keeps what a resumed one relies on.                       *)
LEMMA RefuseKeepsResume == ASSUME IInv, ResumeInv, NEW p \in Procs, Refuse(p) PROVE ResumeInv'
<1>1. UNCHANGED <<src, dst, marker, temp, temps, touched>> /\ pc'[p] = "idle"
  BY RefuseIs, ReturnIs DEF IInv
<1>2. \A q \in Procs \ {p} : pc'[q] = pc[q] /\ source'[q] = source[q]
  BY RefuseIs, ReturnIs DEF IInv
<1>3. ClearInv'
  BY <1>1, <1>2 DEF ResumeInv, ClearInv
<1>4. MineInv'
  BY <1>1, <1>2 DEF ResumeInv, MineInv, Pinned
<1>8. ValidInv'
  <2>1. \A q \in Procs : pc'[q] \in Inventoried => pc[q] \in Inventoried /\ q # p
    BY <1>1, <1>2 DEF Inventoried
  <2>2. \A q \in Procs : pc'[q] \in Inventoried => entries' = entries
    BY <2>1, RefuseIs, ReturnIs DEF IInv, LockInv, Inside, Working
  <2>3. QED
    BY <1>1, <2>1, <2>2 DEF ResumeInv, ValidInv, Valid
<1>5. WrittenInv'
  <2> SUFFICES ASSUME NEW q \in Procs, pc'[q] = "copy" PROVE \A f \in Files \ todo' : dst'[f] =
      entries'[f]
    BY DEF WrittenInv
  <2>1. q # p /\ pc[q] = "copy"
    BY <1>1, <1>2
  <2>2. lock = q
    BY <2>1 DEF IInv, LockInv, Inside, Working, Inventoried
  <2>3. entries' = entries /\ todo' = todo
    BY <2>1, <2>2, RefuseIs, ReturnIs DEF IInv
  <2>4. QED
    BY <1>1, <2>1, <2>3 DEF ResumeInv, WrittenInv
<1>6. SettledInv'
  BY <1>1 DEF ResumeInv, SettledInv, Unmanaged
<1>7. QED
  BY <1>3, <1>4, <1>5, <1>6, <1>8 DEF ResumeInv

(* The start.                                                               *)
LEMMA InitResumeInv == Init => ResumeInv
  BY DEF Init, ResumeInv, ClearInv, MineInv, ValidInv, WrittenInv, SettledInv, Pinned, Inventoried

(* Every step keeps ClearInv.                                               *)
LEMMA NextClearInv == IInv /\ ResumeInv /\ [Next]_vars => ClearInv'
<1> SUFFICES ASSUME IInv, ResumeInv, [Next]_vars PROVE ClearInv'
  OBVIOUS
<1> USE ConstantsAssumption DEF IInv, Types, WorldType, ControlType, LockInv, Inside, Working,
    Inventoried, Pinned, Goto, SameWorld, SameCall, Edit, fileVars, callVars, boundVars, vars,
    ResumeInv, ClearInv, TempsInv, TemporariesHaveAJournal, MarkerInv
<1>1. ASSUME NEW p \in Procs, Probe(p) PROVE ClearInv'
  BY <1>1, FirstIsCandidate DEF Probe
<1>2. ASSUME NEW p \in Procs, Lock(p) PROVE ClearInv'
  BY <1>2 DEF Lock
<1>3. ASSUME NEW p \in Procs, LockBusy(p) PROVE ClearInv'
  BY <1>3, RefuseKeepsResume DEF LockBusy
<1>4. ASSUME NEW p \in Procs, RecoverPrejournal(p) PROVE ClearInv'
  BY <1>4 DEF RecoverPrejournal
<1>5. ASSUME NEW p \in Procs, RefuseLeftovers(p) PROVE ClearInv'
  BY <1>5, RefuseKeepsResume DEF RefuseLeftovers
<1>6. ASSUME NEW p \in Procs, MarkerChanged(p) PROVE ClearInv'
  BY <1>6, RefuseKeepsResume DEF MarkerChanged
<1>7. ASSUME NEW p \in Procs, NothingToDo(p) PROVE ClearInv'
  BY <1>7, RefuseKeepsResume DEF NothingToDo
<1>8. ASSUME NEW p \in Procs, Enter(p) PROVE ClearInv'
  <2>1. CASE Refuse(p)
    BY <2>1, RefuseKeepsResume DEF ResumeInv
  <2>2. CASE ~Refuse(p)
    <3>1. pc' = [pc EXCEPT ![p] = "begin"] /\ UNCHANGED <<marker, temp, temps>>
      BY <1>8, <2>2 DEF Enter
    <3>2. marker = NoJournal => temps = {} /\ temp = NoJournal
      BY <1>8 DEF Enter, Leftovers
    <3>3. QED
      BY <3>1, <3>2
  <2>3. QED
    BY <2>1, <2>2
<1>9. ASSUME NEW p \in Procs, Inventory(p) PROVE ClearInv'
  BY <1>9 DEF Inventory
<1>10. ASSUME NEW p \in Procs, SourceChanged(p) PROVE ClearInv'
  BY <1>10, RefuseKeepsResume DEF SourceChanged
<1>11. ASSUME NEW p \in Procs, RecoverTemporaries(p) PROVE ClearInv'
  BY <1>11 DEF RecoverTemporaries
<1>12. ASSUME NEW p \in Procs, WriteJournal(p) PROVE ClearInv'
  BY <1>12, JournalWritten
<1>13. ASSUME NEW p \in Procs, Subset(p) PROVE ClearInv'
  <2>1. CASE Refuse(p)
    BY <2>1, RefuseKeepsResume
  <2>2. CASE ~Refuse(p)
    BY <1>13, <2>2 DEF Subset, Present
  <2>3. QED
    BY <2>1, <2>2
<1>14. ASSUME NEW p \in Procs, CopyFile(p) PROVE ClearInv'
  <2>1. CASE Refuse(p)
    BY <2>1, RefuseKeepsResume
  <2>2. CASE ~Refuse(p)
    BY <1>14, <2>2, TreeUpdate DEF CopyFile
  <2>3. QED
    BY <2>1, <2>2
<1>15. ASSUME NEW p \in Procs, Verify(p) PROVE ClearInv'
  <2>1. CASE Refuse(p)
    BY <2>1, RefuseKeepsResume
  <2>2. CASE ~Refuse(p)
    BY <1>15, <2>2 DEF Verify
  <2>3. QED
    BY <2>1, <2>2
<1>16. ASSUME NEW p \in Procs, Pend(p) PROVE ClearInv'
  BY <1>16, PendWritten
<1>17. ASSUME NEW p \in Procs, CheckPending(p) PROVE ClearInv'
  <2>1. CASE Refuse(p)
    BY <2>1, RefuseKeepsResume
  <2>2. CASE ~Refuse(p)
    BY <1>17, <2>2 DEF CheckPending
  <2>3. QED
    BY <2>1, <2>2
<1>18. ASSUME NEW p \in Procs, Finalize(p) PROVE ClearInv'
  <2>1. CASE Refuse(p)
    BY <2>1, RefuseKeepsResume
  <2>2. CASE ~Refuse(p)
    BY <1>18, <2>2, TreeUpdate DEF Finalize
  <2>3. QED
    BY <2>1, <2>2
<1>19. ASSUME NEW p \in Procs, Clean(p) PROVE ClearInv'
  BY <1>19 DEF Clean
<1>20. ASSUME NEW p \in Procs, Unmark(p) PROVE ClearInv'
  <2>1. \A q \in Procs : pc'[q] \notin Inside
    BY <1>20, UnmarkLeaves
  <2>2. QED
    BY <2>1
<1>21. ASSUME NEW p \in Procs, Launch(p) PROVE ClearInv'
  BY <1>21 DEF Launch, NoCopyPending
<1>22. ASSUME NEW p \in Procs, Guard(p) PROVE ClearInv'
  <2>1. CASE Refuse(p)
    BY <2>1, RefuseKeepsResume
  <2>2. CASE ~Refuse(p)
    BY <1>22, <2>2 DEF Guard
  <2>3. QED
    BY <2>1, <2>2
<1>23. ASSUME NEW p \in Procs, StartObs(p) PROVE ClearInv'
  BY <1>23 DEF StartObs
<1>24. ASSUME NEW p \in Procs, ObsEnds(p) PROVE ClearInv'
  BY <1>24, RefuseKeepsResume DEF ObsEnds
<1>25. ASSUME NEW p \in Procs, Fails(p) PROVE ClearInv'
  <2>1. pc'[p] = "idle" /\ marker' = marker /\ (\A q \in Procs \ {p} : pc'[q] = pc[q])
    BY <1>25, FailsIs, ReturnIs
  <2>2. CASE pc[p] = "lock"
    <3>1. temps' = temps /\ temp' = temp
      BY <1>25, <2>2 DEF Fails, Leaves
    <3>2. QED
      BY <2>1, <3>1
  <2>3. CASE pc[p] \in Inside
    <3>1. \A q \in Procs : pc'[q] \notin Inside
      BY <2>1, <2>3, Alone
    <3>2. QED
      BY <3>1
  <2>4. QED
    BY <1>25, <2>2, <2>3, FailsIs
<1>26. ASSUME SourceEdited PROVE ClearInv'
  BY <1>26, SourceEditIs
<1>27. ASSUME DestinationEdited PROVE ClearInv'
  BY <1>27, TreeUpdate DEF DestinationEdited
<1>28. CASE UNCHANGED vars
  BY <1>28
<1>29. QED
  BY <1>1, <1>2, <1>3, <1>4, <1>5, <1>6, <1>7, <1>8, <1>9, <1>10, <1>11, <1>12, <1>13, <1>14,
      <1>15, <1>16, <1>17, <1>18, <1>19, <1>20, <1>21, <1>22, <1>23, <1>24, <1>25, <1>26, <1>27,
      <1>28 DEF Next, Migrate, Start

(* Every step keeps MineInv.                                                *)
LEMMA NextMineInv == IInv /\ ResumeInv /\ [Next]_vars => MineInv'
<1> SUFFICES ASSUME IInv, ResumeInv, [Next]_vars PROVE MineInv'
  OBVIOUS
<1> USE ConstantsAssumption DEF IInv, Types, WorldType, ControlType, LockInv, Inside, Working,
    Inventoried, Pinned, Goto, SameWorld, SameCall, Edit, fileVars, callVars, boundVars, vars,
    ResumeInv, MineInv, MarkerInv
<1>1. ASSUME NEW p \in Procs, Probe(p) PROVE MineInv'
  <2>1. pc' = [pc EXCEPT ![p] = "lock"] /\ marker' = marker
    BY <1>1 DEF Probe
  <2>2. \A q \in Procs \ {p} : source'[q] = source[q]
    BY <1>1 DEF Probe, Types, CallType
  <2>3. QED
    BY <2>1, <2>2
<1>2. ASSUME NEW p \in Procs, Lock(p) PROVE MineInv'
  BY <1>2 DEF Lock
<1>3. ASSUME NEW p \in Procs, LockBusy(p) PROVE MineInv'
  BY <1>3, RefuseKeepsResume DEF LockBusy
<1>4. ASSUME NEW p \in Procs, RecoverPrejournal(p) PROVE MineInv'
  BY <1>4 DEF RecoverPrejournal
<1>5. ASSUME NEW p \in Procs, RefuseLeftovers(p) PROVE MineInv'
  BY <1>5, RefuseKeepsResume DEF RefuseLeftovers
<1>6. ASSUME NEW p \in Procs, MarkerChanged(p) PROVE MineInv'
  BY <1>6, RefuseKeepsResume DEF MarkerChanged
<1>7. ASSUME NEW p \in Procs, NothingToDo(p) PROVE MineInv'
  BY <1>7, RefuseKeepsResume DEF NothingToDo
<1>8. ASSUME NEW p \in Procs, Enter(p) PROVE MineInv'
  <2>1. CASE Refuse(p)
    BY <2>1, RefuseKeepsResume
  <2>2. CASE ~Refuse(p)
    BY <1>8, <2>2 DEF Enter
  <2>3. QED
    BY <2>1, <2>2
<1>9. ASSUME NEW p \in Procs, Inventory(p) PROVE MineInv'
  BY <1>9 DEF Inventory
<1>10. ASSUME NEW p \in Procs, SourceChanged(p) PROVE MineInv'
  BY <1>10, RefuseKeepsResume DEF SourceChanged
<1>11. ASSUME NEW p \in Procs, RecoverTemporaries(p) PROVE MineInv'
  BY <1>11 DEF RecoverTemporaries
<1>12. ASSUME NEW p \in Procs, WriteJournal(p) PROVE MineInv'
  <2>1. /\ pc[p] = "journal" /\ source' = source
        /\ pc' = [pc EXCEPT ![p] = IF Phase(p) = "copying" THEN "subset" ELSE "check"]
    BY <1>12, JournalWritten
  <2>2. \A q \in Procs \ {p} : pc'[q] \notin Inside
    BY <2>1, Alone
  <2>3. marker'.source = source'[p] /\ (pc'[p] = "check" => marker'.phase = "finalize_pending")
    BY <1>12, <2>1, JournalSays DEF Phases
  <2>4. QED
    BY <2>2, <2>3
<1>13. ASSUME NEW p \in Procs, Subset(p) PROVE MineInv'
  <2>1. CASE Refuse(p)
    BY <2>1, RefuseKeepsResume
  <2>2. CASE ~Refuse(p)
    BY <1>13, <2>2 DEF Subset, Present
  <2>3. QED
    BY <2>1, <2>2
<1>14. ASSUME NEW p \in Procs, CopyFile(p) PROVE MineInv'
  <2>1. CASE Refuse(p)
    BY <2>1, RefuseKeepsResume
  <2>2. CASE ~Refuse(p)
    BY <1>14, <2>2, TreeUpdate DEF CopyFile
  <2>3. QED
    BY <2>1, <2>2
<1>15. ASSUME NEW p \in Procs, Verify(p) PROVE MineInv'
  <2>1. CASE Refuse(p)
    BY <2>1, RefuseKeepsResume
  <2>2. CASE ~Refuse(p)
    BY <1>15, <2>2 DEF Verify
  <2>3. QED
    BY <2>1, <2>2
<1>16. ASSUME NEW p \in Procs, Pend(p) PROVE MineInv'
  <2>1. pc[p] = "pend" /\ pc' = [pc EXCEPT ![p] = "finalize"] /\ source' = source
    BY <1>16, PendWritten
  <2>2. \A q \in Procs \ {p} : pc'[q] \notin Inside
    BY <2>1, Alone
  <2>3. marker'.source = source[p]
    BY <1>16 DEF Pend, SetMarker, Journal
  <2>4. QED
    BY <2>1, <2>2, <2>3
<1>17. ASSUME NEW p \in Procs, CheckPending(p) PROVE MineInv'
  <2>1. CASE Refuse(p)
    BY <2>1, RefuseKeepsResume
  <2>2. CASE ~Refuse(p)
    BY <1>17, <2>2 DEF CheckPending
  <2>3. QED
    BY <2>1, <2>2
<1>18. ASSUME NEW p \in Procs, Finalize(p) PROVE MineInv'
  <2>1. CASE Refuse(p)
    BY <2>1, RefuseKeepsResume
  <2>2. CASE ~Refuse(p)
    BY <1>18, <2>2, TreeUpdate DEF Finalize
  <2>3. QED
    BY <2>1, <2>2
<1>19. ASSUME NEW p \in Procs, Clean(p) PROVE MineInv'
  BY <1>19 DEF Clean
<1>20. ASSUME NEW p \in Procs, Unmark(p) PROVE MineInv'
  <2>1. \A q \in Procs : pc'[q] \notin Inside
    BY <1>20, UnmarkLeaves
  <2>2. QED
    BY <2>1
<1>21. ASSUME NEW p \in Procs, Launch(p) PROVE MineInv'
  BY <1>21 DEF Launch, NoCopyPending
<1>22. ASSUME NEW p \in Procs, Guard(p) PROVE MineInv'
  <2>1. CASE Refuse(p)
    BY <2>1, RefuseKeepsResume
  <2>2. CASE ~Refuse(p)
    BY <1>22, <2>2 DEF Guard
  <2>3. QED
    BY <2>1, <2>2
<1>23. ASSUME NEW p \in Procs, StartObs(p) PROVE MineInv'
  BY <1>23 DEF StartObs
<1>24. ASSUME NEW p \in Procs, ObsEnds(p) PROVE MineInv'
  BY <1>24, RefuseKeepsResume DEF ObsEnds
<1>25. ASSUME NEW p \in Procs, Fails(p) PROVE MineInv'
  BY <1>25, FailsIs, ReturnIs
<1>26. ASSUME SourceEdited PROVE MineInv'
  BY <1>26, SourceEditIs
<1>27. ASSUME DestinationEdited PROVE MineInv'
  BY <1>27, TreeUpdate DEF DestinationEdited
<1>28. CASE UNCHANGED vars
  BY <1>28
<1>29. QED
  BY <1>1, <1>2, <1>3, <1>4, <1>5, <1>6, <1>7, <1>8, <1>9, <1>10, <1>11, <1>12, <1>13, <1>14,
      <1>15, <1>16, <1>17, <1>18, <1>19, <1>20, <1>21, <1>22, <1>23, <1>24, <1>25, <1>26, <1>27,
      <1>28 DEF Next, Migrate, Start

(* Every step keeps ValidInv.                                               *)
LEMMA NextValidInv == IInv /\ ResumeInv /\ [Next]_vars => ValidInv'
<1> SUFFICES ASSUME IInv, ResumeInv, [Next]_vars PROVE ValidInv'
  OBVIOUS
<1> USE ConstantsAssumption DEF IInv, Types, WorldType, ControlType, LockInv, Inside, Working,
    Inventoried, Pinned, Goto, SameWorld, SameCall, Edit, fileVars, callVars, boundVars, vars,
    ResumeInv, ValidInv, MarkerInv, Valid
<1>1. ASSUME NEW p \in Procs, Probe(p) PROVE ValidInv'
  BY <1>1, FirstIsCandidate DEF Probe
<1>2. ASSUME NEW p \in Procs, Lock(p) PROVE ValidInv'
  BY <1>2 DEF Lock
<1>3. ASSUME NEW p \in Procs, LockBusy(p) PROVE ValidInv'
  BY <1>3, RefuseKeepsResume DEF LockBusy
<1>4. ASSUME NEW p \in Procs, RecoverPrejournal(p) PROVE ValidInv'
  BY <1>4 DEF RecoverPrejournal
<1>5. ASSUME NEW p \in Procs, RefuseLeftovers(p) PROVE ValidInv'
  BY <1>5, RefuseKeepsResume DEF RefuseLeftovers
<1>6. ASSUME NEW p \in Procs, MarkerChanged(p) PROVE ValidInv'
  BY <1>6, RefuseKeepsResume DEF MarkerChanged
<1>7. ASSUME NEW p \in Procs, NothingToDo(p) PROVE ValidInv'
  BY <1>7, RefuseKeepsResume DEF NothingToDo
<1>8. ASSUME NEW p \in Procs, Enter(p) PROVE ValidInv'
  <2>1. CASE Refuse(p)
    BY <2>1, RefuseKeepsResume
  <2>2. CASE ~Refuse(p)
    BY <1>8, <2>2 DEF Enter
  <2>3. QED
    BY <2>1, <2>2
<1>9. ASSUME NEW p \in Procs, Inventory(p) PROVE ValidInv'
  BY <1>9 DEF Inventory
<1>10. ASSUME NEW p \in Procs, SourceChanged(p) PROVE ValidInv'
  BY <1>10, RefuseKeepsResume DEF SourceChanged
<1>11. ASSUME NEW p \in Procs, RecoverTemporaries(p) PROVE ValidInv'
  BY <1>11 DEF RecoverTemporaries
<1>12. ASSUME NEW p \in Procs, WriteJournal(p) PROVE ValidInv'
  BY <1>12, JournalWritten
<1>13. ASSUME NEW p \in Procs, Subset(p) PROVE ValidInv'
  <2>1. CASE Refuse(p)
    BY <2>1, RefuseKeepsResume
  <2>2. CASE ~Refuse(p)
    BY <1>13, <2>2 DEF Subset, Present
  <2>3. QED
    BY <2>1, <2>2
<1>14. ASSUME NEW p \in Procs, CopyFile(p) PROVE ValidInv'
  <2>1. CASE Refuse(p)
    BY <2>1, RefuseKeepsResume
  <2>2. CASE ~Refuse(p)
    BY <1>14, <2>2, TreeUpdate DEF CopyFile
  <2>3. QED
    BY <2>1, <2>2
<1>15. ASSUME NEW p \in Procs, Verify(p) PROVE ValidInv'
  <2>1. CASE Refuse(p)
    BY <2>1, RefuseKeepsResume
  <2>2. CASE ~Refuse(p)
    BY <1>15, <2>2 DEF Verify
  <2>3. QED
    BY <2>1, <2>2
<1>16. ASSUME NEW p \in Procs, Pend(p) PROVE ValidInv'
  BY <1>16, PendWritten
<1>17. ASSUME NEW p \in Procs, CheckPending(p) PROVE ValidInv'
  <2>1. CASE Refuse(p)
    BY <2>1, RefuseKeepsResume
  <2>2. CASE ~Refuse(p)
    BY <1>17, <2>2 DEF CheckPending
  <2>3. QED
    BY <2>1, <2>2
<1>18. ASSUME NEW p \in Procs, Finalize(p) PROVE ValidInv'
  <2>1. CASE Refuse(p)
    BY <2>1, RefuseKeepsResume
  <2>2. CASE ~Refuse(p)
    BY <1>18, <2>2, TreeUpdate DEF Finalize
  <2>3. QED
    BY <2>1, <2>2
<1>19. ASSUME NEW p \in Procs, Clean(p) PROVE ValidInv'
  BY <1>19 DEF Clean
<1>20. ASSUME NEW p \in Procs, Unmark(p) PROVE ValidInv'
  BY <1>20, UnmarkIs
<1>21. ASSUME NEW p \in Procs, Launch(p) PROVE ValidInv'
  BY <1>21 DEF Launch, NoCopyPending
<1>22. ASSUME NEW p \in Procs, Guard(p) PROVE ValidInv'
  <2>1. CASE Refuse(p)
    BY <2>1, RefuseKeepsResume
  <2>2. CASE ~Refuse(p)
    BY <1>22, <2>2 DEF Guard
  <2>3. QED
    BY <2>1, <2>2
<1>23. ASSUME NEW p \in Procs, StartObs(p) PROVE ValidInv'
  BY <1>23 DEF StartObs
<1>24. ASSUME NEW p \in Procs, ObsEnds(p) PROVE ValidInv'
  BY <1>24, RefuseKeepsResume DEF ObsEnds
<1>25. ASSUME NEW p \in Procs, Fails(p) PROVE ValidInv'
  BY <1>25, FailsIs, ReturnIs
<1>26. ASSUME SourceEdited PROVE ValidInv'
  BY <1>26, SourceEditIs
<1>27. ASSUME DestinationEdited PROVE ValidInv'
  BY <1>27, TreeUpdate DEF DestinationEdited
<1>28. CASE UNCHANGED vars
  BY <1>28
<1>29. QED
  BY <1>1, <1>2, <1>3, <1>4, <1>5, <1>6, <1>7, <1>8, <1>9, <1>10, <1>11, <1>12, <1>13, <1>14,
      <1>15, <1>16, <1>17, <1>18, <1>19, <1>20, <1>21, <1>22, <1>23, <1>24, <1>25, <1>26, <1>27,
      <1>28 DEF Next, Migrate, Start

(* Every step keeps WrittenInv.                                             *)
LEMMA NextWrittenInv == IInv /\ ResumeInv /\ [Next]_vars => WrittenInv'
<1> SUFFICES ASSUME IInv, ResumeInv, [Next]_vars PROVE WrittenInv'
  OBVIOUS
<1> USE ConstantsAssumption DEF IInv, Types, WorldType, ControlType, LockInv, Inside, Working,
    Inventoried, Pinned, Goto, SameWorld, SameCall, Edit, fileVars, callVars, boundVars, vars,
    ResumeInv, WrittenInv, MarkerInv
<1>1. ASSUME NEW p \in Procs, Probe(p) PROVE WrittenInv'
  BY <1>1, FirstIsCandidate DEF Probe
<1>2. ASSUME NEW p \in Procs, Lock(p) PROVE WrittenInv'
  BY <1>2 DEF Lock
<1>3. ASSUME NEW p \in Procs, LockBusy(p) PROVE WrittenInv'
  BY <1>3, RefuseKeepsResume DEF LockBusy
<1>4. ASSUME NEW p \in Procs, RecoverPrejournal(p) PROVE WrittenInv'
  BY <1>4 DEF RecoverPrejournal
<1>5. ASSUME NEW p \in Procs, RefuseLeftovers(p) PROVE WrittenInv'
  BY <1>5, RefuseKeepsResume DEF RefuseLeftovers
<1>6. ASSUME NEW p \in Procs, MarkerChanged(p) PROVE WrittenInv'
  BY <1>6, RefuseKeepsResume DEF MarkerChanged
<1>7. ASSUME NEW p \in Procs, NothingToDo(p) PROVE WrittenInv'
  BY <1>7, RefuseKeepsResume DEF NothingToDo
<1>8. ASSUME NEW p \in Procs, Enter(p) PROVE WrittenInv'
  <2>1. CASE Refuse(p)
    BY <2>1, RefuseKeepsResume
  <2>2. CASE ~Refuse(p)
    BY <1>8, <2>2 DEF Enter
  <2>3. QED
    BY <2>1, <2>2
<1>9. ASSUME NEW p \in Procs, Inventory(p) PROVE WrittenInv'
  BY <1>9 DEF Inventory
<1>10. ASSUME NEW p \in Procs, SourceChanged(p) PROVE WrittenInv'
  BY <1>10, RefuseKeepsResume DEF SourceChanged
<1>11. ASSUME NEW p \in Procs, RecoverTemporaries(p) PROVE WrittenInv'
  BY <1>11 DEF RecoverTemporaries
<1>12. ASSUME NEW p \in Procs, WriteJournal(p) PROVE WrittenInv'
  BY <1>12, JournalWritten
<1>13. ASSUME NEW p \in Procs, Subset(p) PROVE WrittenInv'
  <2>1. CASE Refuse(p)
    BY <2>1, RefuseKeepsResume
  <2>2. CASE ~Refuse(p)
    BY <1>13, <2>2 DEF Subset, Present
  <2>3. QED
    BY <2>1, <2>2
<1>14. ASSUME NEW p \in Procs, CopyFile(p) PROVE WrittenInv'
  <2>1. CASE Refuse(p)
    BY <2>1, RefuseKeepsResume DEF ResumeInv
  <2>2. CASE ~Refuse(p)
    <3>1. PICK f \in todo : dst' = [dst EXCEPT ![f] = entries[f]] /\ todo' = todo \ {f}
                            /\ UNCHANGED <<pc, entries>>
      BY <1>14, <2>2 DEF CopyFile
    <3>2. pc[p] = "copy" /\ (\A q \in Procs \ {p} : pc[q] # "copy")
      BY <1>14, Alone DEF CopyFile
    <3>3. \A g \in Files \ todo : dst[g] = entries[g]
      BY <3>2
    <3>4. todo \subseteq Files /\ f \in Files
      BY DEF Types, CallType
    <3>5. \A g \in Files \ todo' : dst'[g] = entries'[g]
      BY <3>1, <3>3, <3>4 DEF Trees
    <3>6. QED
      BY <3>1, <3>2, <3>5
  <2>3. QED
    BY <2>1, <2>2
<1>15. ASSUME NEW p \in Procs, Verify(p) PROVE WrittenInv'
  <2>1. CASE Refuse(p)
    BY <2>1, RefuseKeepsResume
  <2>2. CASE ~Refuse(p)
    BY <1>15, <2>2 DEF Verify
  <2>3. QED
    BY <2>1, <2>2
<1>16. ASSUME NEW p \in Procs, Pend(p) PROVE WrittenInv'
  BY <1>16, PendWritten
<1>17. ASSUME NEW p \in Procs, CheckPending(p) PROVE WrittenInv'
  <2>1. CASE Refuse(p)
    BY <2>1, RefuseKeepsResume
  <2>2. CASE ~Refuse(p)
    BY <1>17, <2>2 DEF CheckPending
  <2>3. QED
    BY <2>1, <2>2
<1>18. ASSUME NEW p \in Procs, Finalize(p) PROVE WrittenInv'
  <2>1. CASE Refuse(p)
    BY <2>1, RefuseKeepsResume
  <2>2. CASE ~Refuse(p)
    BY <1>18, <2>2, TreeUpdate DEF Finalize
  <2>3. QED
    BY <2>1, <2>2
<1>19. ASSUME NEW p \in Procs, Clean(p) PROVE WrittenInv'
  BY <1>19 DEF Clean
<1>20. ASSUME NEW p \in Procs, Unmark(p) PROVE WrittenInv'
  <2>1. \A q \in Procs : pc'[q] \notin Inside
    BY <1>20, UnmarkLeaves
  <2>2. QED
    BY <2>1
<1>21. ASSUME NEW p \in Procs, Launch(p) PROVE WrittenInv'
  BY <1>21 DEF Launch, NoCopyPending
<1>22. ASSUME NEW p \in Procs, Guard(p) PROVE WrittenInv'
  <2>1. CASE Refuse(p)
    BY <2>1, RefuseKeepsResume
  <2>2. CASE ~Refuse(p)
    BY <1>22, <2>2 DEF Guard
  <2>3. QED
    BY <2>1, <2>2
<1>23. ASSUME NEW p \in Procs, StartObs(p) PROVE WrittenInv'
  BY <1>23 DEF StartObs
<1>24. ASSUME NEW p \in Procs, ObsEnds(p) PROVE WrittenInv'
  BY <1>24, RefuseKeepsResume DEF ObsEnds
<1>25. ASSUME NEW p \in Procs, Fails(p) PROVE WrittenInv'
  BY <1>25, FailsIs, ReturnIs
<1>26. ASSUME SourceEdited PROVE WrittenInv'
  BY <1>26, SourceEditIs
<1>27. ASSUME DestinationEdited PROVE WrittenInv'
  BY <1>27, TreeUpdate DEF DestinationEdited
<1>28. CASE UNCHANGED vars
  BY <1>28
<1>29. QED
  BY <1>1, <1>2, <1>3, <1>4, <1>5, <1>6, <1>7, <1>8, <1>9, <1>10, <1>11, <1>12, <1>13, <1>14,
      <1>15, <1>16, <1>17, <1>18, <1>19, <1>20, <1>21, <1>22, <1>23, <1>24, <1>25, <1>26, <1>27,
      <1>28 DEF Next, Migrate, Start

(* Every step keeps SettledInv.                                             *)
LEMMA NextSettledInv == IInv /\ ResumeInv /\ [Next]_vars => SettledInv'
<1> SUFFICES ASSUME IInv, ResumeInv, [Next]_vars PROVE SettledInv'
  OBVIOUS
<1> USE ConstantsAssumption DEF IInv, Types, WorldType, ControlType, LockInv, Inside, Working,
    Inventoried, Pinned, Goto, SameWorld, SameCall, Edit, fileVars, callVars, boundVars, vars,
    ResumeInv, SettledInv, MarkerInv, CopiedInv, FlagType, Unmanaged
<1>1. ASSUME NEW p \in Procs, Probe(p) PROVE SettledInv'
  BY <1>1, FirstIsCandidate DEF Probe
<1>2. ASSUME NEW p \in Procs, Lock(p) PROVE SettledInv'
  BY <1>2 DEF Lock
<1>3. ASSUME NEW p \in Procs, LockBusy(p) PROVE SettledInv'
  BY <1>3, RefuseKeepsResume DEF LockBusy
<1>4. ASSUME NEW p \in Procs, RecoverPrejournal(p) PROVE SettledInv'
  BY <1>4 DEF RecoverPrejournal
<1>5. ASSUME NEW p \in Procs, RefuseLeftovers(p) PROVE SettledInv'
  BY <1>5, RefuseKeepsResume DEF RefuseLeftovers
<1>6. ASSUME NEW p \in Procs, MarkerChanged(p) PROVE SettledInv'
  BY <1>6, RefuseKeepsResume DEF MarkerChanged
<1>7. ASSUME NEW p \in Procs, NothingToDo(p) PROVE SettledInv'
  BY <1>7, RefuseKeepsResume DEF NothingToDo
<1>8. ASSUME NEW p \in Procs, Enter(p) PROVE SettledInv'
  <2>1. CASE Refuse(p)
    BY <2>1, RefuseKeepsResume
  <2>2. CASE ~Refuse(p)
    BY <1>8, <2>2 DEF Enter
  <2>3. QED
    BY <2>1, <2>2
<1>9. ASSUME NEW p \in Procs, Inventory(p) PROVE SettledInv'
  BY <1>9 DEF Inventory
<1>10. ASSUME NEW p \in Procs, SourceChanged(p) PROVE SettledInv'
  BY <1>10, RefuseKeepsResume DEF SourceChanged
<1>11. ASSUME NEW p \in Procs, RecoverTemporaries(p) PROVE SettledInv'
  BY <1>11 DEF RecoverTemporaries
<1>12. ASSUME NEW p \in Procs, WriteJournal(p) PROVE SettledInv'
  <2>1. dst' = dst /\ touched' = touched
    BY <1>12, JournalWritten
  <2>2. QED
    BY <1>12, <2>1, JournalSays
<1>13. ASSUME NEW p \in Procs, Subset(p) PROVE SettledInv'
  <2>1. CASE Refuse(p)
    BY <2>1, RefuseKeepsResume
  <2>2. CASE ~Refuse(p)
    BY <1>13, <2>2 DEF Subset, Present
  <2>3. QED
    BY <2>1, <2>2
<1>14. ASSUME NEW p \in Procs, CopyFile(p) PROVE SettledInv'
  <2>1. CASE Refuse(p)
    BY <2>1, RefuseKeepsResume DEF ResumeInv
  <2>2. CASE ~Refuse(p)
    <3>1. PICK f \in todo : dst' = [dst EXCEPT ![f] = entries[f]]
      BY <1>14, <2>2 DEF CopyFile
    <3>2. UNCHANGED <<marker, touched>> /\ pc[p] = "copy"
      BY <1>14, <2>2 DEF CopyFile
    <3>3. marker.entries = entries
      BY <3>2
    <3>4. Unmanaged(dst) = Unmanaged(entries) => Unmanaged(dst') = Unmanaged(entries)
      <4>1. ASSUME NEW g \in Files \ Managed, dst[g] = entries[g] PROVE dst'[g] = entries[g]
        BY <3>1, <4>1 DEF Trees
      <4>2. SUFFICES ASSUME Unmanaged(dst) = Unmanaged(entries)
                     PROVE  \A g \in Files \ Managed : dst'[g] = entries[g]
        OBVIOUS
      <4>3. \A g \in Files \ Managed : dst[g] = entries[g]
        <5>1. ASSUME NEW g \in Files \ Managed PROVE Unmanaged(dst)[g] = dst[g] /\
            Unmanaged(entries)[g] = entries[g]
          OBVIOUS
        <5>2. QED
          BY <4>2, <5>1
      <4>4. QED
        BY <4>1, <4>3
    <3>5. QED
      BY <3>2, <3>3, <3>4
  <2>3. QED
    BY <2>1, <2>2
<1>15. ASSUME NEW p \in Procs, Verify(p) PROVE SettledInv'
  <2>1. CASE Refuse(p)
    BY <2>1, RefuseKeepsResume
  <2>2. CASE ~Refuse(p)
    BY <1>15, <2>2 DEF Verify
  <2>3. QED
    BY <2>1, <2>2
<1>16. ASSUME NEW p \in Procs, Pend(p) PROVE SettledInv'
  BY <1>16, PendWritten
<1>17. ASSUME NEW p \in Procs, CheckPending(p) PROVE SettledInv'
  <2>1. CASE Refuse(p)
    BY <2>1, RefuseKeepsResume
  <2>2. CASE ~Refuse(p)
    BY <1>17, <2>2 DEF CheckPending
  <2>3. QED
    BY <2>1, <2>2
<1>18. ASSUME NEW p \in Procs, Finalize(p) PROVE SettledInv'
  <2>1. CASE Refuse(p)
    BY <2>1, RefuseKeepsResume DEF ResumeInv
  <2>2. CASE ~Refuse(p)
    <3>1. PICK f \in todo : dst' = [dst EXCEPT ![f] = Desired]
      BY <1>18, <2>2 DEF Finalize
    <3>2. UNCHANGED <<marker, touched>> /\ pc[p] = "finalize"
      BY <1>18, <2>2 DEF Finalize
    <3>3. f \in Managed
      BY <3>2
    <3>4. Unmanaged(dst') = Unmanaged(dst)
      BY <3>1, <3>3 DEF Trees
    <3>5. QED
      BY <3>2, <3>4
  <2>3. QED
    BY <2>1, <2>2
<1>19. ASSUME NEW p \in Procs, Clean(p) PROVE SettledInv'
  BY <1>19 DEF Clean
<1>20. ASSUME NEW p \in Procs, Unmark(p) PROVE SettledInv'
  BY <1>20, UnmarkIs
<1>21. ASSUME NEW p \in Procs, Launch(p) PROVE SettledInv'
  BY <1>21 DEF Launch, NoCopyPending
<1>22. ASSUME NEW p \in Procs, Guard(p) PROVE SettledInv'
  <2>1. CASE Refuse(p)
    BY <2>1, RefuseKeepsResume
  <2>2. CASE ~Refuse(p)
    BY <1>22, <2>2 DEF Guard
  <2>3. QED
    BY <2>1, <2>2
<1>23. ASSUME NEW p \in Procs, StartObs(p) PROVE SettledInv'
  BY <1>23 DEF StartObs
<1>24. ASSUME NEW p \in Procs, ObsEnds(p) PROVE SettledInv'
  BY <1>24, RefuseKeepsResume DEF ObsEnds
<1>25. ASSUME NEW p \in Procs, Fails(p) PROVE SettledInv'
  BY <1>25, FailsIs, ReturnIs
<1>26. ASSUME SourceEdited PROVE SettledInv'
  BY <1>26, SourceEditIs
<1>27. ASSUME DestinationEdited PROVE SettledInv'
  BY <1>27, TreeUpdate DEF DestinationEdited
<1>28. CASE UNCHANGED vars
  BY <1>28
<1>29. QED
  BY <1>1, <1>2, <1>3, <1>4, <1>5, <1>6, <1>7, <1>8, <1>9, <1>10, <1>11, <1>12, <1>13, <1>14,
      <1>15, <1>16, <1>17, <1>18, <1>19, <1>20, <1>21, <1>22, <1>23, <1>24, <1>25, <1>26, <1>27,
      <1>28 DEF Next, Migrate, Start

(* Whoever is past the inventory, or before it with a journal there, is     *)
(* refused only when the user is needed.                                    *)
LEMMA RefusedForUser ==
    ASSUME IInv, ResumeInv, NEW p \in Procs, Migrate(p), pc[p] \in Working,
           marker # NoJournal, ~NeedsUser, pc'[p] = "idle"
    PROVE  marker' = NoJournal
<1> USE DEF Working, Inventoried
<1>1. /\ ~touched /\ src[marker.source] = marker.entries
      /\ Present(dst) \subseteq Present(marker.entries)
  BY DEF NeedsUser
<1>2. pc[p] \in Pinned => marker.entries = entries /\ marker.source = source[p]
  BY DEF IInv, MarkerInv, ResumeInv, MineInv
<1>3. pc \in [Procs -> PCs]
  BY DEF IInv, Types, ControlType
<1>4. CASE pc[p] = "begin"
  <2>1. probed[p] = marker /\ source[p] = marker.source /\ marker \in Journals /\ source[p] \in
      Sources
    BY <1>4 DEF IInv, MarkerInv, SourceInv, Inside, Types, WorldType
  <2>2. src[source[p]] = probed[p].entries
    BY <1>1, <2>1
  <2>3. ~Inventory(p)
    BY <1>3 DEF Inventory, Goto
  <2>4. SourceChanged(p)
    BY <1>4, <2>3 DEF Migrate, Probe, Lock, LockBusy, RecoverPrejournal, RefuseLeftovers,
       MarkerChanged, NothingToDo, Enter, RecoverTemporaries, WriteJournal, Subset, CopyFile,
       Verify, Pend, CheckPending, Finalize, Clean, Unmark, Goto
  <2>5. ~Valid(src[source[p]])
    BY <2>1, <2>2, <2>4 DEF SourceChanged
  <2>6. QED
    BY <1>1, <2>1, <2>5 DEF ResumeInv, ValidInv
<1>5. CASE pc[p] \in {"recover", "journal", "pend"}
  <2>1. pc'[p] # "idle"
    BY <1>3, <1>5 DEF Migrate, Probe, Lock, LockBusy, RecoverPrejournal, RefuseLeftovers,
       MarkerChanged, NothingToDo, Enter, Inventory, SourceChanged, RecoverTemporaries,
           WriteJournal,
       Subset, CopyFile, Verify, Pend, CheckPending, Finalize, Clean, Unmark, Goto
  <2>2. QED
    BY <2>1
<1>6. CASE pc[p] = "subset"
  <2>1. Present(dst) \subseteq Present(entries) /\ temps = {}
    BY <1>1, <1>2, <1>6 DEF Pinned, ResumeInv, ClearInv
  <2>2. Subset(p)
    BY <1>6 DEF Migrate, Probe, Lock, LockBusy, RecoverPrejournal, RefuseLeftovers,
       MarkerChanged, NothingToDo, Enter, Inventory, SourceChanged, RecoverTemporaries,
           WriteJournal,
       CopyFile, Verify, Pend, CheckPending, Finalize, Clean, Unmark, Goto
  <2>3. QED
    BY <1>3, <2>1, <2>2 DEF Subset, Goto
<1>7. CASE pc[p] = "copy"
  <2>1. src[source[p]] = entries /\ temps = {}
    BY <1>1, <1>2, <1>7 DEF Pinned, ResumeInv, ClearInv
  <2>2. CopyFile(p) \/ Verify(p)
    BY <1>7 DEF Migrate, Probe, Lock, LockBusy, RecoverPrejournal, RefuseLeftovers,
       MarkerChanged, NothingToDo, Enter, Inventory, SourceChanged, RecoverTemporaries,
           WriteJournal,
       Subset, Pend, CheckPending, Finalize, Clean, Unmark, Goto
  <2>3. CASE CopyFile(p)
    <3>1. pc' = pc
      BY <2>1, <2>3 DEF CopyFile
    <3>2. QED
      BY <1>7, <3>1
  <2>4. CASE Verify(p)
    <3>1. todo = {}
      BY <2>4 DEF Verify
    <3>2. \A f \in Files : dst[f] = entries[f]
      BY <1>7, <3>1 DEF ResumeInv, WrittenInv
    <3>3. dst \in Trees /\ entries \in Trees
      BY <1>7 DEF IInv, Types, WorldType, MarkerInv
    <3>4. dst = entries
      BY <3>2, <3>3 DEF Trees
    <3>5. QED
      BY <1>3, <2>1, <2>4, <3>1, <3>4 DEF Verify, Goto
  <2>5. QED
    BY <2>2, <2>3, <2>4
<1>8. CASE pc[p] = "check"
  <2>1. Unmanaged(dst) = Unmanaged(entries)
    BY <1>1, <1>2, <1>8 DEF Pinned, ResumeInv, MineInv, SettledInv
  <2>2. CheckPending(p)
    BY <1>8 DEF Migrate, Probe, Lock, LockBusy, RecoverPrejournal, RefuseLeftovers,
       MarkerChanged, NothingToDo, Enter, Inventory, SourceChanged, RecoverTemporaries,
           WriteJournal,
       Subset, CopyFile, Verify, Pend, Finalize, Clean, Unmark, Goto
  <2>3. QED
    BY <1>3, <2>1, <2>2 DEF CheckPending, Goto
<1>9. CASE pc[p] = "finalize"
  <2>1. temps = {}
    BY <1>9 DEF ResumeInv, ClearInv
  <2>2. Finalize(p) \/ Clean(p)
    BY <1>9 DEF Migrate, Probe, Lock, LockBusy, RecoverPrejournal, RefuseLeftovers,
       MarkerChanged, NothingToDo, Enter, Inventory, SourceChanged, RecoverTemporaries,
           WriteJournal,
       Subset, CopyFile, Verify, Pend, CheckPending, Unmark, Goto
  <2>3. CASE Finalize(p)
    <3>1. pc' = pc
      BY <2>1, <2>3 DEF Finalize
    <3>2. QED
      BY <1>9, <3>1
  <2>4. CASE Clean(p)
    BY <1>3, <2>4 DEF Clean, Goto
  <2>5. QED
    BY <2>2, <2>3, <2>4
<1>10. CASE pc[p] = "unmark"
  BY <1>10, UnmarkIs DEF Migrate, Probe, Lock, LockBusy, RecoverPrejournal, RefuseLeftovers,
     MarkerChanged, NothingToDo, Enter, Inventory, SourceChanged, RecoverTemporaries,
         WriteJournal,
     Subset, CopyFile, Verify, Pend, CheckPending, Finalize, Clean, Goto
<1>11. QED
  BY <1>4, <1>5, <1>6, <1>7, <1>8, <1>9, <1>10

(* What a resumed copy relies on holds in every reachable state.            *)
LEMMA ResumeInvariance == Spec => [](IInv /\ ResumeInv)
<1>1. IInv /\ ResumeInv /\ [Next]_vars => ResumeInv'
  BY NextClearInv, NextMineInv, NextValidInv, NextWrittenInv, NextSettledInv DEF ResumeInv
<1>2. QED
  BY <1>1, InitResumeInv, Invariance, PTL DEF Spec

(* A copy that is taken up again is refused only for the user's sake: none  *)
(* of its own checks ends the call of the process that holds the lock,      *)
(* unless source or destination was changed.                                *)
THEOREM ResumedToTheEnd == Spec => ResumeIsNotRefused
<1>1. IInv /\ ResumeInv /\ [Next]_vars =>
        [\A p \in Procs :
            Migrate(p) /\ pc[p] \in Inventoried \union {"begin"} /\ marker # NoJournal
                /\ ~NeedsUser
              => pc'[p] # "idle" \/ marker' = NoJournal]_vars
  BY RefusedForUser DEF Working
<1>2. QED
  BY <1>1, ResumeInvariance, PTL DEF Spec, ResumeIsNotRefused

=============================================================================
