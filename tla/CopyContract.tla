---------------------------- MODULE CopyContract ----------------------------
(* What the copy migration promises about the destination.  Whoever may use  *)
(* it sees what the user put there, or the whole of one state that a source  *)
(* really had, with the managed files settled; between the first and the     *)
(* last file of a copy it shows nothing, through any number of crashes, and  *)
(* what is finally shown is the state the interrupted copy was pinned to.    *)
CONSTANTS
    Trees,          \* states of an installation
    Nothing,        \* none of them
    Usable(_),      \* OBS can be started from it
    Settled(_)      \* a copy after the managed files were written

VARIABLES
    sources,  \* the states of the sources
    snapshot, \* the inventory of the process at work
    pinned,   \* what the journal stands for
    view      \* the destination, Nothing while a copy is under way

vars == <<sources, snapshot, pinned, view>>

Init == /\ sources \subseteq Trees /\ snapshot = Nothing /\ pinned = Nothing /\ view \in Trees

(* Owners of the sources and of the destination change them.                 *)
Source == sources' \in SUBSET Trees /\ UNCHANGED <<snapshot, pinned, view>>
Edit == view \in Trees /\ view' \in Trees /\ UNCHANGED <<sources, snapshot, pinned>>

Take == \E t \in sources : /\ snapshot' = t /\ (pinned = Nothing \/ pinned = t)
                           /\ UNCHANGED <<sources, pinned, view>>
Leave == snapshot' = Nothing /\ UNCHANGED <<sources, pinned, view>>

Pin == /\ pinned = Nothing /\ snapshot \in Trees /\ ~Usable(view)
       /\ pinned' = snapshot /\ view' = Nothing /\ UNCHANGED <<sources, snapshot>>

(* The process may end with the commit, or with a failure after it.          *)
Commit == /\ pinned \in Trees /\ view' = Settled(pinned)
          /\ pinned' = Nothing /\ snapshot' = Nothing /\ UNCHANGED sources

Next == Source \/ Edit \/ Take \/ Leave \/ Pin \/ Commit

Spec == Init /\ [][Next]_vars
=============================================================================
