---------------------------- MODULE LeaseContract ----------------------------
(* What the ownership lease promises, whatever the applications, the crashes *)
(* and the reuse of process ids in between: the application starts an OBS    *)
(* only when none that it started runs and no lease exists; a lease names an *)
(* OBS of its own; and a lease is taken away only when its OBS has ended, so *)
(* that a running OBS never loses the record that allows to stop it.         *)
CONSTANTS Identities, NoLease  \* NoLease is none of them

VARIABLES
    running,  \* the OBS processes started by the application that run
    lease     \* the identity on disk

vars == <<running, lease>>

(* An earlier version may have left a lease; nothing it started runs.        *)
Init == running = {} /\ (lease = NoLease \/ lease \notin running)

Start == /\ running = {} /\ lease = NoLease
         /\ \E id \in Identities : running' = {id}
         /\ UNCHANGED lease

Claim == /\ lease = NoLease
         /\ \E id \in Identities : running \subseteq {id} /\ lease' = id
         /\ UNCHANGED running

End == \E id \in running : running' = running \ {id} /\ UNCHANGED lease

Release == /\ lease # NoLease /\ lease \notin running /\ lease' = NoLease
           /\ UNCHANGED running

Next == Start \/ Claim \/ End \/ Release

Spec == Init /\ [][Next]_vars
=============================================================================
